---------------------------- MODULE Voter_proofs ----------------------------
(***************************************************************************)
(* Proofs about the voter, for any receivers, levels, delays and limits:   *)
(* VoterSound and VotedAudioKept.  Receivers are enabled only when they    *)
(* are disabled, and disabled by the command that mutes them completely.   *)
(*                                                                         *)
(* The invariant is stated on a whole state s, in the middle of a step as  *)
(* well, where events wait in its queue: Sound.  It says that the best and *)
(* the active receiver are heard, or that the event which gives them up    *)
(* waits.  The proof goes through the operators of Voter from the inside   *)
(* out: one receiver (Only), several (Calm), the loops over them, leaving  *)
(* and entering states (Leaves, Enters), one event (Before, After), all    *)
(* that wait (Dispatched), and the actions (Fine).                         *)
(***************************************************************************)
EXTENDS Voter, FiniteSetTheorems, SequenceTheorems, WellFoundedInduction, TLAPS

(* Some set of a family of subsets of a finite set has no smaller one in the family. *)
LEMMA SmallestSet ==
    ASSUME NEW S, IsFiniteSet(S), NEW F, F \subseteq SUBSET S, F # {}
    PROVE  \E T \in F : \A U \in F : U \subseteq T => U = T
<1>1. IsWellFoundedOn(StrictSubsetOrdering(S), SUBSET S)
  BY FS_StrictSubsetOrderingWellFounded, FS_FiniteSubsetsOfFinite
<1>2. PICK T \in F : \A U \in F : <<U, T>> \notin StrictSubsetOrdering(S)
  BY <1>1, WFMin
<1> QED  BY <1>2 DEF StrictSubsetOrdering

(* Induction up to n, for a set T of numbers: the smallest of the intervals that *)
(* reach a number outside T would reach a smaller one.                           *)
LEMMA InductUpTo ==
    ASSUME NEW n \in Nat, NEW T, 0 \in T, \A k \in 0 .. n - 1 : k \in T => k + 1 \in T
    PROVE  0 .. n \subseteq T
<1> DEFINE S == 0 .. n
           F == {0 .. k : k \in S \ T}
<1>1. SUFFICES ASSUME NEW j \in S \ T PROVE FALSE
  OBVIOUS
<1>2. IsFiniteSet(S) /\ F \subseteq SUBSET S /\ F # {}
  <2>1. IsFiniteSet(S)
    BY FS_Interval
  <2>2. \A k \in S : 0 .. k \subseteq S
    OBVIOUS
  <2> HIDE DEF S
  <2> QED  BY <2>1, <2>2
<1>3. PICK U \in F : \A V \in F : V \subseteq U => V = U
  <2> HIDE DEF S, F
  <2> QED  BY <1>2, SmallestSet
<1>4. PICK k \in S \ T : U = 0 .. k
  BY <1>3
<1>5. k # 0 /\ k - 1 \in 0 .. n - 1 /\ k - 1 \in S \ T
  BY <1>4
<1>6. 0 .. k - 1 \in F /\ 0 .. k - 1 \subseteq U /\ k \in U /\ k \notin 0 .. k - 1
  BY <1>4, <1>5
<1> QED  BY <1>3, <1>6

----------------------------------------------------------------------------
(***************************************************************************)
(* One receiver.                                                           *)
(***************************************************************************)
Voters ==
    [m : Machines, rx : [Rxs -> Receivers], tasks : Seq(Tasks), sql : BOOLEAN,
     failed : Assertions \cup {None}, queue : Seq(Events)]

\* The event of a squelch that closes.
Closing(x) == [rx |-> x, open |-> FALSE]

\* From s to t only the receiver x changes, which may close; if it does, it says so.
Only(s, t, x) ==
    /\ t \in Voters
    /\ t.m = s.m /\ t.tasks = s.tasks /\ t.sql = s.sql /\ t.failed = s.failed
    /\ \A y \in Rxs \ {x} : t.rx[y] = s.rx[y]
    /\ t.rx[x].enabled = s.rx[x].enabled
    /\ t.rx[x].open => s.rx[x].open
    /\ t.queue = IF s.rx[x].enabled /\ s.rx[x].open /\ ~t.rx[x].open
                 THEN Append(s.queue, Closing(x)) ELSE s.queue

\* A receiver that hears nothing, as one that is muted completely.
Still(r) == ~r.sig /\ r.lev = 0
Silent(r) == r.mute = "ALL" => Still(r)

\* What a receiver hears and how it is muted stays.
Hears(r, q) == q.mute = r.mute /\ q.want = r.want /\ q.sig = r.sig /\ q.lev = r.lev

(* A receiver is replaced. *)
LEMMA RxSet ==
    ASSUME NEW s \in Voters, NEW x \in Rxs, NEW r \in Receivers
    PROVE  LET t == [s EXCEPT !.rx[x] = r] IN
           /\ t \in Voters /\ t.m = s.m /\ t.tasks = s.tasks /\ t.sql = s.sql
           /\ t.failed = s.failed /\ t.queue = s.queue
           /\ t.rx[x] = r /\ \A y \in Rxs \ {x} : t.rx[y] = s.rx[y]
  BY DEF Voters

(* The type of a receiver. *)
LEMMA RxOf == ASSUME NEW s \in Voters, NEW x \in Rxs PROVE s.rx[x] \in Receivers
  BY DEF Voters

(* A receiver that is replaced by one that is as open and as enabled. *)
LEMMA OnlySet ==
    ASSUME NEW s \in Voters, NEW x \in Rxs, NEW r \in Receivers,
           r.enabled = s.rx[x].enabled, r.open = s.rx[x].open
    PROVE  LET t == [s EXCEPT !.rx[x] = r] IN Only(s, t, x) /\ t.rx[x] = r
  BY RxSet, RxOf DEF Only, Receivers

(* Two changes of one receiver. *)
LEMMA OnlyTwice ==
    ASSUME NEW s \in Voters, NEW x \in Rxs, NEW t, NEW u, Only(s, t, x), Only(t, u, x)
    PROVE  Only(s, u, x)
  BY RxOf DEF Only, Receivers

(* No change. *)
LEMMA OnlyNothing == ASSUME NEW s \in Voters, NEW x \in Rxs PROVE Only(s, s, x)
  BY DEF Only

(* An event is queued. *)
LEMMA QueueSet ==
    ASSUME NEW s \in Voters, NEW e \in Events
    PROVE  LET t == [s EXCEPT !.queue = Append(@, e)] IN
           /\ t \in Voters /\ t.m = s.m /\ t.tasks = s.tasks /\ t.sql = s.sql
           /\ t.failed = s.failed /\ t.rx = s.rx /\ t.queue = Append(s.queue, e)
  <1>1. s.queue \in Seq(Events) /\ Append(s.queue, e) \in Seq(Events)
    BY AppendProperties DEF Voters
  <1> QED BY <1>1 DEF Voters

(* SatRx::setSquelchOpen, for a squelch that closes: it may do so once. *)
LEMMA SquelchCloses ==
    ASSUME NEW s \in Voters, NEW x \in Rxs
    PROVE  LET t == SetSquelchOpen(s, x, FALSE) IN
           Only(s, t, x) /\ t.rx[x] = [s.rx[x] EXCEPT !.open = FALSE]
  <1> DEFINE r == [s.rx[x] EXCEPT !.open = FALSE]
             u == [s EXCEPT !.rx[x].open = FALSE]
             t == SetSquelchOpen(s, x, FALSE)
  <1>1. s.rx[x] \in Receivers /\ r \in Receivers
    BY RxOf DEF Receivers
  <1>2. CASE s.rx[x].open = FALSE
    <2>1. t = s /\ r = s.rx[x]
      BY <1>1, <1>2 DEF SetSquelchOpen, Receivers
    <2> QED BY <2>1, OnlyNothing
  <1>3. CASE s.rx[x].open
    <2>1. /\ u \in Voters /\ u.m = s.m /\ u.tasks = s.tasks /\ u.sql = s.sql
          /\ u.failed = s.failed /\ u.queue = s.queue
          /\ u.rx[x] = r /\ \A y \in Rxs \ {x} : u.rx[y] = s.rx[y]
      BY <1>1, RxSet
    <2>2. t = SatSquelchOpen(u, x, FALSE)
      BY <1>3 DEF SetSquelchOpen
    <2>3. r.enabled = s.rx[x].enabled /\ r.open = FALSE
      BY <1>1 DEF Receivers
    <2>4. t = IF s.rx[x].enabled THEN [u EXCEPT !.queue = Append(@, Closing(x))] ELSE u
      BY <2>1, <2>2, <2>3 DEF SatSquelchOpen, Closing
    <2>5. Closing(x) \in Events
      BY DEF Closing, Events
    <2> HIDE DEF u, t, r
    <2>6. /\ t \in Voters /\ t.m = s.m /\ t.tasks = s.tasks /\ t.sql = s.sql
          /\ t.failed = s.failed /\ t.rx = u.rx
          /\ t.queue = IF s.rx[x].enabled THEN Append(s.queue, Closing(x)) ELSE s.queue
      BY <2>1, <2>4, <2>5, QueueSet
    <2> QED BY <1>3, <2>1, <2>3, <2>6 DEF Only, t, r
  <1> QED BY <1>1, <1>2, <1>3 DEF Receivers

(* The stream of a receiver is flushed. *)
LEMMA FlushedFact ==
    ASSUME NEW s \in Voters, NEW x \in Rxs
    PROVE  LET t == Flushed(s, x) IN Only(s, t, x) /\ Hears(s.rx[x], t.rx[x])
  <1> DEFINE r == [s.rx[x] EXCEPT !.unflushed = FALSE]
             u == [s EXCEPT !.rx[x].unflushed = FALSE]
             v == SetSquelchOpen(u, x, FALSE)
  <1>1. s.rx[x] \in Receivers /\ r \in Receivers /\ r.enabled = s.rx[x].enabled
        /\ r.open = s.rx[x].open /\ Hears(s.rx[x], r)
    BY RxOf DEF Receivers, Hears
  <1>2. Only(s, u, x) /\ u.rx[x] = r
    BY <1>1, OnlySet
  <1>3. Only(u, v, x) /\ v.rx[x] = [r EXCEPT !.open = FALSE]
    <2> HIDE DEF u, r
    <2>1. u \in Voters
      BY <1>2 DEF Only
    <2> QED BY <1>2, <2>1, SquelchCloses
  <1>4. Only(s, v, x) /\ Hears(s.rx[x], v.rx[x])
    BY <1>1, <1>2, <1>3, OnlyTwice DEF Hears, Receivers
  <1>5. Flushed(s, x) = IF s.rx[x].sig THEN u ELSE v
    BY DEF Flushed
  <1> HIDE DEF u, v
  <1> QED BY <1>1, <1>2, <1>4, <1>5

(* The squelch of a receiver that is muted completely is closed: it hears nothing. *)
LEMMA MuteSquelchFact ==
    ASSUME NEW s \in Voters, NEW x \in Rxs
    PROVE  LET t == MuteSquelch(s, x) IN
           /\ Only(s, t, x) /\ Still(t.rx[x])
           /\ t.rx[x].mute = s.rx[x].mute /\ t.rx[x].want = s.rx[x].want
           /\ t.rx[x].unflushed = s.rx[x].unflushed
  <1> DEFINE r == [s.rx[x] EXCEPT !.sig = FALSE, !.lev = 0]
             u == [s EXCEPT !.rx[x] = [@ EXCEPT !.sig = FALSE, !.lev = 0]]
             v == SetSquelchOpen(u, x, FALSE)
             t == MuteSquelch(s, x)
  <1>1. s.rx[x] \in Receivers /\ r \in Receivers /\ r.enabled = s.rx[x].enabled
        /\ r.open = s.rx[x].open /\ Still(r) /\ r.mute = s.rx[x].mute
        /\ r.want = s.rx[x].want /\ r.unflushed = s.rx[x].unflushed
    BY RxOf DEF Receivers, Still
  <1>2. Only(s, u, x) /\ u.rx[x] = r
    BY <1>1, OnlySet
  <1>3. Only(u, v, x) /\ v.rx[x] = [r EXCEPT !.open = FALSE]
    <2> HIDE DEF u, r
    <2>1. u \in Voters
      BY <1>2 DEF Only
    <2> QED BY <1>2, <2>1, SquelchCloses
  <1>4. /\ Still(v.rx[x]) /\ v.rx[x].mute = s.rx[x].mute
        /\ v.rx[x].want = s.rx[x].want /\ v.rx[x].unflushed = s.rx[x].unflushed
    BY <1>1, <1>3 DEF Receivers, Still
  <1>5. Only(s, v, x)
    BY <1>2, <1>3, OnlyTwice
  <1>6. t = u \/ t = v
    BY DEF MuteSquelch
  <1> HIDE DEF u, v, t
  <1> QED BY <1>1, <1>2, <1>4, <1>5, <1>6 DEF t

(* Rx::setMuteState. *)
LEMMA RxMuteFact ==
    ASSUME NEW s \in Voters, NEW x \in Rxs, NEW mute \in MuteStates
    PROVE  LET t == RxMute(s, x, mute) IN
           /\ Only(s, t, x) /\ t.rx[x].mute = mute /\ t.rx[x].want = s.rx[x].want
           /\ Silent(s.rx[x]) => Silent(t.rx[x])
           /\ Still(s.rx[x]) => Still(t.rx[x])
           /\ t.rx[x].unflushed = s.rx[x].unflushed
  <1> DEFINE u == IF mute = "ALL" /\ s.rx[x].mute # "ALL" THEN MuteSquelch(s, x) ELSE s
             r == [u.rx[x] EXCEPT !.mute = mute]
             t == [u EXCEPT !.rx[x].mute = mute]
  <1>1. /\ Only(s, u, x) /\ u.rx[x].want = s.rx[x].want
        /\ u.rx[x].unflushed = s.rx[x].unflushed
        /\ mute = "ALL" /\ Silent(s.rx[x]) => Still(u.rx[x])
        /\ Still(s.rx[x]) => Still(u.rx[x])
    BY MuteSquelchFact, OnlyNothing DEF Silent
  <1> HIDE DEF u
  <1>2. u \in Voters /\ u.rx[x] \in Receivers
    BY <1>1, RxOf DEF Only
  <1>3. /\ r \in Receivers /\ r.enabled = u.rx[x].enabled /\ r.open = u.rx[x].open
        /\ r.mute = mute /\ r.want = u.rx[x].want /\ r.unflushed = u.rx[x].unflushed
        /\ r.sig = u.rx[x].sig /\ r.lev = u.rx[x].lev
    BY <1>2 DEF Receivers
  <1>4. Only(u, t, x) /\ t.rx[x] = r
    <2>1. t = [u EXCEPT !.rx[x] = r]
      OBVIOUS
    <2> HIDE DEF r, t
    <2> QED BY <1>2, <1>3, <2>1, OnlySet
  <1>5. Only(s, t, x)
    BY <1>1, <1>4, OnlyTwice
  <1>6. RxMute(s, x, mute) = t
    BY DEF RxMute, u
  <1> HIDE DEF t, r
  <1> QED BY <1>1, <1>3, <1>4, <1>5, <1>6 DEF Silent, Still

(* The FIFO of a receiver is cleared. *)
LEMMA ClearFifoFact ==
    ASSUME NEW s \in Voters, NEW x \in Rxs
    PROVE  LET t == ClearFifo(s, x) IN Only(s, t, x) /\ Hears(s.rx[x], t.rx[x])
  <1> DEFINE r == [s.rx[x] EXCEPT !.unflushed = FALSE]
             u == [s EXCEPT !.rx[x].unflushed = FALSE]
  <1>1. s.rx[x] \in Receivers /\ r \in Receivers /\ r.enabled = s.rx[x].enabled
        /\ r.open = s.rx[x].open /\ Hears(s.rx[x], r)
    BY RxOf DEF Receivers, Hears
  <1>2. Only(s, u, x) /\ u.rx[x] = r
    BY <1>1, OnlySet
  <1>3. Only(s, s, x) /\ Hears(s.rx[x], s.rx[x])
    BY OnlyNothing DEF Hears
  <1>4. ClearFifo(s, x) \in {s, u, Flushed(s, x)}
    BY DEF ClearFifo
  <1> HIDE DEF u, r
  <1> QED BY <1>1, <1>2, <1>3, <1>4, FlushedFact

(* SatRx::setMuteStateP. *)
LEMMA SetMuteStatePFact ==
    ASSUME NEW s \in Voters, NEW x \in Rxs, NEW mute \in MuteStates
    PROVE  LET t == SetMuteStateP(s, x, mute) IN
           /\ Only(s, t, x) /\ t.rx[x].mute = mute /\ t.rx[x].want = s.rx[x].want
           /\ Silent(s.rx[x]) => Silent(t.rx[x])
           /\ Still(s.rx[x]) => Still(t.rx[x])
           /\ mute = "NONE" => t.rx[x].unflushed = s.rx[x].unflushed
  <1> DEFINE u == RxMute(s, x, mute)
             v == ClearFifo(u, x)
  <1>1. /\ Only(s, u, x) /\ u.rx[x].mute = mute /\ u.rx[x].want = s.rx[x].want
        /\ Silent(s.rx[x]) => Silent(u.rx[x])
        /\ Still(s.rx[x]) => Still(u.rx[x])
        /\ u.rx[x].unflushed = s.rx[x].unflushed
    BY RxMuteFact
  <1> HIDE DEF u
  <1>2. Only(u, v, x) /\ Hears(u.rx[x], v.rx[x])
    BY <1>1, ClearFifoFact DEF Only
  <1>3. Only(s, v, x)
    BY <1>1, <1>2, OnlyTwice
  <1>4. SetMuteStateP(s, x, mute) = IF mute = "NONE" THEN u ELSE v
    BY DEF SetMuteStateP, u
  <1> HIDE DEF v
  <1> QED BY <1>1, <1>2, <1>3, <1>4 DEF Hears, Silent, Still

(* SatRx::setMuteState: what is wanted is kept, and given to an enabled receiver. *)
LEMMA SatSetMuteStateFact ==
    ASSUME NEW s \in Voters, NEW x \in Rxs, NEW mute \in MuteStates
    PROVE  LET t == SatSetMuteState(s, x, mute) IN
           /\ Only(s, t, x) /\ t.rx[x].want = mute
           /\ t.rx[x].mute = IF s.rx[x].enabled THEN mute ELSE s.rx[x].mute
           /\ Silent(s.rx[x]) => Silent(t.rx[x])
           /\ Still(s.rx[x]) => Still(t.rx[x])
           /\ mute = "NONE" => t.rx[x].unflushed = s.rx[x].unflushed
  <1> DEFINE r == [s.rx[x] EXCEPT !.want = mute]
             u == [s EXCEPT !.rx[x].want = mute]
             v == SetMuteStateP(u, x, mute)
  <1>1. /\ s.rx[x] \in Receivers /\ r \in Receivers
        /\ r.enabled = s.rx[x].enabled /\ r.open = s.rx[x].open
        /\ r.want = mute /\ r.mute = s.rx[x].mute /\ r.unflushed = s.rx[x].unflushed
        /\ Silent(s.rx[x]) => Silent(r)
        /\ Still(s.rx[x]) => Still(r)
    BY RxOf DEF Receivers, Silent, Still
  <1>2. Only(s, u, x) /\ u.rx[x] = r
    <2>1. u = [s EXCEPT !.rx[x] = r]
      OBVIOUS
    <2> HIDE DEF r, u
    <2> QED BY <1>1, <2>1, OnlySet
  <1>3. SatSetMuteState(s, x, mute) = IF s.rx[x].enabled THEN v ELSE u
    BY DEF SatSetMuteState
  <1> HIDE DEF u, r
  <1>4. /\ Only(u, v, x) /\ v.rx[x].mute = mute /\ v.rx[x].want = u.rx[x].want
        /\ Silent(u.rx[x]) => Silent(v.rx[x])
        /\ Still(u.rx[x]) => Still(v.rx[x])
        /\ mute = "NONE" => v.rx[x].unflushed = u.rx[x].unflushed
    BY <1>2, SetMuteStatePFact DEF Only
  <1>5. Only(s, v, x)
    BY <1>2, <1>4, OnlyTwice
  <1> HIDE DEF v
  <1> QED BY <1>1, <1>2, <1>3, <1>4, <1>5

(* SatRx::stopOutput. *)
LEMMA StopOutputFact ==
    ASSUME NEW s \in Voters, NEW x \in Rxs, NEW stop \in BOOLEAN
    PROVE  LET t == StopOutput(s, x, stop) IN Only(s, t, x) /\ Hears(s.rx[x], t.rx[x])
  <1> DEFINE q == [s.rx[x] EXCEPT !.valve = TRUE,
                                  !.late = s.rx[x].late /\ ~s.rx[x].unflushed]
             r == [s.rx[x] EXCEPT !.valve = FALSE]
             u == [s EXCEPT !.rx[x].valve = FALSE]
             o == [s EXCEPT !.rx[x] = q]
             v == Flushed(u, x)
             w == [u EXCEPT !.rx[x].unflushed = FALSE]
             l == [u EXCEPT !.rx[x] = [@ EXCEPT !.unflushed = FALSE, !.late = TRUE]]
  <1>1. \A c \in {q, r} :
            /\ c \in Receivers /\ c.enabled = s.rx[x].enabled /\ c.open = s.rx[x].open
            /\ Hears(s.rx[x], c)
    BY RxOf DEF Receivers, Hears
  <1>2. Only(s, o, x) /\ Hears(s.rx[x], o.rx[x])
    <2> HIDE DEF q
    <2> QED BY <1>1, OnlySet
  <1>3. u \in Voters /\ Only(s, u, x) /\ Hears(s.rx[x], u.rx[x])
    <2>1. u = [s EXCEPT !.rx[x] = r]
      OBVIOUS
    <2> HIDE DEF r, u
    <2> QED BY <1>1, <2>1, OnlySet DEF Only
  <1>4. StopOutput(s, x, stop) \in {o, u, v, w, l}
    BY DEF StopOutput
  <1> HIDE DEF u, o
  <1>5. Only(s, v, x) /\ Hears(s.rx[x], v.rx[x])
    <2>1. Only(u, v, x) /\ Hears(u.rx[x], v.rx[x])
      BY <1>3, FlushedFact
    <2> HIDE DEF v
    <2> QED BY <1>3, <2>1, OnlyTwice DEF Hears
  <1>6. \A c \in {w, l} : Only(s, c, x) /\ Hears(s.rx[x], c.rx[x])
    <2> DEFINE a == [u.rx[x] EXCEPT !.unflushed = FALSE]
               b == [u.rx[x] EXCEPT !.unflushed = FALSE, !.late = TRUE]
    <2>1. /\ a \in Receivers /\ a.enabled = u.rx[x].enabled /\ a.open = u.rx[x].open
          /\ Hears(u.rx[x], a)
      BY <1>3, RxOf DEF Receivers, Hears
    <2>2. /\ b \in Receivers /\ b.enabled = u.rx[x].enabled /\ b.open = u.rx[x].open
          /\ Hears(u.rx[x], b)
      BY <1>3, RxOf DEF Receivers, Hears
    <2>3. w = [u EXCEPT !.rx[x] = a] /\ l = [u EXCEPT !.rx[x] = b]
      OBVIOUS
    <2> HIDE DEF a, b, w, l
    <2>4. Only(u, w, x) /\ Hears(u.rx[x], w.rx[x])
      BY <1>3, <2>1, <2>3, OnlySet
    <2>5. Only(u, l, x) /\ Hears(u.rx[x], l.rx[x])
      BY <1>3, <2>2, <2>3, OnlySet
    <2> QED BY <1>3, <2>4, <2>5, OnlyTwice DEF Hears
  <1> HIDE DEF v, w, l
  <1> QED BY <1>2, <1>3, <1>4, <1>5, <1>6

----------------------------------------------------------------------------
(***************************************************************************)
(* The queue of events, and its weight: every squelch that is open may     *)
(* still add an event.                                                     *)
(***************************************************************************)
\* The receivers with an event in q that their squelches close or open.
Lost(q) == {x \in Rxs : \E i \in 1 .. Len(q) : q[i] = Closing(x)}
Gained(q) == {x \in Rxs : \E i \in 1 .. Len(q) : q[i] = [rx |-> x, open |-> TRUE]}

\* Only the first event of q may be a squelch that opens.
OnlyFirst(q) == \A i \in 2 .. Len(q) : ~q[i].open

Opened(s) == {x \in Rxs : s.rx[x].open}
Weight(s) == Len(s.queue) + Cardinality(Opened(s))

(* The receivers are finitely many, no more than their names in RECEIVERS. *)
LEMMA FewReceivers ==
    IsFiniteSet(Rxs) /\ Len(RXS) \in Nat /\ Cardinality(Rxs) \in 0 .. Len(RXS)
  <1> DEFINE n == Len(RXS)
  <1>1. n \in Nat /\ RXS \in [1 .. n -> Rxs] /\ DOMAIN RXS = 1 .. n
    BY VoterAssumption, LenProperties
  <1>2. RXS \in Surjection(1 .. n, Rxs)
    BY <1>1 DEF Rxs, Range, Surjection
  <1>3. IsFiniteSet(1 .. n) /\ Cardinality(1 .. n) = n
    BY <1>1, FS_Interval
  <1>4. IsFiniteSet(Rxs) /\ Cardinality(Rxs) <= n
    BY <1>2, <1>3, FS_Surjection
  <1> QED BY <1>1, <1>4, FS_CardinalityType

(* The places of the receivers in RECEIVERS. *)
LEMMA Places ==
    /\ \A i \in 1 .. Len(RXS) : RXS[i] \in Rxs
    /\ \A x \in Rxs : \E i \in 1 .. Len(RXS) : RXS[i] = x
  <1>1. RXS \in [1 .. Len(RXS) -> Rxs] /\ DOMAIN RXS = 1 .. Len(RXS)
    BY VoterAssumption, LenProperties
  <1> QED BY <1>1 DEF Rxs, Range

(* An event at the end of the queue. *)
LEMMA QueueAppend ==
    ASSUME NEW q \in Seq(Events), NEW e \in Events
    PROVE  LET p == Append(q, e) IN
           /\ p \in Seq(Events) /\ Len(p) = Len(q) + 1
           /\ Lost(p) = IF e.open THEN Lost(q) ELSE Lost(q) \cup {e.rx}
           /\ Gained(p) = IF e.open THEN Gained(q) \cup {e.rx} ELSE Gained(q)
           /\ OnlyFirst(q) /\ (e.open => q = <<>>) => OnlyFirst(p)
  <1> DEFINE p == Append(q, e)
  <1>1. e.open \in BOOLEAN /\ e.rx \in Rxs /\ e = [rx |-> e.rx, open |-> e.open]
    BY DEF Events
  <1>2. /\ p \in Seq(Events) /\ Len(p) = Len(q) + 1 /\ Len(q) \in Nat
        /\ \A i \in 1 .. Len(q) : p[i] = q[i]
        /\ p[Len(q) + 1] = e
    BY AppendProperties, LenProperties
  <1>3. \A y \in Rxs : e = Closing(y) <=> e.rx = y /\ ~e.open
    BY <1>1 DEF Closing
  <1>4. \A y \in Rxs : e = [rx |-> y, open |-> TRUE] <=> e.rx = y /\ e.open
    BY <1>1
  <1> HIDE DEF p
  <1>5. \A i \in 1 .. Len(p) : i \in 1 .. Len(q) \/ i = Len(q) + 1
    BY <1>2
  <1>6. Len(q) + 1 \in 1 .. Len(p) /\ \A i \in 1 .. Len(q) : i \in 1 .. Len(p)
    BY <1>2
  <1>7. \A y \in Rxs : y \in Lost(p) <=> y \in Lost(q) \/ (y = e.rx /\ ~e.open)
    BY <1>2, <1>3, <1>5, <1>6 DEF Lost
  <1>8. \A y \in Rxs : y \in Gained(p) <=> y \in Gained(q) \/ (y = e.rx /\ e.open)
    BY <1>2, <1>4, <1>5, <1>6 DEF Gained
  <1>9. OnlyFirst(q) /\ (e.open => q = <<>>) => OnlyFirst(p)
    <2> SUFFICES ASSUME OnlyFirst(q), e.open => q = <<>>, NEW i \in 2 .. Len(p)
                 PROVE  ~p[i].open
      BY DEF OnlyFirst
    <2>1. i \in 2 .. Len(q) => p[i] = q[i]
      BY <1>2
    <2>2. i \notin 2 .. Len(q) => i = Len(q) + 1 /\ Len(q) # 0
      BY <1>2
    <2>3. e.open => Len(q) = 0
      BY EmptySeq
    <2> QED BY <1>2, <2>1, <2>2, <2>3 DEF OnlyFirst
  <1>10. Lost(p) = IF e.open THEN Lost(q) ELSE Lost(q) \cup {e.rx}
    BY <1>1, <1>7 DEF Lost
  <1>11. Gained(p) = IF e.open THEN Gained(q) \cup {e.rx} ELSE Gained(q)
    BY <1>1, <1>8 DEF Gained
  <1> QED BY <1>2, <1>9, <1>10, <1>11 DEF p

(* The first event is taken: no other event opens a squelch. *)
LEMMA QueueTail ==
    ASSUME NEW q \in Seq(Events), q # <<>>, OnlyFirst(q)
    PROVE  /\ Tail(q) \in Seq(Events) /\ Len(Tail(q)) = Len(q) - 1 /\ Head(q) \in Events
           /\ Len(q) \in Nat \ {0}
           /\ OnlyFirst(Tail(q)) /\ Gained(Tail(q)) = {}
           /\ \A x \in Rxs : x \in Lost(q) => x \in Lost(Tail(q)) \/ Head(q) = Closing(x)
           /\ \A x \in Rxs : Head(q) = [rx |-> x, open |-> TRUE] => x \in Gained(q)
           /\ \A x \in Rxs : x \in Gained(q) => Head(q) = [rx |-> x, open |-> TRUE]
  <1> DEFINE p == Tail(q)
  <1>1. /\ p \in Seq(Events) /\ Len(p) = Len(q) - 1 /\ Head(q) \in Events
        /\ Len(q) \in Nat \ {0} /\ Head(q) = q[1]
        /\ \A i \in 1 .. Len(p) : p[i] = q[i + 1]
    BY HeadTailProperties, EmptySeq
  <1> HIDE DEF p
  <1>2. \A i \in 1 .. Len(p) : ~p[i].open
    BY <1>1 DEF OnlyFirst
  <1>3. Gained(p) = {}
    BY <1>2 DEF Gained
  <1>4. OnlyFirst(p)
    BY <1>1, <1>2 DEF OnlyFirst
  <1>5. \A i \in 1 .. Len(q) : i = 1 \/ (i - 1 \in 1 .. Len(p) /\ p[i - 1] = q[i])
    BY <1>1
  <1>6. \A x \in Rxs : x \in Lost(q) => x \in Lost(p) \/ q[1] = Closing(x)
    BY <1>5 DEF Lost
  <1>7. \A x \in Rxs : x \in Gained(q) => q[1] = [rx |-> x, open |-> TRUE]
    BY <1>3, <1>5 DEF Gained
  <1>8. \A x \in Rxs : q[1] = [rx |-> x, open |-> TRUE] => x \in Gained(q)
    BY <1>1 DEF Gained
  <1> QED BY <1>1, <1>3, <1>4, <1>6, <1>7, <1>8 DEF p

(* An empty queue has no events. *)
LEMMA QueueEmpty == Lost(<<>>) = {} /\ Gained(<<>>) = {} /\ OnlyFirst(<<>>)
  <1>1. Len(<<>>) = 0
    BY EmptySeq
  <1> QED BY <1>1 DEF Lost, Gained, OnlyFirst

----------------------------------------------------------------------------
(***************************************************************************)
(* Several receivers.                                                      *)
(***************************************************************************)
\* From receiver r to q: it may close, becomes no less quiet, and mutes only as wanted.
Calms(r, q) ==
    /\ q.enabled = r.enabled /\ (q.open => r.open)
    /\ (Silent(r) => Silent(q)) /\ (Still(r) => Still(q))
    /\ (r.enabled /\ r.mute = r.want => q.mute = q.want)
    /\ (~r.enabled => q.mute = r.mute)

\* From s to t receivers may close; those that take part in the voting say so.
Calm(s, t) ==
    /\ t \in Voters
    /\ \A x \in Rxs :
        /\ Calms(s.rx[x], t.rx[x])
        /\ s.rx[x].enabled /\ s.rx[x].open /\ ~t.rx[x].open => x \in Lost(t.queue)
    /\ Lost(s.queue) \subseteq Lost(t.queue) /\ Gained(t.queue) = Gained(s.queue)
    /\ OnlyFirst(s.queue) => OnlyFirst(t.queue)
    /\ Weight(t) <= Weight(s)

\* The state machine, the tasks and the report stay.
SameControl(s, t) ==
    t.m = s.m /\ t.tasks = s.tasks /\ t.sql = s.sql /\ t.failed = s.failed

(* A weight is a number. *)
LEMMA WeightType ==
    ASSUME NEW s \in Voters
    PROVE  /\ Len(s.queue) \in Nat /\ IsFiniteSet(Opened(s))
           /\ Cardinality(Opened(s)) \in 0 .. Len(RXS)
           /\ Weight(s) \in Nat /\ Weight(s) >= Len(s.queue)
           /\ Weight(s) <= Len(s.queue) + Len(RXS)
  <1>1. Len(s.queue) \in Nat
    BY LenProperties DEF Voters
  <1>2. /\ Cardinality(Opened(s)) \in Nat /\ IsFiniteSet(Opened(s))
        /\ Cardinality(Opened(s)) <= Cardinality(Rxs)
    BY FewReceivers, FS_Subset, FS_CardinalityType DEF Opened
  <1> QED BY <1>1, <1>2, FewReceivers DEF Weight

(* Calm steps add up. *)
LEMMA CalmTwice ==
    ASSUME NEW s \in Voters, NEW t, NEW u, Calm(s, t), Calm(t, u)
    PROVE  Calm(s, u)
  <1>1. t \in Voters /\ u \in Voters
    BY DEF Calm
  <1>2. Weight(u) <= Weight(s)
    BY <1>1, WeightType DEF Calm
  <1>3. ASSUME NEW x \in Rxs
        PROVE  /\ Calms(s.rx[x], u.rx[x])
               /\ s.rx[x].enabled /\ s.rx[x].open /\ ~u.rx[x].open => x \in Lost(u.queue)
    <2>1. Calms(s.rx[x], t.rx[x]) /\ Calms(t.rx[x], u.rx[x])
      BY DEF Calm
    <2>2. Calms(s.rx[x], u.rx[x])
      BY <2>1 DEF Calms
    <2>3. s.rx[x].enabled /\ s.rx[x].open /\ ~u.rx[x].open => x \in Lost(u.queue)
      BY <2>1 DEF Calm, Calms
    <2> QED BY <2>2, <2>3
  <1> QED BY <1>1, <1>2, <1>3 DEF Calm

(* Nothing that happens to the receivers is calm. *)
LEMMA CalmSame ==
    ASSUME NEW s \in Voters, NEW t \in Voters, t.rx = s.rx, t.queue = s.queue
    PROVE  Calm(s, t)
  <1>1. Weight(t) = Weight(s) /\ Weight(s) \in Nat
    BY WeightType DEF Weight, Opened
  <1> QED BY <1>1 DEF Calm, Calms

(* A change of one receiver adds no more to the queue than its squelch took away. *)
LEMMA OnlyWeight ==
    ASSUME NEW s \in Voters, NEW x \in Rxs, NEW t, Only(s, t, x)
    PROVE  /\ Weight(t) <= Weight(s)
           /\ Lost(s.queue) \subseteq Lost(t.queue) /\ Gained(t.queue) = Gained(s.queue)
           /\ OnlyFirst(s.queue) => OnlyFirst(t.queue)
           /\ s.rx[x].enabled /\ s.rx[x].open /\ ~t.rx[x].open => x \in Lost(t.queue)
  <1>1. /\ s.queue \in Seq(Events) /\ s.rx[x] \in Receivers /\ t \in Voters
        /\ t.rx[x] \in Receivers
    BY RxOf DEF Voters, Only
  <1>2. CASE s.rx[x].enabled /\ s.rx[x].open /\ ~t.rx[x].open
    <2>1. /\ t.queue = Append(s.queue, Closing(x)) /\ Closing(x) \in Events
          /\ Closing(x).rx = x /\ ~Closing(x).open
      BY <1>2 DEF Only, Closing, Events
    <2>2. Opened(t) = Opened(s) \ {x} /\ x \in Opened(s)
      BY <1>2 DEF Only, Opened
    <2>3. /\ Len(t.queue) = Len(s.queue) + 1 /\ Lost(t.queue) = Lost(s.queue) \cup {x}
          /\ Gained(t.queue) = Gained(s.queue)
          /\ OnlyFirst(s.queue) => OnlyFirst(t.queue)
      BY <1>1, <2>1, QueueAppend
    <2>4. Cardinality(Opened(t)) = Cardinality(Opened(s)) - 1
      BY <2>2, WeightType, FS_RemoveElement
    <2>5. Weight(t) <= Weight(s)
      BY <1>1, <2>3, <2>4, WeightType DEF Weight
    <2> QED BY <2>3, <2>5
  <1>3. CASE ~(s.rx[x].enabled /\ s.rx[x].open /\ ~t.rx[x].open)
    <2>1. t.queue = s.queue
      BY <1>3 DEF Only
    <2>2. Opened(t) \subseteq Opened(s)
      BY DEF Only, Opened
    <2>3. Cardinality(Opened(t)) <= Cardinality(Opened(s))
      BY <2>2, WeightType, FS_Subset
    <2>4. Weight(t) <= Weight(s)
      BY <1>1, <2>1, <2>3, WeightType DEF Weight
    <2> QED BY <1>3, <2>1, <2>4
  <1> QED BY <1>2, <1>3

(* A change of one receiver that is calm. *)
LEMMA OnlyCalm ==
    ASSUME NEW s \in Voters, NEW x \in Rxs, NEW t, Only(s, t, x), Calms(s.rx[x], t.rx[x])
    PROVE  Calm(s, t) /\ SameControl(s, t)
  <1>1. \A y \in Rxs \ {x} : t.rx[y] = s.rx[y]
    BY DEF Only
  <1>2. \A y \in Rxs : Calms(s.rx[y], t.rx[y])
    BY <1>1 DEF Calms
  <1> QED BY <1>1, <1>2, OnlyWeight DEF Only, Calm, SameControl

(* One that keeps what it hears and how it is muted. *)
LEMMA HearsCalm ==
    ASSUME NEW s \in Voters, NEW x \in Rxs, NEW t, Only(s, t, x), Hears(s.rx[x], t.rx[x])
    PROVE  /\ Calm(s, t) /\ SameControl(s, t)
           /\ \A y \in Rxs : t.rx[y].want = s.rx[y].want
  <1>1. Calms(s.rx[x], t.rx[x])
    BY DEF Only, Hears, Calms, Silent, Still
  <1> QED BY <1>1, OnlyCalm DEF Only, Hears

(* SatRx::setMuteState of one receiver. *)
LEMMA SatSetCalm ==
    ASSUME NEW s \in Voters, NEW x \in Rxs, NEW mute \in MuteStates
    PROVE  LET t == SatSetMuteState(s, x, mute) IN
           /\ Calm(s, t) /\ SameControl(s, t)
           /\ t.rx[x].want = mute /\ \A y \in Rxs \ {x} : t.rx[y] = s.rx[y]
           /\ mute = "NONE" => t.rx[x].unflushed = s.rx[x].unflushed
  <1> DEFINE t == SatSetMuteState(s, x, mute)
  <1>1. /\ Only(s, t, x) /\ t.rx[x].want = mute
        /\ t.rx[x].mute = IF s.rx[x].enabled THEN mute ELSE s.rx[x].mute
        /\ Silent(s.rx[x]) => Silent(t.rx[x])
        /\ Still(s.rx[x]) => Still(t.rx[x])
        /\ mute = "NONE" => t.rx[x].unflushed = s.rx[x].unflushed
    BY SatSetMuteStateFact
  <1> HIDE DEF t
  <1>2. Calms(s.rx[x], t.rx[x])
    BY <1>1 DEF Only, Calms
  <1>3. Calm(s, t) /\ SameControl(s, t)
    BY <1>1, <1>2, OnlyCalm
  <1> QED BY <1>1, <1>3 DEF Only, t

----------------------------------------------------------------------------
(***************************************************************************)
(* Loops over all receivers.                                               *)
(***************************************************************************)
\* F[i] is step i of a loop of n steps that stays in S; f is what the loop does.
LoopIn(S, n, F) == \A i \in 1 .. n : \A v \in S : F[i][v] \in S
Runs(f, s, S, n, F) ==
    f \in [0 .. n -> S] /\ f[0] = s /\ \A i \in 1 .. n : f[i] = F[i][f[i - 1]]

(* What a loop of n steps does is defined. *)
LEMMA Loop ==
    ASSUME NEW n \in Nat, NEW S, NEW s \in S, NEW F, LoopIn(S, n, F)
    PROVE  \E f : Runs(f, s, S, n, F)
  <1> DEFINE P(k) == \E f \in [0 .. k -> S] :
                        f[0] = s /\ \A i \in 1 .. k : f[i] = F[i][f[i - 1]]
             T == {k \in 0 .. n : P(k)}
  <1>1. 0 \in T
    <2> DEFINE f == [i \in 0 .. 0 |-> s]
    <2>1. f \in [0 .. 0 -> S] /\ f[0] = s
      OBVIOUS
    <2>2. \A i \in 1 .. 0 : FALSE
      OBVIOUS
    <2> HIDE DEF f
    <2>3. P(0)
      BY <2>1, <2>2
    <2> QED BY <2>3
  <1>2. ASSUME NEW k \in 0 .. n - 1, k \in T PROVE k + 1 \in T
    <2>1. PICK f \in [0 .. k -> S] :
                f[0] = s /\ \A i \in 1 .. k : f[i] = F[i][f[i - 1]]
      BY <1>2
    <2> DEFINE v == F[k + 1][f[k]]
               g == [i \in 0 .. k + 1 |-> IF i = k + 1 THEN v ELSE f[i]]
    <2>2. k + 1 \in 1 .. n /\ k \in 0 .. k /\ k \in Nat
      OBVIOUS
    <2>3. v \in S
      BY <2>1, <2>2 DEF LoopIn
    <2>4. v = F[k + 1][f[k]]
      OBVIOUS
    <2> HIDE DEF v
    <2>5. \A i \in 0 .. k : i \in 0 .. k + 1 /\ i # k + 1
      BY <2>2
    <2>6. \A i \in 0 .. k : g[i] = f[i]
      BY <2>5
    <2>7. g[k + 1] = v /\ g \in [0 .. k + 1 -> S]
      BY <2>2, <2>3
    <2> HIDE DEF g
    <2>8. \A i \in 1 .. k + 1 : i = k + 1 \/ (i \in 1 .. k /\ i \in 0 .. k /\ i - 1 \in 0 .. k)
      BY <2>2
    <2>9. \A i \in 1 .. k + 1 : g[i] = F[i][g[i - 1]]
      <3> TAKE i \in 1 .. k + 1
      <3>1. CASE i = k + 1
        <4>1. i - 1 = k
          BY <2>2, <3>1
        <4> QED BY <2>2, <2>4, <2>6, <2>7, <3>1, <4>1
      <3>2. CASE i # k + 1
        BY <2>1, <2>6, <2>8, <3>2
      <3> QED BY <3>1, <3>2
    <2>10. g[0] = s
      BY <2>1, <2>2, <2>6
    <2>11. P(k + 1)
      BY <2>7, <2>9, <2>10
    <2> QED BY <2>2, <2>11
  <1> HIDE DEF P
  <1>3. n \in T
    <2> HIDE DEF T
    <2>1. \A k \in 0 .. n - 1 : k \in T => k + 1 \in T
      BY <1>2
    <2> QED BY <1>1, <2>1, InductUpTo
  <1> QED BY <1>3 DEF P, Runs

(* What MuteAllBut does, one receiver after the other. *)
LEMMA MuteAllButLoop ==
    ASSUME NEW s \in Voters, NEW y \in Rxs \cup {None}, NEW mute \in MuteStates
    PROVE  \E f : /\ MuteAllBut(s, y, mute) = f[Len(RXS)] /\ f[0] = s
                  /\ \A i \in 1 .. Len(RXS) :
                        f[i] = SatSetMuteState(f[i - 1], RXS[i],
                                               IF RXS[i] = y THEN "NONE" ELSE mute)
  <1> DEFINE n == Len(RXS)
             Want(x) == IF x = y THEN "NONE" ELSE mute
             Op(v, i) == SatSetMuteState(v, RXS[i], Want(RXS[i]))
             F == [i \in 1 .. n |-> [v \in Voters |-> Op(v, i)]]
             g == CHOOSE after : after = [i \in 0 .. n |-> IF i = 0 THEN s ELSE Op(after[i - 1], i)]
  <1>1. n \in Nat /\ \A i \in 1 .. n : RXS[i] \in Rxs
    BY FewReceivers, Places
  <1>2. \A i \in 1 .. n : Want(RXS[i]) \in MuteStates
    BY DEF MuteStates
  <1>3. \A i \in 1 .. n : \A v \in Voters : Op(v, i) \in Voters
    <2> HIDE DEF Want, n
    <2> QED BY <1>1, <1>2, SatSetCalm DEF Calm
  <1>4. \E f : f = [i \in 0 .. n |-> IF i = 0 THEN s ELSE Op(f[i - 1], i)]
    <2> HIDE DEF Op, n
    <2>1. \A i \in 1 .. n : \A v \in Voters : F[i][v] = Op(v, i)
      OBVIOUS
    <2> HIDE DEF F
    <2>2. LoopIn(Voters, n, F)
      BY <1>3, <2>1 DEF LoopIn
    <2>3. PICK f : Runs(f, s, Voters, n, F)
      BY <1>1, <2>2, Loop
    <2>4. f \in [0 .. n -> Voters] /\ f[0] = s /\ \A i \in 1 .. n : f[i] = F[i][f[i - 1]]
      BY <2>3 DEF Runs
    <2>5. \A i \in 0 .. n : i # 0 => i \in 1 .. n /\ i - 1 \in 0 .. n
      BY <1>1
    <2>6. \A i \in 0 .. n : f[i] = IF i = 0 THEN s ELSE Op(f[i - 1], i)
      BY <2>1, <2>4, <2>5
    <2>7. f = [i \in 0 .. n |-> f[i]]
      BY <2>4
    <2>8. f = [i \in 0 .. n |-> IF i = 0 THEN s ELSE Op(f[i - 1], i)]
      BY <2>6, <2>7
    <2> QED BY <2>8
  <1>5. MuteAllBut(s, y, mute) = g[n]
    BY DEF MuteAllBut
  <1>6. g = [i \in 0 .. n |-> IF i = 0 THEN s ELSE Op(g[i - 1], i)]
    <2> HIDE DEF Op, n
    <2> QED BY <1>4
  <1> HIDE DEF g
  <1>7. g[0] = s /\ \A i \in 1 .. n : g[i] = Op(g[i - 1], i)
    <2> HIDE DEF Op, n
    <2>1. \A i \in 1 .. n : i \in 0 .. n /\ i # 0
      BY <1>1
    <2>2. 0 \in 0 .. n
      BY <1>1
    <2> QED BY <1>6, <2>1, <2>2
  <1> QED BY <1>5, <1>7

(* MuteAllBut: the receivers want what they are told to. *)
LEMMA MuteAllButCalm ==
    ASSUME NEW s \in Voters, NEW y \in Rxs \cup {None}, NEW mute \in MuteStates
    PROVE  LET t == MuteAllBut(s, y, mute) IN
           /\ Calm(s, t) /\ SameControl(s, t)
           /\ \A x \in Rxs : t.rx[x].want = IF x = y THEN "NONE" ELSE mute
           /\ \A x \in Rxs : x = y \/ mute = "NONE" => t.rx[x].unflushed = s.rx[x].unflushed
  <1> DEFINE n == Len(RXS)
             Want(x) == IF x = y THEN "NONE" ELSE mute
             Told(t, i) ==
                /\ Calm(s, t) /\ SameControl(s, t)
                /\ \A j \in 1 .. i : t.rx[RXS[j]].want = Want(RXS[j])
                /\ \A x \in Rxs :
                    Want(x) = "NONE" => t.rx[x].unflushed = s.rx[x].unflushed
  <1>1. PICK f : /\ MuteAllBut(s, y, mute) = f[n] /\ f[0] = s
                 /\ \A i \in 1 .. n : f[i] = SatSetMuteState(f[i - 1], RXS[i], Want(RXS[i]))
    BY MuteAllButLoop
  <1>2. n \in Nat /\ \A i \in 1 .. n : RXS[i] \in Rxs /\ Want(RXS[i]) \in MuteStates
    BY FewReceivers, Places DEF MuteStates
  <1> HIDE DEF n, Want
  <1>3. Told(f[0], 0)
    <2>1. /\ Calm(s, s) /\ SameControl(s, s)
          /\ \A j \in 1 .. 0 : FALSE
      BY CalmSame DEF SameControl
    <2> QED BY <1>1, <2>1
  <1>4. ASSUME NEW k \in 0 .. n - 1, Told(f[k], k) PROVE Told(f[k + 1], k + 1)
    <2> DEFINE z == RXS[k + 1]
               t == f[k]
               u == f[k + 1]
    <2>1. k + 1 \in 1 .. n /\ (k + 1) - 1 = k /\ t \in Voters /\ z \in Rxs
          /\ Want(z) \in MuteStates
      BY <1>2, <1>4 DEF Calm
    <2>2. u = SatSetMuteState(t, z, Want(z))
      BY <1>1, <2>1
    <2>3. /\ Calm(s, t) /\ SameControl(s, t)
          /\ \A j \in 1 .. k : t.rx[RXS[j]].want = Want(RXS[j])
          /\ \A x \in Rxs : Want(x) = "NONE" => t.rx[x].unflushed = s.rx[x].unflushed
      BY <1>4
    <2> HIDE DEF u, z, t
    <2>4. /\ Calm(t, u) /\ SameControl(t, u) /\ u.rx[z].want = Want(z)
          /\ \A x \in Rxs \ {z} : u.rx[x] = t.rx[x]
          /\ Want(z) = "NONE" => u.rx[z].unflushed = t.rx[z].unflushed
      BY <2>1, <2>2, SatSetCalm
    <2>5. Calm(s, u) /\ SameControl(s, u)
      BY <2>3, <2>4, CalmTwice DEF SameControl
    <2>6. \A j \in 1 .. k + 1 : u.rx[RXS[j]].want = Want(RXS[j])
      <3> TAKE j \in 1 .. k + 1
      <3>1. j \in 1 .. n /\ RXS[j] \in Rxs /\ (j = k + 1 \/ j \in 1 .. k)
        BY <1>2
      <3>2. CASE RXS[j] = z
        BY <2>4, <3>2
      <3>3. CASE RXS[j] # z
        BY <2>3, <2>4, <3>1, <3>3 DEF z
      <3> QED BY <3>2, <3>3
    <2>7. \A x \in Rxs : Want(x) = "NONE" => u.rx[x].unflushed = s.rx[x].unflushed
      <3> TAKE x \in Rxs
      <3>1. CASE x = z
        BY <2>3, <2>4, <3>1
      <3>2. CASE x # z
        BY <2>3, <2>4, <3>2
      <3> QED BY <3>1, <3>2
    <2> QED BY <2>5, <2>6, <2>7 DEF u
  <1> HIDE DEF Told
  <1>5. Told(f[n], n)
    <2> DEFINE T == {k \in 0 .. n : Told(f[k], k)}
    <2>1. 0 \in T /\ \A k \in 0 .. n - 1 : k \in T => k + 1 \in T
      BY <1>2, <1>3, <1>4
    <2> HIDE DEF T
    <2>2. n \in T
      BY <1>2, <2>1, InductUpTo
    <2> QED BY <2>2 DEF T
  <1>6. \A x \in Rxs : f[n].rx[x].want = Want(x)
    BY <1>5, Places DEF Told, n
  <1> QED BY <1>1, <1>5, <1>6 DEF Told, Want

(* All receivers are muted in one way. *)
LEMMA MuteAllCalm ==
    ASSUME NEW s \in Voters, NEW mute \in MuteStates
    PROVE  LET t == MuteAll(s, mute) IN
           /\ Calm(s, t) /\ SameControl(s, t)
           /\ \A x \in Rxs : t.rx[x].want = mute
           /\ mute = "NONE" => \A x \in Rxs : t.rx[x].unflushed = s.rx[x].unflushed
  <1>1. None \notin Rxs
    BY VoterAssumption
  <1> QED BY <1>1, MuteAllButCalm DEF MuteAll

\* In a reset a receiver is muted although it may not have wanted to be.
Resets(r, q) ==
    /\ q.enabled = r.enabled /\ (q.open => r.open)
    /\ (Silent(r) => Silent(q)) /\ (Still(r) => Still(q))

Reset1(s, t) ==
    /\ t \in Voters /\ SameControl(s, t)
    /\ \A x \in Rxs :
        /\ Resets(s.rx[x], t.rx[x])
        /\ s.rx[x].enabled /\ s.rx[x].open /\ ~t.rx[x].open => x \in Lost(t.queue)
    /\ Lost(s.queue) \subseteq Lost(t.queue) /\ Gained(t.queue) = Gained(s.queue)
    /\ OnlyFirst(s.queue) => OnlyFirst(t.queue)

(* SatRx::reset of one receiver. *)
LEMMA SatResetFact ==
    ASSUME NEW s \in Voters, NEW x \in Rxs
    PROVE  LET t == SatReset(s, x) IN
           /\ Reset1(s, t) /\ t.rx[x].mute = "ALL" /\ t.rx[x].want = "ALL"
           /\ \A y \in Rxs \ {x} : t.rx[y] = s.rx[y]
  <1> DEFINE u == RxMute(s, x, "ALL")
             r == [u.rx[x] EXCEPT !.want = "ALL"]
             t == [u EXCEPT !.rx[x].want = "ALL"]
  <1>1. /\ Only(s, u, x) /\ u.rx[x].mute = "ALL"
        /\ Silent(s.rx[x]) => Silent(u.rx[x])
        /\ Still(s.rx[x]) => Still(u.rx[x])
    BY RxMuteFact DEF MuteStates
  <1> HIDE DEF u
  <1>2. u \in Voters /\ u.rx[x] \in Receivers
    BY <1>1, RxOf DEF Only
  <1>3. /\ r \in Receivers /\ r.enabled = u.rx[x].enabled /\ r.open = u.rx[x].open
        /\ r.mute = "ALL" /\ r.want = "ALL"
        /\ Silent(u.rx[x]) => Silent(r)
        /\ Still(u.rx[x]) => Still(r)
    BY <1>1, <1>2 DEF Receivers, MuteStates, Silent, Still
  <1>4. Only(u, t, x) /\ t.rx[x] = r
    <2>1. t = [u EXCEPT !.rx[x] = r]
      OBVIOUS
    <2> HIDE DEF r, t
    <2> QED BY <1>2, <1>3, <2>1, OnlySet
  <1>5. SatReset(s, x) = t
    BY DEF SatReset, u
  <1> HIDE DEF r, t
  <1>6. Only(s, t, x)
    BY <1>1, <1>4, OnlyTwice
  <1>7. Resets(s.rx[x], t.rx[x]) /\ t.rx[x].mute = "ALL" /\ t.rx[x].want = "ALL"
    BY <1>1, <1>3, <1>4, <1>6 DEF Only, Resets
  <1>8. \A y \in Rxs \ {x} : t.rx[y] = s.rx[y] /\ Resets(s.rx[y], t.rx[y])
    BY <1>6 DEF Only, Resets
  <1>9. \A y \in Rxs :
            /\ Resets(s.rx[y], t.rx[y])
            /\ s.rx[y].enabled /\ s.rx[y].open /\ ~t.rx[y].open => y \in Lost(t.queue)
    BY <1>6, <1>7, <1>8, OnlyWeight
  <1> QED BY <1>5, <1>6, <1>7, <1>8, <1>9, OnlyWeight DEF Only, Reset1, SameControl

(* What ResetAll does, one receiver after the other. *)
LEMMA ResetAllLoop ==
    ASSUME NEW s \in Voters
    PROVE  \E f : /\ ResetAll(s) = f[Len(RXS)] /\ f[0] = s
                  /\ \A i \in 1 .. Len(RXS) : f[i] = SatReset(f[i - 1], RXS[i])
  <1> DEFINE n == Len(RXS)
             Op(v, i) == SatReset(v, RXS[i])
             F == [i \in 1 .. n |-> [v \in Voters |-> Op(v, i)]]
             g == CHOOSE after : after = [i \in 0 .. n |-> IF i = 0 THEN s ELSE Op(after[i - 1], i)]
  <1>1. n \in Nat /\ \A i \in 1 .. n : RXS[i] \in Rxs
    BY FewReceivers, Places
  <1>2. \A i \in 1 .. n : \A v \in Voters : Op(v, i) \in Voters
    <2> HIDE DEF n
    <2> QED BY <1>1, SatResetFact DEF Reset1
  <1>3. \E f : f = [i \in 0 .. n |-> IF i = 0 THEN s ELSE Op(f[i - 1], i)]
    <2> HIDE DEF Op, n
    <2>1. \A i \in 1 .. n : \A v \in Voters : F[i][v] = Op(v, i)
      OBVIOUS
    <2> HIDE DEF F
    <2>2. LoopIn(Voters, n, F)
      BY <1>2, <2>1 DEF LoopIn
    <2>3. PICK f : Runs(f, s, Voters, n, F)
      BY <1>1, <2>2, Loop
    <2>4. f \in [0 .. n -> Voters] /\ f[0] = s /\ \A i \in 1 .. n : f[i] = F[i][f[i - 1]]
      BY <2>3 DEF Runs
    <2>5. \A i \in 0 .. n : i # 0 => i \in 1 .. n /\ i - 1 \in 0 .. n
      BY <1>1
    <2>6. \A i \in 0 .. n : f[i] = IF i = 0 THEN s ELSE Op(f[i - 1], i)
      BY <2>1, <2>4, <2>5
    <2>7. f = [i \in 0 .. n |-> f[i]]
      BY <2>4
    <2> QED BY <2>6, <2>7
  <1>4. ResetAll(s) = g[n]
    BY DEF ResetAll
  <1>5. g = [i \in 0 .. n |-> IF i = 0 THEN s ELSE Op(g[i - 1], i)]
    <2> HIDE DEF Op, n
    <2> QED BY <1>3
  <1> HIDE DEF g
  <1>6. g[0] = s /\ \A i \in 1 .. n : g[i] = Op(g[i - 1], i)
    <2> HIDE DEF Op, n
    <2>1. 0 \in 0 .. n /\ \A i \in 1 .. n : i \in 0 .. n /\ i # 0
      BY <1>1
    <2> QED BY <1>5, <2>1
  <1> QED BY <1>4, <1>6

(* ResetAll: all receivers are muted and want to be. *)
LEMMA ResetAllFact ==
    ASSUME NEW s \in Voters
    PROVE  LET t == ResetAll(s) IN
           /\ Reset1(s, t)
           /\ \A x \in Rxs : t.rx[x].mute = "ALL" /\ t.rx[x].want = "ALL"
  <1> DEFINE n == Len(RXS)
             Done(t, i) ==
                /\ Reset1(s, t)
                /\ \A j \in 1 .. i : t.rx[RXS[j]].mute = "ALL" /\ t.rx[RXS[j]].want = "ALL"
  <1>1. PICK f : /\ ResetAll(s) = f[n] /\ f[0] = s
                 /\ \A i \in 1 .. n : f[i] = SatReset(f[i - 1], RXS[i])
    BY ResetAllLoop
  <1>2. n \in Nat /\ \A i \in 1 .. n : RXS[i] \in Rxs
    BY FewReceivers, Places
  <1> HIDE DEF n
  <1>3. Done(f[0], 0)
    <2>1. Reset1(s, s) /\ \A j \in 1 .. 0 : FALSE
      BY DEF Reset1, Resets, SameControl
    <2> QED BY <1>1, <2>1
  <1>4. ASSUME NEW k \in 0 .. n - 1, Done(f[k], k) PROVE Done(f[k + 1], k + 1)
    <2> DEFINE z == RXS[k + 1]
               t == f[k]
               u == f[k + 1]
    <2>1. k + 1 \in 1 .. n /\ (k + 1) - 1 = k /\ t \in Voters /\ z \in Rxs
      BY <1>2, <1>4 DEF Reset1
    <2>2. u = SatReset(t, z)
      BY <1>1, <2>1
    <2>3. /\ Reset1(s, t)
          /\ \A j \in 1 .. k : t.rx[RXS[j]].mute = "ALL" /\ t.rx[RXS[j]].want = "ALL"
      BY <1>4
    <2> HIDE DEF u, z, t
    <2>4. /\ Reset1(t, u) /\ u.rx[z].mute = "ALL" /\ u.rx[z].want = "ALL"
          /\ \A x \in Rxs \ {z} : u.rx[x] = t.rx[x]
      BY <2>1, <2>2, SatResetFact
    <2>5. Reset1(s, u)
      <3>1. ASSUME NEW x \in Rxs
            PROVE  /\ Resets(s.rx[x], u.rx[x])
                   /\ s.rx[x].enabled /\ s.rx[x].open /\ ~u.rx[x].open => x \in Lost(u.queue)
        BY <2>3, <2>4 DEF Reset1, Resets
      <3> QED BY <2>3, <2>4, <3>1 DEF Reset1, SameControl
    <2>6. \A j \in 1 .. k + 1 : u.rx[RXS[j]].mute = "ALL" /\ u.rx[RXS[j]].want = "ALL"
      <3> TAKE j \in 1 .. k + 1
      <3>1. j \in 1 .. n /\ RXS[j] \in Rxs /\ (j = k + 1 \/ j \in 1 .. k)
        BY <1>2
      <3>2. CASE RXS[j] = z
        BY <2>4, <3>2
      <3>3. CASE RXS[j] # z
        BY <2>3, <2>4, <3>1, <3>3 DEF z
      <3> QED BY <3>2, <3>3
    <2> QED BY <2>5, <2>6 DEF u
  <1> HIDE DEF Done
  <1>5. Done(f[n], n)
    <2> DEFINE T == {k \in 0 .. n : Done(f[k], k)}
    <2>1. 0 \in T /\ \A k \in 0 .. n - 1 : k \in T => k + 1 \in T
      BY <1>2, <1>3, <1>4
    <2> HIDE DEF T
    <2>2. n \in T
      BY <1>2, <2>1, InductUpTo
    <2> QED BY <2>2 DEF T
  <1>6. \A x \in Rxs : f[n].rx[x].mute = "ALL" /\ f[n].rx[x].want = "ALL"
    BY <1>5, Places DEF Done, n
  <1> QED BY <1>1, <1>5, <1>6 DEF Done

\* The receivers that may be voted: they take part and their squelches are open.
Heard(s, x) == s.rx[x].open /\ s.rx[x].enabled

(* FindBestRx finds a receiver that may be voted if there is one. *)
LEMMA FindBestFact ==
    ASSUME NEW s \in Voters
    PROVE  LET y == FindBestRx(s) IN
           /\ y \in Rxs \cup {None}
           /\ y = None => \A x \in Rxs : ~Heard(s, x)
           /\ y # None => Heard(s, y)
  <1> DEFINE n == Len(RXS)
             R == Rxs \cup {None}
             Op(v, i) == IF s.rx[RXS[i]].enabled /\ s.rx[RXS[i]].open
                         THEN Better(s, v, RXS[i]) ELSE v
             F == [i \in 1 .. n |-> [v \in R |-> Op(v, i)]]
             g == CHOOSE best : best = [i \in 0 .. n |-> IF i = 0 THEN None ELSE Op(best[i - 1], i)]
             Best(i) == /\ g[i] \in R
                        /\ g[i] = None => \A j \in 1 .. i : ~Heard(s, RXS[j])
                        /\ g[i] # None => Heard(s, g[i])
  <1>1. /\ n \in Nat
        /\ \A i \in 1 .. n : RXS[i] \in Rxs /\ RXS[i] # None
        /\ \A x \in Rxs : \E i \in 1 .. n : RXS[i] = x
    <2>1. None \notin Rxs
      BY VoterAssumption
    <2> QED BY <2>1, FewReceivers, Places
  <1>2. \A i \in 1 .. n : \A v \in R : Op(v, i) \in R
    <2> HIDE DEF n
    <2> QED BY <1>1 DEF Better
  <1>3. \E f : f = [i \in 0 .. n |-> IF i = 0 THEN None ELSE Op(f[i - 1], i)]
    <2> HIDE DEF Op, n
    <2>1. \A i \in 1 .. n : \A v \in R : F[i][v] = Op(v, i)
      OBVIOUS
    <2> HIDE DEF F
    <2>2. LoopIn(R, n, F) /\ None \in R
      BY <1>2, <2>1 DEF LoopIn
    <2> HIDE DEF R
    <2>3. PICK f : Runs(f, None, R, n, F)
      BY <1>1, <2>2, Loop
    <2>4. f \in [0 .. n -> R] /\ f[0] = None /\ \A i \in 1 .. n : f[i] = F[i][f[i - 1]]
      BY <2>3 DEF Runs
    <2>5. \A i \in 0 .. n : i # 0 => i \in 1 .. n /\ i - 1 \in 0 .. n
      BY <1>1
    <2>6. \A i \in 0 .. n : f[i] = IF i = 0 THEN None ELSE Op(f[i - 1], i)
      BY <2>1, <2>4, <2>5
    <2>7. f = [i \in 0 .. n |-> f[i]]
      BY <2>4
    <2> QED BY <2>6, <2>7
  <1>4. FindBestRx(s) = g[n]
    BY DEF FindBestRx
  <1>5. g = [i \in 0 .. n |-> IF i = 0 THEN None ELSE Op(g[i - 1], i)]
    <2> HIDE DEF Op, n
    <2> QED BY <1>3
  <1> HIDE DEF g, n
  <1>6. g[0] = None /\ \A i \in 1 .. n : g[i] = Op(g[i - 1], i)
    <2> HIDE DEF Op
    <2>1. 0 \in 0 .. n /\ \A i \in 1 .. n : i \in 0 .. n /\ i # 0
      BY <1>1
    <2> QED BY <1>5, <2>1
  <1>7. Best(0)
    BY <1>6
  <1>8. ASSUME NEW k \in 0 .. n - 1, Best(k) PROVE Best(k + 1)
    <2> DEFINE z == RXS[k + 1]
    <2>1. /\ k + 1 \in 1 .. n /\ (k + 1) - 1 = k /\ z \in Rxs /\ z # None
          /\ \A j \in 1 .. k + 1 : j = k + 1 \/ j \in 1 .. k
      BY <1>1
    <2>2. g[k + 1] = IF Heard(s, z) THEN Better(s, g[k], z) ELSE g[k]
      BY <1>6, <2>1 DEF Heard
    <2>3. g[k + 1] \in {g[k], z} /\ (g[k + 1] = z /\ g[k] # z => Heard(s, z))
          /\ (Heard(s, z) /\ g[k] = None => g[k + 1] = z)
      BY <2>2 DEF Better
    <2>4. CASE g[k + 1] = None
      <3>1. g[k] = None /\ ~Heard(s, z)
        BY <2>1, <2>3, <2>4
      <3> QED BY <1>8, <2>1, <2>4, <3>1
    <2>5. CASE g[k + 1] # None
      <3>1. g[k + 1] = g[k] \/ (g[k + 1] = z /\ Heard(s, z))
        BY <2>3
      <3> QED BY <1>8, <2>1, <2>5, <3>1
    <2> QED BY <2>4, <2>5
  <1> HIDE DEF Best
  <1>9. Best(n)
    <2> DEFINE T == {k \in 0 .. n : Best(k)}
    <2>1. 0 \in T /\ \A k \in 0 .. n - 1 : k \in T => k + 1 \in T
      BY <1>1, <1>7, <1>8
    <2> HIDE DEF T
    <2>2. n \in Nat
      BY <1>1
    <2>3. n \in T
      BY <2>1, <2>2, InductUpTo
    <2> QED BY <2>3 DEF T
  <1> QED BY <1>1, <1>4, <1>9 DEF Best

----------------------------------------------------------------------------
(***************************************************************************)
(* The squelch that the voter will have reported when the tasks that wait  *)
(* have run.                                                               *)
(***************************************************************************)
NoReport(q, i) == \A j \in i .. Len(q) : q[j] \notin Reports

SaysOpen(s) ==
    /\ NoReport(s.tasks, 1) => s.sql
    /\ \A i \in 1 .. Len(s.tasks) :
        s.tasks[i] \in Reports /\ NoReport(s.tasks, i + 1) => s.tasks[i].sql

SaysClosed(s) ==
    /\ NoReport(s.tasks, 1) => ~s.sql
    /\ \A i \in 1 .. Len(s.tasks) :
        s.tasks[i] \in Reports /\ NoReport(s.tasks, i + 1) => ~s.tasks[i].sql

\* The report fits the state of the machine.
Reported(s) == IF s.m.state \in SquelchOpenStates THEN SaysOpen(s) ELSE SaysClosed(s)

(* The machine of a state is replaced. *)
LEMMA MachineSet ==
    ASSUME NEW s \in Voters, NEW n \in Machines
    PROVE  LET t == [s EXCEPT !.m = n] IN
           /\ t \in Voters /\ t.m = n /\ t.rx = s.rx /\ t.tasks = s.tasks /\ t.sql = s.sql
           /\ t.failed = s.failed /\ t.queue = s.queue
  BY DEF Voters

(* The machine of a state has the fields of a machine. *)
LEMMA MachineOf == ASSUME NEW s \in Voters PROVE s.m \in Machines
  BY DEF Voters

(* A task is deferred. *)
LEMMA TaskSet ==
    ASSUME NEW s \in Voters, NEW k \in Tasks
    PROVE  LET t == RunTask(s, k) IN
           /\ t \in Voters /\ t.m = s.m /\ t.rx = s.rx /\ t.tasks = Append(s.tasks, k)
           /\ t.sql = s.sql /\ t.failed = s.failed /\ t.queue = s.queue
  <1>1. Append(s.tasks, k) \in Seq(Tasks)
    BY AppendProperties DEF Voters
  <1> QED BY <1>1 DEF Voters, RunTask

(* An assertion fails. *)
LEMMA FailsSet ==
    ASSUME NEW s \in Voters, NEW a \in Assertions
    PROVE  LET t == Fails(s, a) IN
           /\ t \in Voters /\ t.m = s.m /\ t.rx = s.rx /\ t.tasks = s.tasks /\ t.sql = s.sql
           /\ t.failed # None /\ t.queue = s.queue
  <1>1. a # None
    BY VoterAssumption
  <1> QED BY <1>1 DEF Voters, Fails

(* Only a report is a report. *)
LEMMA ReportTasks ==
    /\ \A b \in BOOLEAN : [sql |-> b] \in Reports /\ [sql |-> b] \in Tasks
    /\ \A x \in Rxs : \A b \in BOOLEAN :
        [stopped |-> x, by |-> b] \notin Reports /\ [stopped |-> x, by |-> b] \in Tasks
  <1>1. \A x, b : [stopped |-> x, by |-> b] \notin Reports
    <2> TAKE x, b
    <2>1. DOMAIN [stopped |-> x, by |-> b] = {"stopped", "by"}
      OBVIOUS
    <2>2. \A r \in Reports : DOMAIN r = {"sql"}
      BY DEF Reports
    <2> QED BY <2>1, <2>2
  <1> QED BY <1>1 DEF Tasks, Reports

(* A report replaces those before it. *)
LEMMA ReportAppended ==
    ASSUME NEW s \in Voters, NEW t \in Voters, NEW k \in Reports, t.tasks = Append(s.tasks, k)
    PROVE  (k.sql => SaysOpen(t)) /\ (~k.sql => SaysClosed(t))
  <1> DEFINE q == s.tasks
             p == t.tasks
  <1>1. Len(q) \in Nat /\ Len(p) = Len(q) + 1 /\ p[Len(q) + 1] = k
    BY AppendProperties, LenProperties DEF Voters
  <1>2. ~NoReport(p, 1) /\ \A i \in 1 .. Len(q) : ~NoReport(p, i + 1)
    BY <1>1 DEF NoReport
  <1>3. \A i \in 1 .. Len(p) : i = Len(q) + 1 \/ i \in 1 .. Len(q)
    BY <1>1
  <1> QED BY <1>1, <1>2, <1>3 DEF SaysOpen, SaysClosed

(* Another task does not change it. *)
LEMMA OtherAppended ==
    ASSUME NEW s \in Voters, NEW t \in Voters, NEW k, k \notin Reports,
           t.tasks = Append(s.tasks, k), t.sql = s.sql
    PROVE  (SaysOpen(s) => SaysOpen(t)) /\ (SaysClosed(s) => SaysClosed(t))
  <1> DEFINE q == s.tasks
             p == t.tasks
  <1>1. /\ Len(q) \in Nat /\ Len(p) = Len(q) + 1 /\ p[Len(q) + 1] = k
        /\ \A i \in 1 .. Len(q) : p[i] = q[i]
    <2>1. q \in Seq(Tasks)
      BY DEF Voters
    <2>2. q \in Seq(Tasks \cup {k}) /\ k \in Tasks \cup {k}
      BY <2>1, SeqMonotonic
    <2> QED BY <2>2, AppendProperties, LenProperties
  <1>2. \A i \in 1 .. Len(p) : i = Len(q) + 1 \/ i \in 1 .. Len(q)
    BY <1>1
  <1>3. \A i \in 1 .. Len(q) + 1 : NoReport(q, i) => NoReport(p, i)
    <2> SUFFICES ASSUME NEW i \in 1 .. Len(q) + 1, NoReport(q, i), NEW j \in i .. Len(p)
                 PROVE  p[j] \notin Reports
      BY DEF NoReport
    <2>1. j \in 1 .. Len(p) /\ (j \in 1 .. Len(q) => j \in i .. Len(q))
      BY <1>1
    <2> QED BY <1>1, <1>2, <2>1 DEF NoReport
  <1>4. \A i \in 1 .. Len(q) + 1 : NoReport(p, i) => NoReport(q, i)
    <2> SUFFICES ASSUME NEW i \in 1 .. Len(q) + 1, NoReport(p, i), NEW j \in i .. Len(q)
                 PROVE  q[j] \notin Reports
      BY DEF NoReport
    <2>1. j \in 1 .. Len(q) /\ j \in i .. Len(p)
      BY <1>1
    <2> QED BY <1>1, <2>1 DEF NoReport
  <1>5. 1 \in 1 .. Len(q) + 1 /\ \A i \in 1 .. Len(q) : i + 1 \in 1 .. Len(q) + 1
    BY <1>1
  <1> QED BY <1>1, <1>2, <1>3, <1>4, <1>5 DEF SaysOpen, SaysClosed

(* Nothing is reported while there are no tasks and the report stays. *)
LEMMA SaysSame ==
    ASSUME NEW s, NEW t, t.tasks = s.tasks, t.sql = s.sql
    PROVE  (SaysOpen(s) => SaysOpen(t)) /\ (SaysClosed(s) => SaysClosed(t))
  BY DEF SaysOpen, SaysClosed

(* The first task runs: what it reports is the report. *)
LEMMA TaskRuns ==
    ASSUME NEW s \in Voters, NEW t \in Voters, s.tasks # <<>>, t.tasks = Tail(s.tasks),
           t.sql = IF Head(s.tasks) \in Reports THEN Head(s.tasks).sql ELSE s.sql
    PROVE  (SaysOpen(s) => SaysOpen(t)) /\ (SaysClosed(s) => SaysClosed(t))
  <1> DEFINE q == s.tasks
             p == t.tasks
  <1>1. /\ Len(p) = Len(q) - 1 /\ Len(q) \in Nat \ {0} /\ Head(q) = q[1]
        /\ \A i \in 1 .. Len(p) : p[i] = q[i + 1]
    BY HeadTailProperties, EmptySeq DEF Voters
  <1>2. \A i \in 1 .. Len(p) + 1 : NoReport(p, i) => NoReport(q, i + 1)
    <2> SUFFICES ASSUME NEW i \in 1 .. Len(p) + 1, NoReport(p, i), NEW j \in i + 1 .. Len(q)
                 PROVE  q[j] \notin Reports
      BY DEF NoReport
    <2>1. j - 1 \in i .. Len(p) /\ j - 1 \in 1 .. Len(p) /\ (j - 1) + 1 = j
      BY <1>1
    <2> QED BY <1>1, <2>1 DEF NoReport
  <1>3. NoReport(q, 2) /\ q[1] \notin Reports => NoReport(q, 1)
    BY <1>1 DEF NoReport
  <1>4. \A i \in 1 .. Len(p) : i + 1 \in 1 .. Len(p) + 1 /\ i + 1 \in 1 .. Len(q)
    BY <1>1
  <1>5. 1 \in 1 .. Len(p) + 1 /\ 1 \in 1 .. Len(q) /\ 1 + 1 = 2
    BY <1>1
  <1>6. ASSUME NEW i \in 1 .. Len(p), p[i] \in Reports, NoReport(p, i + 1)
        PROVE  /\ q[i + 1] \in Reports /\ q[i + 1] = p[i] /\ NoReport(q, (i + 1) + 1)
               /\ i + 1 \in 1 .. Len(q)
    BY <1>1, <1>2, <1>4, <1>6
  <1>7. NoReport(p, 1) => NoReport(q, 2)
    BY <1>2, <1>5
  <1>8. ASSUME SaysOpen(s) PROVE SaysOpen(t)
    <2>1. ASSUME NoReport(p, 1) PROVE t.sql
      BY <1>1, <1>3, <1>5, <1>7, <1>8, <2>1 DEF SaysOpen
    <2> QED BY <1>6, <1>8, <2>1 DEF SaysOpen
  <1>9. ASSUME SaysClosed(s) PROVE SaysClosed(t)
    <2>1. ASSUME NoReport(p, 1) PROVE ~t.sql
      BY <1>1, <1>3, <1>5, <1>7, <1>9, <2>1 DEF SaysClosed
    <2> QED BY <1>6, <1>9, <2>1 DEF SaysClosed
  <1> QED BY <1>8, <1>9

----------------------------------------------------------------------------
(***************************************************************************)
(* The invariant, for a state in which events may wait.  A receiver in X   *)
(* is being enabled or disabled, one in Y is open but not announced yet.   *)
(***************************************************************************)
\* The receiver may be voted, or that its squelch closed is still to be handled.
Fit(s, x) == Heard(s, x) \/ x \in Lost(s.queue)

BestOK(s, Y) ==
    IF s.m.best = None THEN \A x \in Rxs \ Y : Heard(s, x) => x \in Gained(s.queue)
    ELSE Fit(s, s.m.best)

QueueOK(s) == OnlyFirst(s.queue) /\ \A x \in Gained(s.queue) : Fit(s, x)

ReceiversOK(s, X) ==
    \A x \in Rxs :
        /\ Silent(s.rx[x])
        /\ x \notin X /\ s.rx[x].enabled => s.rx[x].mute = s.rx[x].want

Base(s, X, Y) == s \in Voters /\ BestOK(s, Y) /\ QueueOK(s) /\ ReceiversOK(s, X)

Timed == SelectedStates \cup {"VotingDelay"}

MachineOK(s) ==
    /\ s.m.state \in SelectedStates <=> s.m.active # None
    /\ s.m.state = "SwitchActiveRx" <=> s.m.switchTo # None
    /\ s.m.switchTo # None => s.m.switchTo # s.m.active
    /\ s.m.timer => s.m.state \in Timed

ActiveOK(s) == s.m.state \in SquelchOpenStates => Fit(s, s.m.active)

WantsOK(s, X) ==
    /\ s.m.state = "Muted" => \A x \in Rxs : s.rx[x].want = "ALL"
    /\ s.m.state \in {"Idle", "VotingDelay"} /\ s.m.mute = "NONE" =>
            \A x \in Rxs : s.rx[x].want = "NONE"
    /\ s.m.state \in SelectedStates /\ s.m.mute = "NONE" => s.rx[s.m.active].want = "NONE"
    /\ s.m.state = "SwitchActiveRx"
            /\ (~s.rx[s.m.switchTo].enabled \/ s.m.switchTo \in X) =>
            s.rx[s.m.switchTo].mute = "ALL"

Sound(s, X, Y) ==
    Base(s, X, Y) /\ MachineOK(s) /\ Reported(s) /\ ActiveOK(s) /\ WantsOK(s, X)

(* A squelch that closes calmly leaves receivers fit. *)
LEMMA CalmFit ==
    ASSUME NEW s \in Voters, NEW t, Calm(s, t), NEW x \in Rxs, Fit(s, x)
    PROVE  Fit(t, x)
  BY DEF Calm, Calms, Fit, Heard

(* The state of the receivers is kept by calm steps, with the same best receiver. *)
LEMMA CalmBase ==
    ASSUME NEW s, NEW t, NEW X, NEW Y, Base(s, X, Y), Calm(s, t), t.m.best = s.m.best
    PROVE  Base(t, X, Y)
  <1>1. s \in Voters /\ t \in Voters /\ s.m.best \in Rxs \cup {None}
    BY MachineOf DEF Base, Calm, Machines
  <1>2. \A x \in Rxs : Fit(s, x) => Fit(t, x)
    BY <1>1, CalmFit
  <1>3. BestOK(t, Y)
    BY <1>1, <1>2 DEF Base, BestOK, Calm, Calms, Heard
  <1>4. QueueOK(t)
    BY <1>2 DEF Base, QueueOK, Calm, Gained
  <1>5. ReceiversOK(t, X)
    BY DEF Base, ReceiversOK, Calm, Calms
  <1> QED BY <1>1, <1>3, <1>4, <1>5 DEF Base

\* From s to t nothing but the machine changes.
OnlyMachine(s, t) ==
    /\ s \in Voters /\ t \in Voters
    /\ t.rx = s.rx /\ t.tasks = s.tasks /\ t.sql = s.sql /\ t.failed = s.failed
    /\ t.queue = s.queue

\* The fields of the machine but for those in D.
MachineBut(s, t, D) ==
    /\ "state" \notin D => t.m.state = s.m.state
    /\ "best" \notin D => t.m.best = s.m.best
    /\ "active" \notin D => t.m.active = s.m.active
    /\ "switchTo" \notin D => t.m.switchTo = s.m.switchTo
    /\ "mute" \notin D => t.m.mute = s.m.mute
    /\ "timer" \notin D => t.m.timer = s.m.timer

(* The field timer of the machine is set. *)
LEMMA TimerSet ==
    ASSUME NEW s \in Voters, NEW b \in BOOLEAN
    PROVE  LET t == [s EXCEPT !.m.timer = b] IN
           OnlyMachine(s, t) /\ MachineBut(s, t, {"timer"}) /\ t.m.timer = b
  <1> DEFINE n == [s.m EXCEPT !.timer = b]
             t == [s EXCEPT !.m = n]
  <1>1. /\ n \in Machines /\ n.timer = b
        /\ MachineBut(s, [m |-> n], {"timer"})
    BY MachineOf DEF Machines, MachineBut
  <1> HIDE DEF n
  <1>2. OnlyMachine(s, t) /\ t.m = n
    BY <1>1, MachineSet DEF OnlyMachine
  <1>3. MachineBut(s, t, {"timer"})
    BY <1>1, <1>2 DEF MachineBut
  <1> QED BY <1>1, <1>2, <1>3 DEF n

(* The field state of the machine is set. *)
LEMMA StateSet ==
    ASSUME NEW s \in Voters, NEW b \in States
    PROVE  LET t == [s EXCEPT !.m.state = b] IN
           OnlyMachine(s, t) /\ MachineBut(s, t, {"state"}) /\ t.m.state = b
  <1> DEFINE n == [s.m EXCEPT !.state = b]
             t == [s EXCEPT !.m = n]
  <1>1. /\ n \in Machines /\ n.state = b
        /\ MachineBut(s, [m |-> n], {"state"})
    BY MachineOf DEF Machines, MachineBut
  <1> HIDE DEF n
  <1>2. OnlyMachine(s, t) /\ t.m = n
    BY <1>1, MachineSet DEF OnlyMachine
  <1>3. MachineBut(s, t, {"state"})
    BY <1>1, <1>2 DEF MachineBut
  <1> QED BY <1>1, <1>2, <1>3 DEF n

(* The field best of the machine is set. *)
LEMMA BestSet ==
    ASSUME NEW s \in Voters, NEW b \in Rxs \cup {None}
    PROVE  LET t == [s EXCEPT !.m.best = b] IN
           OnlyMachine(s, t) /\ MachineBut(s, t, {"best"}) /\ t.m.best = b
  <1> DEFINE n == [s.m EXCEPT !.best = b]
             t == [s EXCEPT !.m = n]
  <1>1. /\ n \in Machines /\ n.best = b
        /\ MachineBut(s, [m |-> n], {"best"})
    BY MachineOf DEF Machines, MachineBut
  <1> HIDE DEF n
  <1>2. OnlyMachine(s, t) /\ t.m = n
    BY <1>1, MachineSet DEF OnlyMachine
  <1>3. MachineBut(s, t, {"best"})
    BY <1>1, <1>2 DEF MachineBut
  <1> QED BY <1>1, <1>2, <1>3 DEF n

(* The field active of the machine is set. *)
LEMMA ActiveSet ==
    ASSUME NEW s \in Voters, NEW b \in Rxs \cup {None}
    PROVE  LET t == [s EXCEPT !.m.active = b] IN
           OnlyMachine(s, t) /\ MachineBut(s, t, {"active"}) /\ t.m.active = b
  <1> DEFINE n == [s.m EXCEPT !.active = b]
             t == [s EXCEPT !.m = n]
  <1>1. /\ n \in Machines /\ n.active = b
        /\ MachineBut(s, [m |-> n], {"active"})
    BY MachineOf DEF Machines, MachineBut
  <1> HIDE DEF n
  <1>2. OnlyMachine(s, t) /\ t.m = n
    BY <1>1, MachineSet DEF OnlyMachine
  <1>3. MachineBut(s, t, {"active"})
    BY <1>1, <1>2 DEF MachineBut
  <1> QED BY <1>1, <1>2, <1>3 DEF n

(* The field switchTo of the machine is set. *)
LEMMA SwitchToSet ==
    ASSUME NEW s \in Voters, NEW b \in Rxs \cup {None}
    PROVE  LET t == [s EXCEPT !.m.switchTo = b] IN
           OnlyMachine(s, t) /\ MachineBut(s, t, {"switchTo"}) /\ t.m.switchTo = b
  <1> DEFINE n == [s.m EXCEPT !.switchTo = b]
             t == [s EXCEPT !.m = n]
  <1>1. /\ n \in Machines /\ n.switchTo = b
        /\ MachineBut(s, [m |-> n], {"switchTo"})
    BY MachineOf DEF Machines, MachineBut
  <1> HIDE DEF n
  <1>2. OnlyMachine(s, t) /\ t.m = n
    BY <1>1, MachineSet DEF OnlyMachine
  <1>3. MachineBut(s, t, {"switchTo"})
    BY <1>1, <1>2 DEF MachineBut
  <1> QED BY <1>1, <1>2, <1>3 DEF n

(* The field mute of the machine is set. *)
LEMMA MuteSet ==
    ASSUME NEW s \in Voters, NEW b \in MuteStates
    PROVE  LET t == [s EXCEPT !.m.mute = b] IN
           OnlyMachine(s, t) /\ MachineBut(s, t, {"mute"}) /\ t.m.mute = b
  <1> DEFINE n == [s.m EXCEPT !.mute = b]
             t == [s EXCEPT !.m = n]
  <1>1. /\ n \in Machines /\ n.mute = b
        /\ MachineBut(s, [m |-> n], {"mute"})
    BY MachineOf DEF Machines, MachineBut
  <1> HIDE DEF n
  <1>2. OnlyMachine(s, t) /\ t.m = n
    BY <1>1, MachineSet DEF OnlyMachine
  <1>3. MachineBut(s, t, {"mute"})
    BY <1>1, <1>2 DEF MachineBut
  <1> QED BY <1>1, <1>2, <1>3 DEF n


----------------------------------------------------------------------------
(***************************************************************************)
(* Leaving and entering states.                                            *)
(***************************************************************************)
\* The state that is left for the state "to".
Left(s, to) == [Exit(s, to) EXCEPT !.m.state = to]

\* What leaving a state does.
Leaves(s, t, to) ==
    /\ Calm(s, t) /\ t.sql = s.sql /\ t.failed = s.failed
    /\ t.m.state = to /\ t.m.best = s.m.best /\ t.m.mute = s.m.mute /\ ~t.m.timer
    /\ t.m.switchTo = None
    /\ t.m.active = IF to \in SelectedStates THEN s.m.active ELSE None
    /\ \A x \in Rxs : x # s.m.switchTo => t.rx[x].want = s.rx[x].want
    /\ s.m.switchTo = None => t.rx = s.rx
    /\ to \in SquelchOpenStates /\ SaysOpen(s) => SaysOpen(t)
    /\ to \notin SquelchOpenStates /\ Reported(s) => SaysClosed(t)

\* The machine may be left: what is set fits the state.
Leavable(s, to) ==
    /\ s \in Voters /\ to \in States
    /\ s.m.switchTo # None => s.m.state = "SwitchActiveRx"
    /\ to \notin SelectedStates => (s.m.state \in SelectedStates <=> s.m.active # None)

(* To a state t of which only the machine differs, calm steps lead. *)
LEMMA OnlyMachineCalm ==
    ASSUME NEW s, NEW t, OnlyMachine(s, t)
    PROVE  Calm(s, t) /\ (SaysOpen(s) => SaysOpen(t)) /\ (SaysClosed(s) => SaysClosed(t))
  BY CalmSame, SaysSame DEF OnlyMachine

(* The receiver to switch to is muted again. *)
LEMMA ExitSwitchFact ==
    ASSUME NEW s \in Voters, s.m.switchTo # None => s.m.state = "SwitchActiveRx"
    PROVE  LET t == IF s.m.state = "SwitchActiveRx" THEN ExitSwitchActiveRx(s) ELSE s IN
           /\ Calm(s, t) /\ t.tasks = s.tasks /\ t.sql = s.sql /\ t.failed = s.failed
           /\ MachineBut(s, t, {"switchTo"}) /\ t.m.switchTo = None
           /\ \A x \in Rxs : x # s.m.switchTo => t.rx[x].want = s.rx[x].want
           /\ s.m.switchTo = None => t.rx = s.rx
  <1> DEFINE a == s.m.switchTo
             t == IF s.m.state = "SwitchActiveRx" THEN ExitSwitchActiveRx(s) ELSE s
  <1>1. CASE a = None
    <2>1. t = s
      BY <1>1 DEF ExitSwitchActiveRx
    <2> QED BY <1>1, <2>1, CalmSame DEF MachineBut
  <1>2. CASE a # None
    <2> DEFINE u == SatSetMuteState(s, a, "CONTENT")
               w == [u EXCEPT !.m.switchTo = None]
    <2>1. a \in Rxs /\ "CONTENT" \in MuteStates
      BY <1>2, MachineOf DEF Machines, MuteStates
    <2>2. /\ Calm(s, u) /\ SameControl(s, u)
          /\ \A x \in Rxs \ {a} : u.rx[x] = s.rx[x]
      BY <2>1, SatSetCalm
    <2>3. t = w
      BY <1>2 DEF ExitSwitchActiveRx
    <2> HIDE DEF u, t
    <2>4. OnlyMachine(u, w) /\ MachineBut(u, w, {"switchTo"}) /\ w.m.switchTo = None
      BY <2>2, SwitchToSet DEF Calm
    <2>5. Calm(s, w)
      BY <2>2, <2>4, OnlyMachineCalm, CalmTwice
    <2> HIDE DEF w
    <2> QED BY <1>2, <2>2, <2>3, <2>4, <2>5 DEF SameControl, OnlyMachine, MachineBut, t
  <1> QED BY <1>1, <1>2

(* Leaving a state. *)
LEMMA LeftFact ==
    ASSUME NEW s, NEW to, Leavable(s, to)
    PROVE  Leaves(s, Left(s, to), to)
  <1> DEFINE leaf == IF s.m.state = "SwitchActiveRx" THEN ExitSwitchActiveRx(s) ELSE s
             timer == StopTimer(leaf)
             closes == s.m.state \in SquelchOpenStates /\ to \notin SquelchOpenStates
             closed == IF closes THEN RunTask(timer, [sql |-> FALSE]) ELSE timer
             leaves == s.m.state \in SelectedStates /\ to \notin SelectedStates
             stopped == RunTask(closed, [stopped |-> s.m.active, by |-> TRUE])
             exit == IF leaves THEN [stopped EXCEPT !.m.active = None] ELSE closed
             t == [exit EXCEPT !.m.state = to]
  <1>0. /\ s \in Voters /\ to \in States /\ s.m.active \in Rxs \cup {None}
        /\ leaves => s.m.active \in Rxs
        /\ s.m.state \in States
    BY MachineOf DEF Leavable, Machines
  <1>1. /\ Calm(s, leaf) /\ leaf.tasks = s.tasks /\ leaf.sql = s.sql
        /\ leaf.failed = s.failed
        /\ MachineBut(s, leaf, {"switchTo"}) /\ leaf.m.switchTo = None
        /\ \A x \in Rxs : x # s.m.switchTo => leaf.rx[x].want = s.rx[x].want
        /\ s.m.switchTo = None => leaf.rx = s.rx
    BY ExitSwitchFact DEF Leavable
  <1> HIDE DEF leaf
  <1>2. OnlyMachine(leaf, timer) /\ MachineBut(leaf, timer, {"timer"}) /\ ~timer.m.timer
    BY <1>1, TimerSet DEF Calm, StopTimer
  <1>3. /\ Calm(s, timer) /\ timer.sql = s.sql /\ timer.failed = s.failed
        /\ MachineBut(s, timer, {"switchTo", "timer"}) /\ timer.m.switchTo = None
        /\ ~timer.m.timer /\ timer.tasks = s.tasks
        /\ \A x \in Rxs : x # s.m.switchTo => timer.rx[x].want = s.rx[x].want
        /\ s.m.switchTo = None => timer.rx = s.rx
    <2>1. Calm(s, timer)
      BY <1>0, <1>1, <1>2, OnlyMachineCalm, CalmTwice
    <2> HIDE DEF timer
    <2> QED BY <1>1, <1>2, <2>1 DEF OnlyMachine, MachineBut
  <1> HIDE DEF timer
  <1>4. /\ Calm(s, closed) /\ closed.sql = s.sql /\ closed.failed = s.failed
        /\ closed.m = timer.m /\ closed.rx = timer.rx
        /\ closes => SaysClosed(closed)
        /\ ~closes => closed.tasks = s.tasks
    <2>1. CASE closes
      <3>1. [sql |-> FALSE] \in Reports /\ [sql |-> FALSE] \in Tasks /\ ~[sql |-> FALSE].sql
        BY DEF Reports, Tasks
      <3>2. timer \in Voters
        BY <1>3 DEF Calm
      <3>3. closed = RunTask(timer, [sql |-> FALSE])
        BY <2>1
      <3> HIDE DEF closed, closes
      <3>4. /\ closed \in Voters /\ closed.m = timer.m /\ closed.rx = timer.rx
            /\ closed.tasks = Append(timer.tasks, [sql |-> FALSE])
            /\ closed.sql = timer.sql /\ closed.failed = timer.failed
            /\ closed.queue = timer.queue
        BY <3>1, <3>2, <3>3, TaskSet
      <3>5. SaysClosed(closed)
        BY <3>1, <3>2, <3>4, ReportAppended
      <3>6. Calm(s, closed)
        BY <1>0, <1>3, <3>2, <3>4, CalmSame, CalmTwice
      <3> QED BY <1>3, <2>1, <3>4, <3>5, <3>6
    <2>2. CASE ~closes
      BY <1>3, <2>2
    <2> QED BY <2>1, <2>2
  <1>5. closed \in Voters
    BY <1>4 DEF Calm
  <1> HIDE DEF closed
  <1>6. /\ Calm(s, exit) /\ exit.sql = s.sql /\ exit.failed = s.failed
        /\ exit.rx = closed.rx /\ MachineBut(closed, exit, {"active"})
        /\ exit.m.active = IF leaves THEN None ELSE closed.m.active
        /\ SaysClosed(closed) => SaysClosed(exit)
        /\ ~leaves => exit.tasks = closed.tasks
    <2>1. CASE leaves
      <3> DEFINE k == [stopped |-> s.m.active, by |-> TRUE]
                 x == [stopped EXCEPT !.m.active = None]
      <3>1. k \in Tasks /\ k \notin Reports
        BY <1>0, <2>1, ReportTasks
      <3>2. exit = x
        BY <2>1
      <3> HIDE DEF leaves, exit
      <3>3. stopped = RunTask(closed, k)
        OBVIOUS
      <3> HIDE DEF k, stopped
      <3>4. /\ stopped \in Voters /\ stopped.m = closed.m /\ stopped.rx = closed.rx
            /\ stopped.tasks = Append(closed.tasks, k)
            /\ stopped.sql = closed.sql /\ stopped.failed = closed.failed
            /\ stopped.queue = closed.queue
        BY <1>5, <3>1, <3>3, TaskSet
      <3>5. SaysClosed(closed) => SaysClosed(stopped)
        BY <1>5, <3>1, <3>4, OtherAppended
      <3>6. /\ OnlyMachine(stopped, x) /\ MachineBut(stopped, x, {"active"})
            /\ x.m.active = None
        BY <3>4, ActiveSet
      <3> HIDE DEF x
      <3>7. Calm(s, x)
        BY <1>0, <1>4, <1>5, <3>4, <3>6, CalmSame, CalmTwice, OnlyMachineCalm
      <3> QED BY <1>4, <2>1, <3>2, <3>4, <3>5, <3>6, <3>7, OnlyMachineCalm
              DEF OnlyMachine, MachineBut
    <2>2. CASE ~leaves
      BY <1>4, <2>2 DEF MachineBut
    <2> QED BY <2>1, <2>2
  <1>7. exit \in Voters /\ t = [exit EXCEPT !.m.state = to] /\ t = Left(s, to)
    BY <1>6 DEF Calm, Left, Exit, leaf, timer, closed
  <1> HIDE DEF exit, t
  <1>8. OnlyMachine(exit, t) /\ MachineBut(exit, t, {"state"}) /\ t.m.state = to
    BY <1>0, <1>7, StateSet
  <1>9. Calm(s, t)
    BY <1>0, <1>6, <1>7, <1>8, OnlyMachineCalm, CalmTwice
  <1>10. /\ t.m.best = s.m.best /\ t.m.mute = s.m.mute /\ ~t.m.timer /\ t.m.switchTo = None
         /\ t.sql = s.sql /\ t.failed = s.failed
         /\ \A x \in Rxs : x # s.m.switchTo => t.rx[x].want = s.rx[x].want
         /\ s.m.switchTo = None => t.rx = s.rx
    BY <1>3, <1>4, <1>6, <1>8 DEF OnlyMachine, MachineBut
  <1>11. t.m.active = IF to \in SelectedStates THEN s.m.active ELSE None
    <2>1. t.m.active = IF leaves THEN None ELSE s.m.active
      BY <1>3, <1>4, <1>6, <1>8 DEF MachineBut
    <2> QED BY <2>1 DEF Leavable
  <1>12. ASSUME to \in SquelchOpenStates, SaysOpen(s) PROVE SaysOpen(t)
    <2>1. ~closes /\ ~leaves
      BY <1>12 DEF SelectedStates
    <2>2. t.tasks = s.tasks /\ t.sql = s.sql
      BY <1>4, <1>6, <1>8, <1>10, <2>1 DEF OnlyMachine
    <2> QED BY <1>12, <2>2, SaysSame
  <1>13. ASSUME to \notin SquelchOpenStates, Reported(s) PROVE SaysClosed(t)
    <2>1. CASE closes
      BY <1>4, <1>6, <1>8, <2>1, OnlyMachineCalm
    <2>2. CASE ~closes
      <3>1. SaysClosed(s)
        BY <1>13, <2>2 DEF Reported
      <3>2. SaysClosed(closed)
        BY <1>4, <2>2, <3>1, SaysSame
      <3> QED BY <1>6, <1>8, <3>2, OnlyMachineCalm
    <2> QED BY <2>1, <2>2
  <1> QED BY <1>7, <1>8, <1>9, <1>10, <1>11, <1>12, <1>13 DEF Leaves

\* What entering a state keeps.
Enters(s, t, X, Y) ==
    /\ Calm(s, t) /\ Sound(t, X, Y) /\ t.failed = s.failed
    /\ t.m.best = s.m.best /\ t.m.mute = s.m.mute

\* No audio is lost.
KeepsAudio(s, t) == \A x \in Rxs : t.rx[x].unflushed = s.rx[x].unflushed

(* Idle. *)
LEMMA EnterIdleFact ==
    ASSUME NEW s, NEW X, NEW Y, Base(s, X, Y), MachineOK(s), Reported(s)
    PROVE  LET t == EnterIdle(s) IN
           /\ Enters(s, t, X, Y) /\ t.m.active = None /\ t.m.state = "Idle"
           /\ s.m.switchTo = None => KeepsAudio(s, t)
  <1> DEFINE u == Left(s, "Idle")
             v == UnmuteAll(u)
             t == EnterIdle(s)
  <1>1. s \in Voters
    BY DEF Base
  <1>2. Leavable(s, "Idle")
    BY <1>1 DEF Leavable, MachineOK, States
  <1>3. /\ Calm(s, u) /\ u.sql = s.sql /\ u.failed = s.failed /\ u.m.state = "Idle"
        /\ u.m.best = s.m.best /\ u.m.mute = s.m.mute /\ ~u.m.timer
        /\ u.m.switchTo = None /\ u.m.active = None /\ SaysClosed(u)
        /\ s.m.switchTo = None => u.rx = s.rx
    BY <1>2, LeftFact DEF Leaves, SelectedStates, SquelchOpenStates
  <1>4. t = IF u.m.mute = "NONE" THEN v ELSE u
    BY DEF EnterIdle, Left
  <1>5. u \in Voters
    BY <1>3 DEF Calm
  <1> HIDE DEF u
  <1>6. /\ Calm(u, v) /\ SameControl(u, v)
        /\ \A x \in Rxs : v.rx[x].want = "NONE"
        /\ KeepsAudio(u, v)
    BY <1>5, MuteAllCalm DEF UnmuteAll, MuteStates, KeepsAudio
  <1>7. Calm(s, v)
    BY <1>1, <1>3, <1>6, CalmTwice
  <1> HIDE DEF v, t
  <1>8. /\ Calm(s, t) /\ t.m = u.m /\ t.failed = s.failed
        /\ u.m.mute = "NONE" => \A x \in Rxs : t.rx[x].want = "NONE"
        /\ s.m.switchTo = None => KeepsAudio(s, t)
    BY <1>3, <1>4, <1>6, <1>7 DEF SameControl, KeepsAudio
  <1>9. SaysClosed(t)
    BY <1>3, <1>4, <1>6, SaysSame DEF SameControl
  <1>10. Base(t, X, Y)
    BY <1>3, <1>8, CalmBase
  <1>11. MachineOK(t) /\ Reported(t) /\ ActiveOK(t)
    BY <1>3, <1>8, <1>9
       DEF MachineOK, Reported, ActiveOK, SelectedStates, SquelchOpenStates, Timed
  <1>12. WantsOK(t, X)
    BY <1>3, <1>8 DEF WantsOK, SelectedStates, SquelchOpenStates
  <1> QED BY <1>3, <1>8, <1>10, <1>11, <1>12 DEF Enters, Sound, t

(* Muted. *)
LEMMA EnterMutedFact ==
    ASSUME NEW s, NEW X, NEW Y, Base(s, X, Y), MachineOK(s), Reported(s)
    PROVE  LET t == EnterMuted(s) IN
           Enters(s, t, X, Y) /\ t.m.active = None /\ t.m.state = "Muted"
  <1> DEFINE u == Left(s, "Muted")
             t == MuteAll(u, "ALL")
  <1>1. s \in Voters
    BY DEF Base
  <1>2. Leavable(s, "Muted")
    BY <1>1 DEF Leavable, MachineOK, States
  <1>3. /\ Calm(s, u) /\ u.sql = s.sql /\ u.failed = s.failed /\ u.m.state = "Muted"
        /\ u.m.best = s.m.best /\ u.m.mute = s.m.mute /\ ~u.m.timer
        /\ u.m.switchTo = None /\ u.m.active = None /\ SaysClosed(u)
    BY <1>2, LeftFact DEF Leaves, SelectedStates, SquelchOpenStates
  <1>4. EnterMuted(s) = t
    BY DEF EnterMuted, Left
  <1>5. u \in Voters
    BY <1>3 DEF Calm
  <1> HIDE DEF u
  <1>6. /\ Calm(u, t) /\ SameControl(u, t)
        /\ \A x \in Rxs : t.rx[x].want = "ALL"
    BY <1>5, MuteAllCalm DEF MuteStates
  <1>7. Calm(s, t)
    BY <1>1, <1>3, <1>6, CalmTwice
  <1> HIDE DEF t
  <1>8. SaysClosed(t)
    BY <1>3, <1>6, SaysSame DEF SameControl
  <1>9. Base(t, X, Y)
    BY <1>3, <1>6, <1>7, CalmBase DEF SameControl
  <1>10. MachineOK(t) /\ Reported(t) /\ ActiveOK(t)
    BY <1>3, <1>6, <1>8
       DEF SameControl, MachineOK, Reported, ActiveOK, SelectedStates, SquelchOpenStates, Timed
  <1>11. WantsOK(t, X)
    BY <1>3, <1>6 DEF SameControl, WantsOK, SelectedStates, SquelchOpenStates
  <1> QED BY <1>3, <1>4, <1>6, <1>7, <1>9, <1>10, <1>11 DEF SameControl, Enters, Sound

(* VotingDelay, from Idle. *)
LEMMA EnterVotingDelayFact ==
    ASSUME NEW s, NEW X, NEW Y, Sound(s, X, Y), s.m.state = "Idle", NEW x \in Rxs
    PROVE  LET t == EnterVotingDelay(s, x) IN
           /\ Calm(s, t) /\ t.m.active = None /\ KeepsAudio(s, t)
           /\ t.m.mute = s.m.mute
           /\ t.failed # None \/ (Sound(t, X, Y) /\ t.m.state = "VotingDelay")
  <1> DEFINE u == Left(s, "VotingDelay")
             v == StartTimer(u)
             w == Fails(u, "timeout")
             t == EnterVotingDelay(s, x)
  <1>1. s \in Voters /\ Base(s, X, Y) /\ s.m.switchTo = None
    BY DEF Base, Sound, MachineOK
  <1>2. Leavable(s, "VotingDelay")
    BY <1>1 DEF Leavable, Sound, MachineOK, States
  <1>3. /\ Calm(s, u) /\ u.sql = s.sql /\ u.failed = s.failed /\ u.m.state = "VotingDelay"
        /\ u.m.best = s.m.best /\ u.m.mute = s.m.mute
        /\ u.m.switchTo = None /\ u.m.active = None /\ SaysClosed(u)
        /\ u.rx = s.rx
    BY <1>1, <1>2, LeftFact DEF Leaves, SelectedStates, SquelchOpenStates, Sound
  <1>4. t = v \/ t = w
    BY DEF EnterVotingDelay, Left
  <1>5. u \in Voters
    BY <1>3 DEF Calm
  <1> HIDE DEF u
  <1>6. OnlyMachine(u, v) /\ MachineBut(u, v, {"timer"})
    BY <1>5, TimerSet DEF StartTimer
  <1>7. /\ w \in Voters /\ w.m = u.m /\ w.rx = u.rx /\ w.failed # None /\ w.queue = u.queue
    BY <1>5, FailsSet DEF Assertions
  <1>8. Calm(s, w)
    BY <1>1, <1>3, <1>5, <1>7, CalmSame, CalmTwice
  <1>9. Calm(s, v) /\ SaysClosed(v)
    BY <1>1, <1>3, <1>6, OnlyMachineCalm, CalmTwice
  <1> HIDE DEF v, w, t
  <1>10. Base(v, X, Y)
    BY <1>1, <1>3, <1>6, <1>9, CalmBase DEF MachineBut
  <1>11. MachineOK(v) /\ Reported(v) /\ ActiveOK(v)
    BY <1>3, <1>6, <1>9
       DEF MachineBut, MachineOK, Reported, ActiveOK, SelectedStates, SquelchOpenStates, Timed
  <1>12. WantsOK(v, X)
    BY <1>3, <1>6
       DEF OnlyMachine, MachineBut, Sound, WantsOK, SelectedStates, SquelchOpenStates
  <1>13. KeepsAudio(s, v) /\ KeepsAudio(s, w)
    BY <1>3, <1>6, <1>7 DEF KeepsAudio, OnlyMachine
  <1>14. v.m.active = None /\ v.m.mute = s.m.mute /\ v.m.state = "VotingDelay"
    BY <1>3, <1>6 DEF MachineBut
  <1> QED BY <1>3, <1>4, <1>7, <1>8, <1>9, <1>10, <1>11, <1>12, <1>13, <1>14 DEF Sound, t

(* Receiving, with nothing to switch to or from SwitchActiveRx. *)
LEMMA EnterReceivingFact ==
    ASSUME NEW s, NEW X, NEW Y, Base(s, X, Y), SaysOpen(s), s.m.active \in Rxs,
           Fit(s, s.m.active),
           s.m.mute = "NONE" => s.rx[s.m.active].want = "NONE",
           s.m.active # s.m.switchTo,
           s.m.switchTo # None => s.m.state = "SwitchActiveRx"
    PROVE  LET t == EnterReceiving(s) IN
           /\ Enters(s, t, X, Y) /\ t.m.active = s.m.active /\ t.m.state = "Receiving"
           /\ s.m.switchTo = None => t.rx = s.rx
  <1> DEFINE u == Left(s, "Receiving")
             t == [u EXCEPT !.m.timer = REVOTE]
  <1>1. s \in Voters /\ s.m.active # None
    BY VoterAssumption DEF Base
  <1>2. Leavable(s, "Receiving")
    BY <1>1 DEF Leavable, States, SelectedStates, SquelchOpenStates
  <1>3. /\ Calm(s, u) /\ u.sql = s.sql /\ u.failed = s.failed /\ u.m.state = "Receiving"
        /\ u.m.best = s.m.best /\ u.m.mute = s.m.mute /\ u.m.switchTo = None
        /\ u.m.active = s.m.active /\ SaysOpen(u)
        /\ u.rx[s.m.active].want = s.rx[s.m.active].want
        /\ s.m.switchTo = None => u.rx = s.rx
    BY <1>2, LeftFact DEF Leaves, SelectedStates, SquelchOpenStates
  <1>4. EnterReceiving(s) = t
    BY DEF EnterReceiving, Left
  <1>5. u \in Voters /\ REVOTE \in BOOLEAN
    BY <1>3, VoterAssumption DEF Calm
  <1> HIDE DEF u
  <1>6. OnlyMachine(u, t) /\ MachineBut(u, t, {"timer"})
    BY <1>5, TimerSet
  <1>7. Calm(s, t) /\ SaysOpen(t)
    BY <1>1, <1>3, <1>6, OnlyMachineCalm, CalmTwice
  <1> HIDE DEF t
  <1>8. Base(t, X, Y)
    BY <1>3, <1>6, <1>7, CalmBase DEF MachineBut
  <1>9. Fit(t, t.m.active)
    BY <1>1, <1>3, <1>6, <1>7, CalmFit DEF MachineBut
  <1>10. MachineOK(t) /\ Reported(t) /\ ActiveOK(t)
    BY <1>1, <1>3, <1>6, <1>7, <1>9
       DEF MachineBut, MachineOK, Reported, ActiveOK, SelectedStates, SquelchOpenStates, Timed
  <1>11. WantsOK(t, X)
    BY <1>3, <1>6 DEF OnlyMachine, MachineBut, WantsOK, SelectedStates, SquelchOpenStates
  <1> QED BY <1>3, <1>4, <1>6, <1>7, <1>8, <1>10, <1>11
          DEF Enters, Sound, OnlyMachine, MachineBut

(* The squelch opens. *)
LEMMA EnterSquelchOpenFact ==
    ASSUME NEW s, NEW X, NEW Y, Base(s, X, Y), s.m.active \in Rxs, Fit(s, s.m.active),
           s.m.mute = "NONE" => s.rx[s.m.active].want = "NONE",
           s.m.switchTo = None
    PROVE  LET t == EnterSquelchOpen(s) IN
           /\ Enters(s, t, X, Y) /\ t.m.active = s.m.active /\ t.m.state = "Receiving"
           /\ t.rx = s.rx
  <1> DEFINE k == [stopped |-> s.m.active, by |-> FALSE]
             u == RunTask(s, [sql |-> TRUE])
             v == RunTask(u, k)
             t == EnterReceiving(v)
  <1>1. s \in Voters /\ s.m.active # None
    BY VoterAssumption DEF Base
  <1>2. /\ [sql |-> TRUE] \in Reports /\ [sql |-> TRUE] \in Tasks /\ [sql |-> TRUE].sql
    BY DEF Reports, Tasks
  <1>3. /\ u \in Voters /\ u.m = s.m /\ u.rx = s.rx /\ u.tasks = Append(s.tasks, [sql |-> TRUE])
        /\ u.sql = s.sql /\ u.failed = s.failed /\ u.queue = s.queue
    BY <1>1, <1>2, TaskSet
  <1>4. SaysOpen(u)
    BY <1>1, <1>2, <1>3, ReportAppended
  <1>5. k \in Tasks /\ k \notin Reports
    BY ReportTasks
  <1> HIDE DEF u, k
  <1>6. /\ v \in Voters /\ v.m = u.m /\ v.rx = u.rx /\ v.tasks = Append(u.tasks, k)
        /\ v.sql = u.sql /\ v.failed = u.failed /\ v.queue = u.queue
    BY <1>3, <1>5, TaskSet
  <1>7. SaysOpen(v)
    BY <1>3, <1>4, <1>5, <1>6, OtherAppended
  <1>8. EnterSquelchOpen(s) = t
    BY DEF EnterSquelchOpen, u, k
  <1> HIDE DEF v
  <1>9. Calm(s, v)
    BY <1>1, <1>3, <1>6, CalmSame
  <1>10. Base(v, X, Y) /\ Fit(v, s.m.active)
    BY <1>1, <1>3, <1>6, <1>9, CalmBase, CalmFit
  <1>11. /\ Enters(v, t, X, Y) /\ t.m.active = s.m.active /\ t.m.state = "Receiving"
         /\ t.rx = v.rx
    BY <1>1, <1>3, <1>6, <1>7, <1>10, EnterReceivingFact
  <1> HIDE DEF t
  <1>12. Calm(s, t)
    BY <1>1, <1>9, <1>11, CalmTwice DEF Enters
  <1> QED BY <1>3, <1>6, <1>8, <1>11, <1>12 DEF Enters

(* A receiver is selected. *)
LEMMA EnterSelectedFact ==
    ASSUME NEW s, NEW X, NEW Y, Base(s, X, Y), s.m.switchTo = None, NEW x \in Rxs, Fit(s, x)
    PROVE  LET t == EnterActiveRxSelected(s, x) IN
           /\ Enters(s, t, X, Y) /\ t.m.active = x /\ t.m.state = "Receiving"
           /\ t.m.mute = "NONE" => t.rx[x].unflushed = s.rx[x].unflushed
  <1> DEFINE u == [s EXCEPT !.m.active = x]
             v == MuteAll(u, "CONTENT")
             w == MuteAllBut(u, x, "CONTENT")
             z == IF u.m.mute = "CONTENT" THEN v ELSE w
             t == EnterSquelchOpen(z)
  <1>1. s \in Voters /\ {"CONTENT", "NONE"} \subseteq MuteStates
    BY DEF Base, MuteStates
  <1>2. OnlyMachine(s, u) /\ MachineBut(s, u, {"active"}) /\ u.m.active = x
    BY <1>1, ActiveSet
  <1>3. EnterActiveRxSelected(s, x) = t
    BY DEF EnterActiveRxSelected
  <1> HIDE DEF u
  <1>4. u \in Voters /\ Calm(s, u)
    BY <1>2, OnlyMachineCalm DEF OnlyMachine
  <1>5. /\ Calm(u, v) /\ SameControl(u, v)
    BY <1>1, <1>4, MuteAllCalm
  <1>6. /\ Calm(u, w) /\ SameControl(u, w) /\ w.rx[x].want = "NONE"
        /\ w.rx[x].unflushed = u.rx[x].unflushed
    BY <1>1, <1>4, MuteAllButCalm
  <1>7. /\ Calm(u, z) /\ SameControl(u, z)
        /\ u.m.mute = "NONE" => z.rx[x].want = "NONE" /\ z.rx[x].unflushed = u.rx[x].unflushed
    <2> HIDE DEF v, w
    <2> QED BY <1>5, <1>6
  <1> HIDE DEF z
  <1>8. Calm(s, z)
    BY <1>1, <1>4, <1>7, CalmTwice
  <1>9. Base(z, X, Y) /\ Fit(z, x)
    BY <1>1, <1>2, <1>7, <1>8, CalmBase, CalmFit DEF SameControl, MachineBut
  <1>10. /\ Enters(z, t, X, Y) /\ t.m.active = x /\ t.m.state = "Receiving"
         /\ t.rx = z.rx
    BY <1>2, <1>7, <1>9, EnterSquelchOpenFact DEF SameControl, MachineBut
  <1> HIDE DEF t
  <1>11. Calm(s, t)
    BY <1>1, <1>8, <1>10, CalmTwice DEF Enters
  <1>12. t.m.mute = "NONE" => t.rx[x].unflushed = s.rx[x].unflushed
    BY <1>2, <1>7, <1>10 DEF Enters, SameControl, OnlyMachine
  <1> QED BY <1>2, <1>3, <1>7, <1>10, <1>11, <1>12
          DEF Enters, SameControl, OnlyMachine, MachineBut

(* The squelch closes: the receiver stays selected for a while. *)
LEMMA EnterSqlCloseFact ==
    ASSUME NEW s, NEW X, NEW Y, Base(s, X, Y), MachineOK(s), Reported(s), WantsOK(s, X),
           s.m.state \in SquelchOpenStates
    PROVE  LET t == EnterSqlCloseWait(s) IN
           /\ Enters(s, t, X, Y) /\ t.m.active = s.m.active /\ t.m.state = "SqlCloseWait"
           /\ s.m.switchTo = None => t.rx = s.rx
  <1> DEFINE u == Left(s, "SqlCloseWait")
             t == StartTimer(u)
  <1>1. s \in Voters /\ s.m.active \in Rxs /\ s.m.active # None
    BY MachineOf DEF Base, MachineOK, Machines, SelectedStates
  <1>2. Leavable(s, "SqlCloseWait")
    BY <1>1 DEF Leavable, MachineOK, States, SelectedStates
  <1>3. /\ Calm(s, u) /\ u.sql = s.sql /\ u.failed = s.failed /\ u.m.state = "SqlCloseWait"
        /\ u.m.best = s.m.best /\ u.m.mute = s.m.mute /\ u.m.switchTo = None
        /\ u.m.active = s.m.active /\ SaysClosed(u)
        /\ u.rx[s.m.active].want = s.rx[s.m.active].want
        /\ s.m.switchTo = None => u.rx = s.rx
    BY <1>1, <1>2, LeftFact DEF Leaves, MachineOK, SelectedStates, SquelchOpenStates
  <1>4. EnterSqlCloseWait(s) = t
    BY DEF EnterSqlCloseWait, Left
  <1>5. u \in Voters
    BY <1>3 DEF Calm
  <1> HIDE DEF u
  <1>6. OnlyMachine(u, t) /\ MachineBut(u, t, {"timer"})
    BY <1>5, TimerSet DEF StartTimer
  <1>7. Calm(s, t) /\ SaysClosed(t)
    BY <1>1, <1>3, <1>6, OnlyMachineCalm, CalmTwice
  <1> HIDE DEF t
  <1>8. Base(t, X, Y)
    BY <1>3, <1>6, <1>7, CalmBase DEF MachineBut
  <1>9. MachineOK(t) /\ Reported(t) /\ ActiveOK(t)
    BY <1>1, <1>3, <1>6, <1>7
       DEF MachineBut, MachineOK, Reported, ActiveOK, SelectedStates, SquelchOpenStates, Timed
  <1>10. WantsOK(t, X)
    BY <1>3, <1>6 DEF OnlyMachine, MachineBut, WantsOK, SelectedStates, SquelchOpenStates
  <1> QED BY <1>3, <1>4, <1>6, <1>7, <1>8, <1>9, <1>10
          DEF Enters, Sound, OnlyMachine, MachineBut

(* Another receiver is better: it is heard for a while before the switch. *)
LEMMA EnterSwitchFact ==
    ASSUME NEW s, NEW Y, Sound(s, {}, Y), s.m.state = "Receiving", NEW x \in Rxs,
           x # s.m.active, s.rx[x].enabled
    PROVE  LET t == EnterSwitchActiveRx(s, x) IN
           Enters(s, t, {}, Y) /\ t.m.active = s.m.active
  <1> DEFINE u == Left(s, "SwitchActiveRx")
             l == [Exit(s, "SwitchActiveRx") EXCEPT !.m.state = "SwitchActiveRx",
                                                    !.m.switchTo = x]
             v == [u EXCEPT !.m.switchTo = x]
             w == StartTimer(v)
             z == SatSetMuteState(w, x, "NONE")
             t == IF w.m.mute = "NONE" THEN z ELSE w
  <1>1. /\ s \in Voters /\ s.m.active \in Rxs /\ s.m.active # None /\ x # None
        /\ s.m.switchTo = None /\ Base(s, {}, Y)
    BY MachineOf, VoterAssumption
       DEF Sound, Base, MachineOK, Machines, SelectedStates, SquelchOpenStates
  <1>2. Leavable(s, "SwitchActiveRx")
    BY <1>1 DEF Leavable, Sound, MachineOK, States, SelectedStates, SquelchOpenStates
  <1>3. /\ Calm(s, u) /\ u.sql = s.sql /\ u.failed = s.failed /\ u.m.state = "SwitchActiveRx"
        /\ u.m.best = s.m.best /\ u.m.mute = s.m.mute
        /\ u.m.active = s.m.active /\ SaysOpen(u) /\ u.rx = s.rx
    BY <1>1, <1>2, LeftFact
       DEF Leaves, Sound, Reported, SelectedStates, SquelchOpenStates
  <1>4. l = v
    BY DEF Left
  <1>5. u \in Voters
    BY <1>3 DEF Calm
  <1>6. EnterSwitchActiveRx(s, x) = t
    BY <1>4 DEF EnterSwitchActiveRx
  <1> HIDE DEF u, l
  <1>7. OnlyMachine(u, v) /\ MachineBut(u, v, {"switchTo"}) /\ v.m.switchTo = x
    BY <1>5, SwitchToSet
  <1> HIDE DEF v
  <1>8. OnlyMachine(v, w) /\ MachineBut(v, w, {"timer"})
    BY <1>7, TimerSet DEF StartTimer, OnlyMachine
  <1> HIDE DEF w
  <1>9. /\ w \in Voters /\ Calm(s, w) /\ SaysOpen(w)
    BY <1>1, <1>3, <1>5, <1>7, <1>8, OnlyMachineCalm, CalmTwice DEF OnlyMachine
  <1>10. /\ Calm(w, z) /\ SameControl(w, z) /\ z.rx[x].want = "NONE"
         /\ \A y \in Rxs \ {x} : z.rx[y] = w.rx[y]
    BY <1>9, SatSetCalm DEF MuteStates
  <1>11. Calm(s, z)
    BY <1>1, <1>9, <1>10, CalmTwice
  <1> HIDE DEF z
  <1>12. /\ Calm(s, t) /\ t.m = w.m /\ t.failed = w.failed
         /\ \A y \in Rxs \ {x} : t.rx[y] = w.rx[y]
    BY <1>9, <1>10, <1>11 DEF SameControl
  <1>13. SaysOpen(t)
    BY <1>9, <1>10, SaysSame DEF SameControl
  <1> HIDE DEF t
  <1>14. Base(t, {}, Y)
    BY <1>1, <1>3, <1>7, <1>8, <1>12, CalmBase DEF MachineBut
  <1>15. Fit(t, t.m.active)
    <2>1. Fit(s, s.m.active)
      BY DEF Sound, ActiveOK, SquelchOpenStates
    <2> QED BY <1>1, <1>3, <1>7, <1>8, <1>12, <2>1, CalmFit DEF MachineBut
  <1>16. MachineOK(t) /\ Reported(t) /\ ActiveOK(t)
    BY <1>1, <1>3, <1>7, <1>8, <1>12, <1>13, <1>15
       DEF MachineBut, MachineOK, Reported, ActiveOK, SelectedStates, SquelchOpenStates, Timed
  <1>17. WantsOK(t, {})
    <2>1. t.m.active = s.m.active /\ t.m.switchTo = x /\ t.m.mute = s.m.mute
          /\ t.m.state = "SwitchActiveRx" /\ t.rx[s.m.active] = s.rx[s.m.active]
      BY <1>1, <1>3, <1>7, <1>8, <1>12 DEF MachineBut, OnlyMachine
    <2>2. t.rx[x].enabled
      BY <1>12 DEF Calm, Calms
    <2>3. s.m.mute = "NONE" => s.rx[s.m.active].want = "NONE"
      BY DEF Sound, WantsOK, SelectedStates, SquelchOpenStates
    <2> QED BY <2>1, <2>2, <2>3 DEF WantsOK
  <1> QED BY <1>3, <1>6, <1>7, <1>8, <1>12, <1>14, <1>16, <1>17
          DEF Enters, Sound, OnlyMachine, MachineBut

----------------------------------------------------------------------------
(***************************************************************************)
(* One squelch event.                                                      *)
(***************************************************************************)
\* From s0 to s no other receiver was selected, and until one is no audio is lost.
NotSelected(s0, s) ==
    /\ s.m.active \in {None, s0.m.active}
    /\ s.m.state \in {"Idle", "VotingDelay"} /\ s.m.mute = "NONE" => KeepsAudio(s0, s)

\* A receiver was selected with its audio.
Selected(s0, s) ==
    /\ s.m.state \in {"Receiving", "SqlCloseWait"} /\ s.m.switchTo = None
    /\ s.m.active \in Rxs
    /\ s.m.mute = "NONE" => s.rx[s.m.active].unflushed = s0.rx[s.m.active].unflushed

\* What is true when the event that the squelch of x opened or closed is taken.
Before(s, x, isOpen, X, Y) ==
    /\ s \in Voters /\ s.failed = None /\ x \in Rxs /\ isOpen \in BOOLEAN
    /\ Gained(s.queue) = {} /\ OnlyFirst(s.queue) /\ ReceiversOK(s, X)
    /\ MachineOK(s) /\ Reported(s) /\ WantsOK(s, X)
    /\ s.m.best = None => \A y \in Rxs \ Y : Heard(s, y) => y = x /\ isOpen
    /\ s.m.best # None => Fit(s, s.m.best) \/ (s.m.best = x /\ ~isOpen)
    /\ s.m.state \in SquelchOpenStates => Fit(s, s.m.active) \/ (s.m.active = x /\ ~isOpen)
    /\ isOpen => Fit(s, x)

(* The first event is taken from the queue. *)
LEMMA EventTaken ==
    ASSUME NEW s, NEW X, NEW Y, Sound(s, X, Y), s.failed = None, s.queue # <<>>
    PROVE  LET t == [s EXCEPT !.queue = Tail(@)]
               e == Head(s.queue)
           IN  /\ Before(t, e.rx, e.open, X, Y)
               /\ e = [rx |-> e.rx, open |-> e.open]
               /\ e.open => e.rx \in Gained(s.queue)
               /\ t.m = s.m /\ t.rx = s.rx /\ t.failed = None
               /\ Weight(t) = Weight(s) - 1
  <1> DEFINE t == [s EXCEPT !.queue = Tail(@)]
             q == s.queue
             e == Head(q)
             p == Tail(q)
  <1>1. s \in Voters /\ q \in Seq(Events) /\ OnlyFirst(q) /\ q # <<>>
    BY DEF Sound, Base, QueueOK, Voters
  <1>2. /\ p \in Seq(Events) /\ Len(p) = Len(q) - 1 /\ e \in Events
        /\ Len(q) \in Nat \ {0}
        /\ OnlyFirst(p) /\ Gained(p) = {}
        /\ \A x \in Rxs : x \in Lost(q) => x \in Lost(p) \/ e = Closing(x)
        /\ \A x \in Rxs : e = [rx |-> x, open |-> TRUE] => x \in Gained(q)
        /\ \A x \in Rxs : x \in Gained(q) => e = [rx |-> x, open |-> TRUE]
    <2> HIDE DEF q
    <2> QED BY <1>1, QueueTail
  <1>3. /\ t \in Voters /\ t.m = s.m /\ t.rx = s.rx /\ t.tasks = s.tasks /\ t.sql = s.sql
        /\ t.failed = s.failed /\ t.queue = p
    <2> HIDE DEF p
    <2>1. t = [s EXCEPT !.queue = p] /\ p \in Seq(Events)
      BY <1>2 DEF p
    <2> QED BY <1>1, <2>1 DEF Voters
  <1> HIDE DEF t, e, p
  <1>4. e.rx \in Rxs /\ e.open \in BOOLEAN /\ e = [rx |-> e.rx, open |-> e.open]
    BY <1>2 DEF Events
  <1>5. \A x \in Rxs : e = Closing(x) <=> x = e.rx /\ ~e.open
    BY <1>4 DEF Closing
  <1>6. \A x \in Rxs : e = [rx |-> x, open |-> TRUE] <=> x = e.rx /\ e.open
    BY <1>4
  <1>7. \A x \in Rxs : Fit(s, x) => Fit(t, x) \/ (x = e.rx /\ ~e.open)
    BY <1>2, <1>3, <1>5 DEF Fit, Heard, q
  <1>8. Weight(t) = Weight(s) - 1
    <2>1. Opened(t) = Opened(s)
      BY <1>3 DEF Opened
    <2>2. Cardinality(Opened(s)) \in Int
      BY <1>1, WeightType
    <2> QED BY <1>2, <1>3, <2>1, <2>2 DEF Weight, q
  <1>9. e.open => Fit(t, e.rx)
    <2>1. e.open => e.rx \in Gained(q)
      BY <1>2, <1>4, <1>6
    <2>2. e.open => Fit(s, e.rx)
      BY <2>1 DEF Sound, Base, QueueOK, q
    <2> QED BY <1>4, <1>7, <2>2
  <1>10. t.m.best = None => \A y \in Rxs \ Y : Heard(t, y) => y = e.rx /\ e.open
    <2> SUFFICES ASSUME t.m.best = None, NEW y \in Rxs \ Y, Heard(t, y)
                 PROVE  y = e.rx /\ e.open
      OBVIOUS
    <2>1. y \in Gained(q)
      BY <1>3 DEF Sound, Base, BestOK, Heard, q
    <2> QED BY <1>2, <1>6, <2>1
  <1>11. s.m.best \in Rxs \cup {None} /\ s.m.active \in Rxs \cup {None}
    BY <1>1, MachineOf DEF Machines
  <1>12. t.m.best # None => Fit(t, t.m.best) \/ (t.m.best = e.rx /\ ~e.open)
    BY <1>3, <1>7, <1>11 DEF Sound, Base, BestOK
  <1>13. t.m.state \in SquelchOpenStates =>
            Fit(t, t.m.active) \/ (t.m.active = e.rx /\ ~e.open)
    <2>1. s.m.state \in SquelchOpenStates => s.m.active \in Rxs
      BY <1>11 DEF Sound, MachineOK, SelectedStates
    <2> QED BY <1>3, <1>7, <2>1 DEF Sound, ActiveOK
  <1>14. ReceiversOK(t, X)
    BY <1>3 DEF Sound, Base, ReceiversOK
  <1>15. MachineOK(t) /\ WantsOK(t, X)
    BY <1>3 DEF Sound, MachineOK, WantsOK
  <1>16. Reported(t)
    BY <1>3, SaysSame DEF Sound, Reported
  <1>17. Before(t, e.rx, e.open, X, Y)
    BY <1>2, <1>3, <1>4, <1>9, <1>10, <1>12, <1>13, <1>14, <1>15, <1>16 DEF Before
  <1>18. e.open => e.rx \in Gained(s.queue)
    BY <1>2, <1>4, <1>6 DEF q
  <1> QED BY <1>3, <1>4, <1>8, <1>17, <1>18 DEF t, e

(* Top::eventSatSquelchOpen: the best receiver is followed. *)
LEMMA TopFact ==
    ASSUME NEW s, NEW x, NEW isOpen, NEW X, NEW Y, Before(s, x, isOpen, X, Y)
    PROVE  LET t == TopSatSquelchOpen(s, x, isOpen) IN
           /\ t \in Voters /\ t.rx = s.rx /\ t.queue = s.queue /\ t.tasks = s.tasks
           /\ t.sql = s.sql /\ MachineBut(s, t, {"best"})
           /\ t.failed # None \/ (t.failed = s.failed /\ Base(t, X, Y))
           /\ isOpen /\ t.failed = None => t.m.best \in Rxs /\ Fit(t, t.m.best)
  <1> DEFINE t == TopSatSquelchOpen(s, x, isOpen)
             f == Fails(s, "is_open")
             y == FindBestRx(s)
             g(b) == [s EXCEPT !.m.best = b]
  <1>1. s \in Voters /\ x \in Rxs /\ s.m.best \in Rxs \cup {None} /\ x # None /\ isOpen \in BOOLEAN
    BY MachineOf, VoterAssumption DEF Before, Machines
  <1>2. f \in Voters /\ f.rx = s.rx /\ f.queue = s.queue /\ f.m = s.m /\ f.tasks = s.tasks
        /\ f.failed # None /\ f.sql = s.sql
    BY <1>1, FailsSet DEF Assertions
  <1>3. /\ y \in Rxs \cup {None}
        /\ y = None => \A z \in Rxs : ~Heard(s, z)
        /\ y # None => Heard(s, y)
    BY <1>1, FindBestFact
  <1>4. \A b \in Rxs \cup {None} :
            OnlyMachine(s, g(b)) /\ MachineBut(s, g(b), {"best"}) /\ g(b).m.best = b
    BY <1>1, BestSet
  <1>5. \/ t = f
        \/ t = s /\ s.m.best # None /\ Fit(s, s.m.best)
        \/ t = g(x) /\ isOpen /\ Fit(s, x)
        \/ t = g(y) /\ ~isOpen
    <2> HIDE DEF f, g, y
    <2>1. t = IF s.m.best = None THEN IF isOpen THEN g(x) ELSE f
              ELSE IF x = s.m.best THEN IF isOpen THEN s ELSE g(y)
              ELSE IF isOpen /\ s.rx[x].lev > s.rx[s.m.best].lev THEN g(x) ELSE s
      BY DEF TopSatSquelchOpen, f, g, y
    <2> HIDE DEF t
    <2> QED BY <1>1, <2>1 DEF Before
  <1> HIDE DEF t, f, y, g
  <1>6. ASSUME NEW v, OnlyMachine(s, v) \/ v = s, MachineBut(s, v, {"best"}), BestOK(v, Y)
        PROVE  v.failed = s.failed /\ Base(v, X, Y)
    <2>1. v.rx = s.rx /\ v.queue = s.queue /\ v \in Voters /\ v.failed = s.failed
      BY <1>1, <1>6 DEF OnlyMachine
    <2>2. QueueOK(v) /\ ReceiversOK(v, X)
      BY <2>1 DEF Before, QueueOK, ReceiversOK
    <2> QED BY <1>6, <2>1, <2>2 DEF Base
  <1>7. CASE t = f
    BY <1>2, <1>7 DEF MachineBut, t
  <1>8. CASE t = s /\ s.m.best # None /\ Fit(s, s.m.best)
    <2>1. BestOK(s, Y) /\ MachineBut(s, s, {"best"})
      BY <1>8 DEF BestOK, MachineBut
    <2> QED BY <1>1, <1>6, <1>8, <2>1 DEF t
  <1>9. CASE t = g(x) /\ isOpen /\ Fit(s, x)
    <2>1. OnlyMachine(s, t) /\ MachineBut(s, t, {"best"}) /\ t.m.best = x
      BY <1>1, <1>4, <1>9
    <2>2. Fit(t, x) /\ BestOK(t, Y)
      BY <1>1, <1>9, <2>1 DEF OnlyMachine, Fit, Heard, BestOK
    <2> QED BY <1>1, <1>6, <2>1, <2>2 DEF OnlyMachine, t
  <1>10. CASE t = g(y) /\ ~isOpen
    <2>1. OnlyMachine(s, t) /\ MachineBut(s, t, {"best"}) /\ t.m.best = y
      BY <1>3, <1>4, <1>10
    <2>2. BestOK(t, Y)
      BY <1>3, <2>1 DEF OnlyMachine, Fit, Heard, BestOK
    <2> QED BY <1>6, <1>10, <2>1, <2>2 DEF OnlyMachine, t
  <1> QED BY <1>5, <1>7, <1>8, <1>9, <1>10

\* What an event leads to.
After(s, t, isOpen, X, Y) ==
    /\ Calm(s, t) /\ t.m.mute = s.m.mute
    /\ t.failed # None \/ (t.failed = None /\ Sound(t, X, Y))
    /\ \A s0 :
        /\ NotSelected(s0, s) => NotSelected(s0, t) \/ (isOpen /\ Selected(s0, t))
        /\ Selected(s0, s) /\ ~isOpen => Selected(s0, t)

(* What entering a state leads to. *)
LEMMA EnteredFact ==
    ASSUME NEW s, NEW u, NEW t, NEW isOpen, NEW X, NEW Y, s \in Voters, s.failed = None,
           Calm(s, u), u.m.mute = s.m.mute, u.failed = None, Enters(u, t, X, Y)
    PROVE  Calm(s, t) /\ t.m.mute = s.m.mute /\ t.failed = None /\ Sound(t, X, Y)
  BY CalmTwice DEF Enters

(* Voter::satSquelchOpen in each state. *)
LEMMA HandleSquelchFact ==
    ASSUME NEW s, NEW x, NEW isOpen, NEW X, NEW Y, Before(s, x, isOpen, X, Y)
    PROVE  After(s, HandleSquelch(s, x, isOpen), isOpen, X, Y)
  <1> DEFINE u == TopSatSquelchOpen(s, x, isOpen)
             t == HandleSquelch(s, x, isOpen)
  <1>1. /\ u \in Voters /\ u.rx = s.rx /\ u.queue = s.queue /\ u.tasks = s.tasks
        /\ u.sql = s.sql /\ MachineBut(s, u, {"best"})
        /\ u.failed # None \/ (u.failed = s.failed /\ Base(u, X, Y))
        /\ isOpen /\ u.failed = None => u.m.best \in Rxs /\ Fit(u, u.m.best)
    BY TopFact
  <1>2. s \in Voters /\ s.failed = None /\ isOpen \in BOOLEAN /\ x \in Rxs
    BY DEF Before
  <1>3. t = IF u.failed # None THEN u
            ELSE IF s.m.state \in {"Idle", "VotingDelay"} /\ isOpen /\ Unbeatable(u, x)
            THEN EnterActiveRxSelected(u, u.m.best)
            ELSE IF s.m.state = "Idle" /\ isOpen THEN EnterVotingDelay(u, x)
            ELSE IF s.m.state = "VotingDelay" /\ ~isOpen /\ u.m.best = None THEN EnterIdle(u)
            ELSE IF s.m.state \in SquelchOpenStates /\ ~isOpen /\ x = u.m.active
            THEN EnterSqlCloseWait(u)
            ELSE IF s.m.state = "SqlCloseWait" /\ isOpen /\ x = u.m.active
            THEN EnterSquelchOpen(u)
            ELSE u
    BY DEF HandleSquelch
  <1> HIDE DEF u, t
  <1>4. Calm(s, u) /\ u.m.mute = s.m.mute /\ u.m.state = s.m.state
        /\ u.m.active = s.m.active /\ u.m.switchTo = s.m.switchTo
    BY <1>1, <1>2, CalmSame DEF MachineBut
  <1>5. MachineOK(u) /\ WantsOK(u, X)
    BY <1>1 DEF Before, MachineOK, WantsOK, MachineBut
  <1>6. Reported(u)
    BY <1>1, SaysSame DEF Before, Reported, MachineBut
  <1>7. \A s0 : /\ NotSelected(s0, s) => NotSelected(s0, u)
                /\ Selected(s0, s) => Selected(s0, u)
    BY <1>1, <1>4 DEF NotSelected, Selected, KeepsAudio
  <1>8. CASE t = u
    <2>1. CASE u.failed # None
      BY <1>4, <1>7, <1>8, <2>1 DEF After, t
    <2>2. CASE u.failed = None /\ ~(s.m.state \in SquelchOpenStates /\ ~isOpen /\ x = u.m.active)
      <3>1. s.m.state \in SquelchOpenStates => Fit(s, s.m.active)
        BY <1>4, <2>2 DEF Before
      <3>2. ActiveOK(u)
        BY <1>1, <1>4, <3>1 DEF ActiveOK, Fit, Heard
      <3> QED BY <1>1, <1>4, <1>5, <1>6, <1>7, <1>8, <2>2, <3>2 DEF After, Sound, t
    <2>3. CASE u.failed = None /\ s.m.state \in SquelchOpenStates /\ ~isOpen /\ x = u.m.active
      <3>1. t = EnterSqlCloseWait(u)
        BY <1>3, <2>3 DEF SquelchOpenStates
      <3>2. t.m.state = "SqlCloseWait"
        BY <1>1, <1>2, <1>4, <1>5, <1>6, <2>3, <3>1, EnterSqlCloseFact
      <3> QED BY <1>4, <1>8, <2>3, <3>2 DEF SquelchOpenStates
    <2> QED BY <2>1, <2>2, <2>3
  <1>9. CASE /\ u.failed = None /\ s.m.state \in {"Idle", "VotingDelay"} /\ isOpen
             /\ t = EnterActiveRxSelected(u, u.m.best)
    <2>1. u.m.switchTo = None /\ Base(u, X, Y) /\ u.m.best \in Rxs /\ Fit(u, u.m.best)
      BY <1>1, <1>4, <1>5, <1>9 DEF MachineOK
    <2>2. /\ Enters(u, t, X, Y) /\ t.m.active = u.m.best /\ t.m.state = "Receiving"
          /\ t.m.mute = "NONE" => t.rx[u.m.best].unflushed = u.rx[u.m.best].unflushed
      BY <1>9, <2>1, EnterSelectedFact
    <2>3. Calm(s, t) /\ t.m.mute = s.m.mute /\ t.failed = None /\ Sound(t, X, Y)
      BY <1>2, <1>4, <1>9, <2>2, EnteredFact
    <2>4. t.m.switchTo = None
      BY <2>2, <2>3 DEF Sound, MachineOK
    <2>5. \A s0 : NotSelected(s0, s) => Selected(s0, t)
      BY <1>4, <1>7, <1>9, <2>1, <2>2, <2>3, <2>4 DEF NotSelected, Selected, KeepsAudio
    <2> QED BY <1>9, <2>3, <2>5 DEF After, t
  <1>10. CASE u.failed = None /\ s.m.state = "Idle" /\ t = EnterVotingDelay(u, x)
    <2>1. Sound(u, X, Y)
      BY <1>1, <1>4, <1>5, <1>6, <1>10 DEF Sound, ActiveOK, SquelchOpenStates
    <2>2. /\ Calm(u, t) /\ t.m.active = None /\ KeepsAudio(u, t) /\ t.m.mute = u.m.mute
          /\ t.failed # None \/ (Sound(t, X, Y) /\ t.m.state = "VotingDelay")
      BY <1>2, <1>4, <1>10, <2>1, EnterVotingDelayFact
    <2>3. Calm(s, t)
      BY <1>2, <1>4, <2>2, CalmTwice
    <2>4. \A s0 : NotSelected(s0, s) => NotSelected(s0, t)
      BY <1>4, <1>7, <1>10, <2>2 DEF NotSelected, KeepsAudio
    <2>5. \A s0 : ~Selected(s0, s)
      BY <1>10 DEF Selected
    <2> QED BY <1>4, <2>2, <2>3, <2>4, <2>5 DEF After, t
  <1>11. CASE u.failed = None /\ s.m.state = "VotingDelay" /\ t = EnterIdle(u)
    <2>1. Base(u, X, Y) /\ u.m.switchTo = None
      BY <1>1, <1>4, <1>5, <1>11 DEF MachineOK
    <2>2. Enters(u, t, X, Y) /\ t.m.active = None /\ t.m.state = "Idle" /\ KeepsAudio(u, t)
      BY <1>5, <1>6, <1>11, <2>1, EnterIdleFact
    <2>3. Calm(s, t) /\ t.m.mute = s.m.mute /\ t.failed = None /\ Sound(t, X, Y)
      BY <1>2, <1>4, <1>11, <2>2, EnteredFact
    <2>4. \A s0 : NotSelected(s0, s) => NotSelected(s0, t)
      BY <1>4, <1>7, <1>11, <2>2, <2>3 DEF NotSelected, KeepsAudio
    <2>5. \A s0 : ~Selected(s0, s)
      BY <1>11 DEF Selected
    <2> QED BY <2>3, <2>4, <2>5 DEF After, t
  <1>12. CASE /\ u.failed = None /\ s.m.state \in SquelchOpenStates
              /\ t = EnterSqlCloseWait(u)
    <2>1. Base(u, X, Y)
      BY <1>1, <1>12
    <2>2. /\ Enters(u, t, X, Y) /\ t.m.active = u.m.active /\ t.m.state = "SqlCloseWait"
          /\ u.m.switchTo = None => t.rx = u.rx
      BY <1>4, <1>5, <1>6, <1>12, <2>1, EnterSqlCloseFact
    <2>3. Calm(s, t) /\ t.m.mute = s.m.mute /\ t.failed = None /\ Sound(t, X, Y)
      BY <1>2, <1>4, <1>12, <2>2, EnteredFact
    <2>4. \A s0 : NotSelected(s0, s) => NotSelected(s0, t)
      BY <1>4, <2>2 DEF NotSelected
    <2>5. \A s0 : Selected(s0, s) => Selected(s0, t)
      <3>1. t.m.switchTo = None
        BY <2>2, <2>3 DEF Sound, MachineOK
      <3> QED BY <1>4, <1>7, <2>2, <2>3, <3>1 DEF Selected
    <2> QED BY <2>3, <2>4, <2>5 DEF After, t
  <1>13. CASE /\ u.failed = None /\ s.m.state = "SqlCloseWait" /\ isOpen /\ x = u.m.active
              /\ t = EnterSquelchOpen(u)
    <2>1. /\ Base(u, X, Y) /\ u.m.switchTo = None /\ Fit(u, x)
          /\ u.m.mute = "NONE" => u.rx[x].want = "NONE"
      BY <1>1, <1>4, <1>5, <1>13
         DEF MachineOK, WantsOK, SelectedStates, Before, Fit, Heard
    <2>2. Enters(u, t, X, Y) /\ t.m.active = u.m.active /\ t.m.state = "Receiving"
      BY <1>2, <1>13, <2>1, EnterSquelchOpenFact
    <2>3. Calm(s, t) /\ t.m.mute = s.m.mute /\ t.failed = None /\ Sound(t, X, Y)
      BY <1>2, <1>4, <1>13, <2>2, EnteredFact
    <2>4. \A s0 : NotSelected(s0, s) => NotSelected(s0, t)
      BY <1>4, <2>2 DEF NotSelected
    <2> QED BY <1>13, <2>3, <2>4 DEF After, t
  <1>14. \/ t = u
         \/ /\ u.failed = None /\ s.m.state \in {"Idle", "VotingDelay"} /\ isOpen
            /\ t = EnterActiveRxSelected(u, u.m.best)
         \/ u.failed = None /\ s.m.state = "Idle" /\ t = EnterVotingDelay(u, x)
         \/ u.failed = None /\ s.m.state = "VotingDelay" /\ t = EnterIdle(u)
         \/ /\ u.failed = None /\ s.m.state \in SquelchOpenStates
            /\ t = EnterSqlCloseWait(u)
         \/ /\ u.failed = None /\ s.m.state = "SqlCloseWait" /\ isOpen /\ x = u.m.active
            /\ t = EnterSquelchOpen(u)
    BY <1>3
  <1> QED BY <1>8, <1>9, <1>10, <1>11, <1>12, <1>13, <1>14

----------------------------------------------------------------------------
(***************************************************************************)
(* The queue of events is dispatched.                                      *)
(***************************************************************************)
\* Sound, unless an assertion has failed.
Live(s, X, Y) == s \in Voters /\ (s.failed = None => Sound(s, X, Y))

\* From s0 to s a receiver was selected by the event of a squelch that opens, or none was.
Tracked(s0, s) ==
    NotSelected(s0, s) \/ (Selected(s0, s) /\ Gained(s.queue) = {})

\* What handling events keeps.
Settles(s, t) ==
    /\ t.m.mute = s.m.mute
    /\ s.failed # None => t.failed # None
    /\ \A x \in Rxs : Calms(s.rx[x], t.rx[x])

Tracks(s, t) ==
    \A s0 : /\ Tracked(s0, s) => Tracked(s0, t)
            /\ NotSelected(s0, s) /\ Gained(s.queue) = {} =>
                    NotSelected(s0, t) /\ Gained(t.queue) = {}

(* What events keep is kept by all of them. *)
LEMMA SettlesTwice ==
    ASSUME NEW s, NEW t, NEW u, Settles(s, t), Settles(t, u) PROVE Settles(s, u)
  BY DEF Settles, Calms

(* One event. *)
LEMMA DispatchFirstFact ==
    ASSUME NEW s, NEW X, NEW Y, Live(s, X, Y)
    PROVE  LET t == DispatchFirst(s) IN
           /\ Live(t, X, Y) /\ Settles(s, t) /\ Tracks(s, t)
           /\ t.failed # None \/ t.queue = <<>> \/ Weight(t) <= Weight(s) - 1
           /\ s.failed = None /\ s.queue = <<>> => t = s
  <1> DEFINE t == DispatchFirst(s)
             e == Head(s.queue)
             u == [s EXCEPT !.queue = Tail(@)]
  <1>1. s \in Voters /\ (s.failed = None => Sound(s, X, Y))
    BY DEF Live
  <1>2. CASE s.queue = <<>> \/ s.failed # None
    <2>1. t = s
      BY <1>2 DEF DispatchFirst
    <2> HIDE DEF t
    <2>2. Settles(s, s) /\ Tracks(s, s)
      BY DEF Settles, Calms, Tracks, Tracked
    <2> QED BY <1>2, <2>1, <2>2 DEF t
  <1>3. CASE s.queue # <<>> /\ s.failed = None
    <2>1. t = HandleSquelch(u, e.rx, e.open)
      BY <1>3 DEF DispatchFirst
    <2>2. /\ Before(u, e.rx, e.open, X, Y)
          /\ e.open => e.rx \in Gained(s.queue)
          /\ u.m = s.m /\ u.rx = s.rx /\ u.failed = None
          /\ Weight(u) = Weight(s) - 1
      BY <1>1, <1>3, EventTaken
    <2> HIDE DEF t, u, e
    <2>3. After(u, t, e.open, X, Y)
      BY <2>1, <2>2, HandleSquelchFact
    <2>4. /\ Calm(u, t) /\ t.m.mute = u.m.mute
          /\ t.failed # None \/ (t.failed = None /\ Sound(t, X, Y))
      BY <2>3 DEF After
    <2>5. Gained(u.queue) = {} /\ Gained(t.queue) = {} /\ e.open \in BOOLEAN
      BY <2>2, <2>4 DEF Before, Calm
    <2>6. Live(t, X, Y) /\ Settles(s, t)
      BY <1>3, <2>2, <2>4 DEF Live, Settles, Calm
    <2>7. \A s0 : /\ NotSelected(s0, s) => NotSelected(s0, u)
                  /\ Selected(s0, s) => Selected(s0, u)
      BY <2>2 DEF NotSelected, Selected, KeepsAudio
    <2>8. Tracks(s, t)
      BY <2>2, <2>3, <2>5, <2>7 DEF After, Tracks, Tracked
    <2>9. Weight(t) <= Weight(s) - 1
      BY <2>2, <2>4 DEF Calm
    <2> QED BY <1>3, <2>6, <2>8, <2>9 DEF t
  <1> QED BY <1>2, <1>3

(* What DispatchEvents does, one event after the other. *)
LEMMA DispatchLoop ==
    ASSUME NEW s, NEW X, NEW Y, Live(s, X, Y)
    PROVE  LET n == Len(s.queue) + Len(RXS) IN
           \E f : /\ DispatchEvents(s) = f[n] /\ f[0] = s
                  /\ \A i \in 1 .. n : f[i] = DispatchFirst(f[i - 1])
  <1> DEFINE n == Len(s.queue) + Len(RXS)
             S == {v \in Voters : Live(v, X, Y)}
             F == [i \in 1 .. n |-> [v \in S |-> DispatchFirst(v)]]
             g == CHOOSE after :
                    after = [i \in 0 .. n |-> IF i = 0 THEN s ELSE DispatchFirst(after[i - 1])]
  <1>1. n \in Nat /\ s \in S
    BY FewReceivers, WeightType DEF Live
  <1>2. \A v \in S : DispatchFirst(v) \in S
    BY DispatchFirstFact DEF Live
  <1>3. \E f : f = [i \in 0 .. n |-> IF i = 0 THEN s ELSE DispatchFirst(f[i - 1])]
    <2> HIDE DEF n, S
    <2>1. \A i \in 1 .. n : \A v \in S : F[i][v] = DispatchFirst(v)
      OBVIOUS
    <2> HIDE DEF F
    <2>2. LoopIn(S, n, F)
      BY <1>2, <2>1 DEF LoopIn
    <2>3. PICK f : Runs(f, s, S, n, F)
      BY <1>1, <2>2, Loop
    <2>4. f \in [0 .. n -> S] /\ f[0] = s /\ \A i \in 1 .. n : f[i] = F[i][f[i - 1]]
      BY <2>3 DEF Runs
    <2>5. \A i \in 0 .. n : i # 0 => i \in 1 .. n /\ i - 1 \in 0 .. n
      BY <1>1
    <2>6. \A i \in 0 .. n : f[i] = IF i = 0 THEN s ELSE DispatchFirst(f[i - 1])
      BY <2>1, <2>4, <2>5
    <2>7. f = [i \in 0 .. n |-> f[i]]
      BY <2>4
    <2> QED BY <2>6, <2>7
  <1>4. DispatchEvents(s) = g[n]
    BY DEF DispatchEvents
  <1>5. g = [i \in 0 .. n |-> IF i = 0 THEN s ELSE DispatchFirst(g[i - 1])]
    <2> HIDE DEF n
    <2> QED BY <1>3
  <1> HIDE DEF g
  <1>6. g[0] = s /\ \A i \in 1 .. n : g[i] = DispatchFirst(g[i - 1])
    <2> HIDE DEF n
    <2>1. 0 \in 0 .. n /\ \A i \in 1 .. n : i \in 0 .. n /\ i # 0
      BY <1>1
    <2> QED BY <1>5, <2>1
  <1> QED BY <1>4, <1>6

\* What dispatching the queue leads to.
Dispatched(s, t, X, Y) ==
    /\ Live(t, X, Y) /\ Settles(s, t) /\ Tracks(s, t)
    /\ t.failed = None => t.queue = <<>>

(* The queue is dispatched until it is empty. *)
LEMMA DispatchFact ==
    ASSUME NEW s, NEW X, NEW Y, Live(s, X, Y)
    PROVE  Dispatched(s, DispatchEvents(s), X, Y)
  <1> DEFINE n == Len(s.queue) + Len(RXS)
             Some(t, i) ==
                /\ Live(t, X, Y) /\ Settles(s, t) /\ Tracks(s, t)
                /\ t.failed # None \/ t.queue = <<>> \/ Weight(t) <= Weight(s) - i
  <1>1. PICK f : /\ DispatchEvents(s) = f[n] /\ f[0] = s
                 /\ \A i \in 1 .. n : f[i] = DispatchFirst(f[i - 1])
    BY DispatchLoop
  <1>2. s \in Voters
    BY DEF Live
  <1>3. n \in Nat /\ Weight(s) \in Nat /\ Weight(s) <= n
    BY <1>2, FewReceivers, WeightType
  <1> HIDE DEF n
  <1>4. Some(f[0], 0)
    BY <1>1, <1>3 DEF Settles, Calms, Tracks
  <1>5. ASSUME NEW k \in 0 .. n - 1, Some(f[k], k) PROVE Some(f[k + 1], k + 1)
    <2> DEFINE t == f[k]
               u == f[k + 1]
    <2>1. k + 1 \in 1 .. n /\ (k + 1) - 1 = k /\ k \in Nat
      BY <1>3
    <2>2. u = DispatchFirst(t)
      BY <1>1, <2>1
    <2>3. /\ Live(t, X, Y) /\ Settles(s, t) /\ Tracks(s, t)
          /\ t.failed # None \/ t.queue = <<>> \/ Weight(t) <= Weight(s) - k
      BY <1>5
    <2> HIDE DEF t, u
    <2>4. /\ Live(u, X, Y) /\ Settles(t, u) /\ Tracks(t, u)
          /\ u.failed # None \/ u.queue = <<>> \/ Weight(u) <= Weight(t) - 1
          /\ t.failed = None /\ t.queue = <<>> => u = t
      BY <2>2, <2>3, DispatchFirstFact
    <2>5. Settles(s, u)
      BY <2>3, <2>4, SettlesTwice
    <2>6. Tracks(s, u)
      BY <2>3, <2>4 DEF Tracks
    <2>7. Weight(t) \in Nat /\ Weight(u) \in Nat
      BY <2>3, <2>4, WeightType DEF Live
    <2>8. u.failed # None \/ u.queue = <<>> \/ Weight(u) <= Weight(s) - (k + 1)
      BY <1>3, <2>1, <2>3, <2>4, <2>7 DEF Settles
    <2> QED BY <2>4, <2>5, <2>6, <2>8 DEF u
  <1> HIDE DEF Some
  <1>6. Some(f[n], n)
    <2> DEFINE T == {k \in 0 .. n : Some(f[k], k)}
    <2>1. 0 \in T /\ \A k \in 0 .. n - 1 : k \in T => k + 1 \in T
      BY <1>3, <1>4, <1>5
    <2> HIDE DEF T
    <2>2. n \in T
      BY <1>3, <2>1, InductUpTo
    <2> QED BY <2>2 DEF T
  <1> DEFINE t == f[n]
  <1>7. /\ Live(t, X, Y) /\ Settles(s, t) /\ Tracks(s, t)
        /\ t.failed # None \/ t.queue = <<>> \/ Weight(t) <= Weight(s) - n
    BY <1>6 DEF Some
  <1> HIDE DEF t
  <1>8. t \in Voters
    BY <1>7 DEF Live
  <1>9. t.failed = None => t.queue = <<>>
    <2>1. Len(t.queue) \in Nat /\ Weight(t) >= Len(t.queue) /\ t.queue \in Seq(Events)
      BY <1>8, WeightType DEF Voters
    <2>2. Weight(t) <= Weight(s) - n => Len(t.queue) = 0
      BY <1>3, <2>1, <1>8, WeightType
    <2> QED BY <1>7, <2>1, <2>2, EmptySeq
  <1> QED BY <1>1, <1>7, <1>9 DEF Dispatched, t

----------------------------------------------------------------------------
(***************************************************************************)
(* What happens at the receivers.                                          *)
(***************************************************************************)
\* A state between two steps.
Good(s) == Live(s, {}, {}) /\ (s.failed = None => s.queue = <<>>)

\* The audio of a receiver that t selects is what it was in s.
Audio(s, t) ==
    t.m.active \notin {None, s.m.active} /\ t.m.mute = "NONE" =>
        t.rx[t.m.active].unflushed = s.rx[t.m.active].unflushed

\* A step from s to t.
Fine(s, t) == Good(t) /\ Audio(s, t)

(* Calm changes of receivers that are muted as before are sound. *)
LEMMA CalmSound ==
    ASSUME NEW s, NEW t, NEW X, NEW Y, Sound(s, X, Y), Calm(s, t), SameControl(s, t),
           \A x \in Rxs : t.rx[x].want = s.rx[x].want,
           \A x \in X : t.rx[x].mute = s.rx[x].mute
    PROVE  Sound(t, X, Y)
  <1>1. Base(s, X, Y) /\ s \in Voters /\ t.m = s.m
    BY DEF Sound, Base, SameControl
  <1>2. Base(t, X, Y)
    BY <1>1, CalmBase
  <1>3. MachineOK(t) /\ Reported(t)
    BY <1>1, SaysSame DEF Sound, SameControl, MachineOK, Reported
  <1>4. ActiveOK(t)
    <2>1. s.m.state \in SquelchOpenStates => s.m.active \in Rxs
      BY <1>1, MachineOf DEF Sound, MachineOK, Machines, SelectedStates
    <2> QED BY <1>1, <2>1, CalmFit DEF Sound, ActiveOK
  <1>5. WantsOK(t, X)
    <2>1. s.m.state \in SelectedStates => s.m.active \in Rxs
      BY <1>1, MachineOf DEF Sound, MachineOK, Machines
    <2>2. s.m.state = "SwitchActiveRx" => s.m.switchTo \in Rxs
      BY <1>1, MachineOf DEF Sound, MachineOK, Machines
    <2>3. \A x \in Rxs : t.rx[x].enabled = s.rx[x].enabled
                         /\ (~s.rx[x].enabled => t.rx[x].mute = s.rx[x].mute)
      BY DEF Calm, Calms
    <2> QED BY <1>1, <2>1, <2>2, <2>3 DEF Sound, WantsOK
  <1> QED BY <1>2, <1>3, <1>4, <1>5 DEF Sound

(* A change of one receiver that is muted as before. *)
LEMMA OnlySound ==
    ASSUME NEW s, NEW t, NEW X, NEW Y, Sound(s, X, Y), NEW x \in Rxs, Only(s, t, x),
           Calms(s.rx[x], t.rx[x]), t.rx[x].want = s.rx[x].want,
           t.rx[x].mute = s.rx[x].mute, X \subseteq Rxs
    PROVE  Sound(t, X, Y) /\ t.m = s.m /\ t.failed = s.failed /\ Gained(t.queue) = Gained(s.queue)
  <1>1. s \in Voters
    BY DEF Sound, Base
  <1>2. Calm(s, t) /\ SameControl(s, t)
    BY <1>1, OnlyCalm
  <1>3. \A y \in Rxs : t.rx[y].want = s.rx[y].want /\ t.rx[y].mute = s.rx[y].mute
    BY DEF Only
  <1> QED BY <1>2, <1>3, CalmSound DEF SameControl, Calm

(* No squelch opens: the active receiver stays or is given up. *)
LEMMA DispatchQuiet ==
    ASSUME NEW s, NEW X, NEW Y, Live(s, X, Y), Gained(s.queue) = {}
    PROVE  LET t == DispatchEvents(s) IN
           /\ Dispatched(s, t, X, Y) /\ t.m.active \in {None, s.m.active}
           /\ NotSelected(s, t)
  <1> DEFINE t == DispatchEvents(s)
  <1>1. Dispatched(s, t, X, Y)
    BY DispatchFact
  <1> HIDE DEF t
  <1>2. NotSelected(s, s)
    BY DEF NotSelected, KeepsAudio
  <1>3. NotSelected(s, t)
    BY <1>1, <1>2 DEF Dispatched, Tracks
  <1> QED BY <1>1, <1>3 DEF NotSelected, t

(* As a step. *)
LEMMA DispatchFine ==
    ASSUME NEW s0, NEW s, Live(s, {}, {}), Gained(s.queue) = {},
           s.m.active \in {None, s0.m.active}
    PROVE  Fine(s0, DispatchEvents(s)) /\ DispatchEvents(s).m.active \in {None, s.m.active}
  BY DispatchQuiet DEF Fine, Good, Audio, Dispatched

(* A receiver may be selected, with its audio. *)
LEMMA DispatchTracked ==
    ASSUME NEW s0, NEW s, Live(s, {}, {}), Tracked(s0, s)
    PROVE  Fine(s0, DispatchEvents(s))
  <1> DEFINE t == DispatchEvents(s)
  <1>1. Dispatched(s, t, {}, {})
    BY DispatchFact
  <1> HIDE DEF t
  <1>2. Tracked(s0, t) /\ Good(t)
    BY <1>1 DEF Dispatched, Tracks, Good
  <1> QED BY <1>2 DEF Fine, Audio, Tracked, NotSelected, Selected, t

(* A squelch that opens: it says so. *)
LEMMA OpensFact ==
    ASSUME NEW s, Good(s), s.failed = None, NEW x \in Rxs, s.rx[x].mute # "ALL",
           NEW l \in LEVELS
    PROVE  LET u == [s EXCEPT !.rx[x] = [@ EXCEPT !.sig = TRUE, !.lev = l]]
               t == SetSquelchOpen(u, x, TRUE)
           IN  Fine(s, DispatchEvents(t))
  <1> DEFINE r == [s.rx[x] EXCEPT !.sig = TRUE, !.lev = l]
             u == [s EXCEPT !.rx[x] = [@ EXCEPT !.sig = TRUE, !.lev = l]]
             t == SetSquelchOpen(u, x, TRUE)
             q == [r EXCEPT !.open = TRUE]
             v == [u EXCEPT !.rx[x].open = TRUE]
             e == [rx |-> x, open |-> TRUE]
  <1>1. Sound(s, {}, {}) /\ s \in Voters /\ s.queue = <<>>
    BY DEF Good, Live
  <1>2. /\ r \in Receivers /\ r.enabled = s.rx[x].enabled /\ r.open = s.rx[x].open
        /\ r.mute = s.rx[x].mute /\ r.want = s.rx[x].want
        /\ r.unflushed = s.rx[x].unflushed
    BY <1>1, RxOf DEF Receivers
  <1>3. /\ u \in Voters /\ u.m = s.m /\ u.tasks = s.tasks /\ u.sql = s.sql
        /\ u.failed = s.failed /\ u.queue = s.queue
        /\ u.rx[x] = r /\ \A y \in Rxs \ {x} : u.rx[y] = s.rx[y]
    BY <1>1, <1>2, RxSet
  <1> HIDE DEF u, r
  <1>4. /\ q \in Receivers /\ q.enabled = r.enabled /\ q.open
        /\ q.mute = r.mute /\ q.want = r.want /\ q.unflushed = r.unflushed
    BY <1>2 DEF Receivers
  <1>5. /\ v \in Voters /\ v.m = u.m /\ v.tasks = u.tasks /\ v.sql = u.sql
        /\ v.failed = u.failed /\ v.queue = u.queue
        /\ v.rx[x] = q /\ \A y \in Rxs \ {x} : v.rx[y] = u.rx[y]
    <2>1. v = [u EXCEPT !.rx[x] = q]
      BY <1>3
    <2> HIDE DEF v, q
    <2> QED BY <1>3, <1>4, <2>1, RxSet
  <1>6. e \in Events /\ e.open /\ e.rx = x
    BY DEF Events
  <1>7. t = IF r.open = TRUE THEN u
            ELSE IF q.enabled THEN [v EXCEPT !.queue = Append(@, e)] ELSE v
    BY <1>3, <1>5 DEF SetSquelchOpen, SatSquelchOpen
  <1> HIDE DEF v, q, t
  <1>8. /\ t \in Voters /\ t.m = s.m /\ t.tasks = s.tasks /\ t.sql = s.sql
        /\ t.failed = s.failed /\ \A y \in Rxs \ {x} : t.rx[y] = s.rx[y]
        /\ t.rx[x] = IF r.open THEN r ELSE q
        /\ t.queue = IF ~r.open /\ r.enabled THEN Append(<<>>, e) ELSE <<>>
    <2>1. r.open \in BOOLEAN
      BY <1>2 DEF Receivers
    <2>2. CASE r.open = TRUE
      BY <1>1, <1>3, <1>7, <2>2
    <2>3. CASE r.open = FALSE /\ ~q.enabled
      BY <1>1, <1>3, <1>4, <1>5, <1>7, <2>3
    <2>4. CASE r.open = FALSE /\ q.enabled
      <3>1. t = [v EXCEPT !.queue = Append(@, e)]
        BY <1>7, <2>4
      <3> HIDE DEF e
      <3>2. /\ t \in Voters /\ t.m = v.m /\ t.tasks = v.tasks /\ t.sql = v.sql
            /\ t.failed = v.failed /\ t.rx = v.rx /\ t.queue = Append(v.queue, e)
        BY <1>5, <1>6, <3>1, QueueSet
      <3> QED BY <1>1, <1>3, <1>4, <1>5, <2>4, <3>2
    <2> QED BY <2>1, <2>2, <2>3, <2>4
  <1> HIDE DEF e
  <1>9. /\ Lost(t.queue) = {} /\ OnlyFirst(t.queue)
        /\ Gained(t.queue) = IF ~r.open /\ r.enabled THEN {x} ELSE {}
    <2>1. <<>> \in Seq(Events)
      OBVIOUS
    <2>2. /\ Lost(Append(<<>>, e)) = {} /\ OnlyFirst(Append(<<>>, e))
          /\ Gained(Append(<<>>, e)) = {x}
      BY <1>6, <2>1, QueueAppend, QueueEmpty
    <2> QED BY <1>8, <2>2, QueueEmpty
  <1>10. /\ t.rx[x].enabled = s.rx[x].enabled /\ t.rx[x].open
         /\ t.rx[x].mute = s.rx[x].mute /\ t.rx[x].want = s.rx[x].want
         /\ t.rx[x].unflushed = s.rx[x].unflushed
    BY <1>2, <1>4, <1>8
  <1>11. \A y \in Rxs : Fit(s, y) => Fit(t, y)
    BY <1>1, <1>8, <1>10, QueueEmpty DEF Fit, Heard
  <1>12. s.m.best \in Rxs \cup {None} /\ s.m.active \in Rxs \cup {None}
         /\ (s.m.state \in SelectedStates => s.m.active \in Rxs)
         /\ (s.m.state = "SwitchActiveRx" => s.m.switchTo \in Rxs)
    BY <1>1, MachineOf DEF Machines, Sound, MachineOK
  <1>13. BestOK(t, {})
    <2>1. s.m.best = None => \A y \in Rxs : ~Heard(s, y)
      BY <1>1, QueueEmpty DEF Sound, Base, BestOK
    <2>2. \A y \in Rxs : Heard(t, y) /\ ~Heard(s, y) => y \in Gained(t.queue)
      BY <1>2, <1>8, <1>9, <1>10 DEF Heard
    <2> QED BY <1>1, <1>8, <1>11, <1>12, <2>1, <2>2 DEF Sound, Base, BestOK
  <1>14. QueueOK(t)
    BY <1>2, <1>9, <1>10 DEF QueueOK, Fit, Heard
  <1>15. ReceiversOK(t, {})
    <2>1. ReceiversOK(s, {})
      BY <1>1 DEF Sound, Base
    <2> SUFFICES ASSUME NEW y \in Rxs
                 PROVE  /\ Silent(t.rx[y])
                        /\ t.rx[y].enabled => t.rx[y].mute = t.rx[y].want
      BY DEF ReceiversOK
    <2>2. CASE y = x
      BY <1>10, <2>1, <2>2 DEF ReceiversOK, Silent
    <2>3. CASE y # x
      BY <1>8, <2>1, <2>3 DEF ReceiversOK
    <2> QED BY <2>2, <2>3
  <1>16. MachineOK(t) /\ Reported(t)
    BY <1>1, <1>8, SaysSame DEF Sound, MachineOK, Reported
  <1>17. ActiveOK(t)
    BY <1>1, <1>8, <1>11, <1>12 DEF Sound, ActiveOK, SelectedStates
  <1>18. \A y \in Rxs : /\ t.rx[y].want = s.rx[y].want /\ t.rx[y].mute = s.rx[y].mute
                        /\ t.rx[y].enabled = s.rx[y].enabled
                        /\ t.rx[y].unflushed = s.rx[y].unflushed
    BY <1>8, <1>10
  <1>19. WantsOK(t, {})
    BY <1>1, <1>8, <1>12, <1>18 DEF Sound, WantsOK
  <1>20. Live(t, {}, {})
    BY <1>8, <1>13, <1>14, <1>15, <1>16, <1>17, <1>19 DEF Live, Sound, Base
  <1>21. Tracked(s, t)
    BY <1>8, <1>18 DEF Tracked, NotSelected, KeepsAudio
  <1> QED BY <1>20, <1>21, DispatchTracked DEF t, u

(* A receiver that no longer hears a signal, but has audio to flush. *)
LEMMA SigFact ==
    ASSUME NEW s, NEW X, NEW Y, Sound(s, X, Y), NEW x \in Rxs, NEW b \in BOOLEAN, X \subseteq Rxs,
           s.rx[x].sig, ~b
    PROVE  LET t == [s EXCEPT !.rx[x].sig = b] IN
           /\ Sound(t, X, Y) /\ t.m = s.m /\ t.failed = s.failed /\ t.queue = s.queue
  <1> DEFINE r == [s.rx[x] EXCEPT !.sig = b]
             t == [s EXCEPT !.rx[x].sig = b]
  <1>1. s \in Voters /\ Silent(s.rx[x])
    BY DEF Sound, Base, ReceiversOK
  <1>2. /\ r \in Receivers /\ r.enabled = s.rx[x].enabled /\ r.open = s.rx[x].open
        /\ r.mute = s.rx[x].mute /\ r.want = s.rx[x].want /\ r.lev = s.rx[x].lev
        /\ Calms(s.rx[x], r)
    BY <1>1, RxOf DEF Receivers, Calms, Silent, Still
  <1>3. Only(s, t, x) /\ t.rx[x] = r /\ t.queue = s.queue
    <2>1. t = [s EXCEPT !.rx[x] = r]
      OBVIOUS
    <2> HIDE DEF r, t
    <2> QED BY <1>1, <1>2, <2>1, OnlySet, RxSet
  <1> HIDE DEF r, t
  <1> QED BY <1>2, <1>3, OnlySound DEF t

(* A signal level that is updated, of a receiver that is not muted completely. *)
LEMMA LevelFact ==
    ASSUME NEW s, Sound(s, {}, {}), NEW x \in Rxs, NEW l \in LEVELS,
           s.rx[x].sig \/ s.rx[x].mute # "ALL"
    PROVE  LET t == [s EXCEPT !.rx[x].lev = l] IN
           /\ Sound(t, {}, {}) /\ t.m = s.m /\ t.failed = s.failed /\ t.queue = s.queue
           /\ t.rx[x].enabled = s.rx[x].enabled /\ t.rx[x].open = s.rx[x].open
  <1> DEFINE r == [s.rx[x] EXCEPT !.lev = l]
             t == [s EXCEPT !.rx[x].lev = l]
  <1>1. s \in Voters /\ ReceiversOK(s, {})
    BY DEF Sound, Base
  <1>2. /\ r \in Receivers /\ r.enabled = s.rx[x].enabled /\ r.open = s.rx[x].open
        /\ r.mute = s.rx[x].mute /\ r.want = s.rx[x].want /\ r.mute # "ALL"
    BY <1>1, RxOf DEF Receivers, ReceiversOK, Silent, Still
  <1>3. /\ t \in Voters /\ t.m = s.m /\ t.tasks = s.tasks /\ t.sql = s.sql
        /\ t.failed = s.failed /\ t.queue = s.queue
        /\ t.rx[x] = r /\ \A y \in Rxs \ {x} : t.rx[y] = s.rx[y]
    <2>1. t = [s EXCEPT !.rx[x] = r]
      OBVIOUS
    <2> HIDE DEF r, t
    <2> QED BY <1>1, <1>2, <2>1, RxSet
  <1> HIDE DEF r, t
  <1>4. \A y \in Rxs :
            /\ t.rx[y].enabled = s.rx[y].enabled /\ t.rx[y].open = s.rx[y].open
            /\ t.rx[y].mute = s.rx[y].mute /\ t.rx[y].want = s.rx[y].want
            /\ Silent(s.rx[y]) => Silent(t.rx[y])
    BY <1>2, <1>3 DEF Silent
  <1>5. \A y \in Rxs : (Heard(t, y) <=> Heard(s, y)) /\ (Fit(t, y) <=> Fit(s, y))
    BY <1>3, <1>4 DEF Heard, Fit
  <1>6. /\ s.m.best \in Rxs \cup {None} /\ s.m.active \in Rxs \cup {None}
        /\ s.m.switchTo \in Rxs \cup {None}
        /\ s.m.state \in SelectedStates => s.m.active \in Rxs
        /\ s.m.state = "SwitchActiveRx" => s.m.switchTo \in Rxs
    BY <1>1, MachineOf DEF Machines, Sound, MachineOK
  <1>7. Base(t, {}, {})
    <2>1. BestOK(t, {})
      BY <1>3, <1>5, <1>6 DEF Sound, Base, BestOK
    <2>2. QueueOK(t)
      BY <1>3, <1>5 DEF Sound, Base, QueueOK, Gained
    <2>3. ReceiversOK(t, {})
      BY <1>1, <1>4 DEF ReceiversOK
    <2> QED BY <1>3, <2>1, <2>2, <2>3 DEF Base
  <1>8. MachineOK(t) /\ Reported(t)
    BY <1>3, SaysSame DEF Sound, MachineOK, Reported
  <1>9. ActiveOK(t)
    BY <1>3, <1>5, <1>6 DEF Sound, ActiveOK, SelectedStates
  <1>10. WantsOK(t, {})
    BY <1>3, <1>4, <1>6 DEF Sound, WantsOK
  <1> QED BY <1>3, <1>4, <1>7, <1>8, <1>9, <1>10 DEF Sound, t

(* Audio that is kept. *)
LEMMA AudioFact ==
    ASSUME NEW s, NEW X, NEW Y, Sound(s, X, Y), NEW x \in Rxs, X \subseteq Rxs
    PROVE  LET t == Kept(s, x) IN
           /\ Sound(t, X, Y) /\ t.m = s.m /\ t.failed = s.failed /\ t.queue = s.queue
  <1> DEFINE r == [s.rx[x] EXCEPT !.unflushed = TRUE,
                                  !.late = s.rx[x].late /\ ~s.rx[x].valve]
             t == Kept(s, x)
  <1>1. s \in Voters
    BY DEF Sound, Base
  <1>2. /\ r \in Receivers /\ r.enabled = s.rx[x].enabled /\ r.open = s.rx[x].open
        /\ r.mute = s.rx[x].mute /\ r.want = s.rx[x].want
        /\ Calms(s.rx[x], r)
    BY <1>1, RxOf DEF Receivers, Calms, Silent, Still
  <1>3. Only(s, t, x) /\ t.rx[x] = r /\ t.queue = s.queue
    <2>1. t = [s EXCEPT !.rx[x] = r]
      BY DEF Kept
    <2> HIDE DEF r, t
    <2> QED BY <1>1, <1>2, <2>1, OnlySet, RxSet
  <1> HIDE DEF r, t
  <1>4. Calms(s.rx[x], t.rx[x]) /\ t.rx[x].want = s.rx[x].want
        /\ t.rx[x].mute = s.rx[x].mute
    BY <1>2, <1>3
  <1>5. Sound(t, X, Y) /\ t.m = s.m /\ t.failed = s.failed
    BY <1>3, <1>4, OnlySound
  <1> QED BY <1>2, <1>3, <1>5 DEF t

(* A change of one receiver that hears and is muted as before, and what follows. *)
LEMMA HearsFine ==
    ASSUME NEW s0, NEW s, Sound(s, {}, {}), s.queue = <<>>, s.m.active = s0.m.active,
           NEW x \in Rxs, NEW t, Only(s, t, x), Hears(s.rx[x], t.rx[x])
    PROVE  Fine(s0, DispatchEvents(t)) /\ DispatchEvents(t).m.active \in {None, s.m.active}
  <1>1. Calms(s.rx[x], t.rx[x]) /\ t.rx[x].want = s.rx[x].want /\ t.rx[x].mute = s.rx[x].mute
    BY DEF Only, Hears, Calms, Silent, Still
  <1>2. Sound(t, {}, {}) /\ t.m = s.m /\ Gained(t.queue) = Gained(s.queue)
    BY <1>1, OnlySound
  <1>3. Live(t, {}, {}) /\ Gained(t.queue) = {}
    BY <1>2, QueueEmpty DEF Live, Sound, Base
  <1> QED BY <1>2, <1>3, DispatchFine

(* The stream of a receiver is flushed. *)
LEMMA FlushFine ==
    ASSUME NEW s0, NEW s, Sound(s, {}, {}), s.queue = <<>>, s.m.active = s0.m.active,
           NEW x \in Rxs
    PROVE  Fine(s0, DispatchEvents(Flushed(s, x)))
  <1>1. s \in Voters
    BY DEF Sound, Base
  <1> QED BY <1>1, FlushedFact, HearsFine

(* A squelch that closes at once. *)
LEMMA CloseFine ==
    ASSUME NEW s0, NEW s, Sound(s, {}, {}), s.queue = <<>>, s.m.active = s0.m.active,
           NEW x \in Rxs
    PROVE  Fine(s0, DispatchEvents(SetSquelchOpen(s, x, FALSE)))
  <1> DEFINE t == SetSquelchOpen(s, x, FALSE)
  <1>1. s \in Voters
    BY DEF Sound, Base
  <1>2. Only(s, t, x) /\ t.rx[x] = [s.rx[x] EXCEPT !.open = FALSE]
    BY <1>1, SquelchCloses
  <1> HIDE DEF t
  <1>3. Hears(s.rx[x], t.rx[x])
    BY <1>1, <1>2, RxOf DEF Receivers, Hears
  <1> QED BY <1>2, <1>3, HearsFine DEF t

(* An answer of the sinks that was awaited no longer. *)
LEMMA AnswerFine ==
    ASSUME NEW s0, NEW s, Sound(s, {}, {}), s.queue = <<>>, s.m.active = s0.m.active,
           NEW x \in Rxs
    PROVE  Fine(s0, DispatchEvents(Answered(s, x)))
  <1> DEFINE r == [s.rx[x] EXCEPT !.late = FALSE]
             t == [s EXCEPT !.rx[x].late = FALSE]
             c == SetSquelchOpen(t, x, FALSE)
  <1>1. s \in Voters
    BY DEF Sound, Base
  <1>2. /\ r \in Receivers /\ r.enabled = s.rx[x].enabled /\ r.open = s.rx[x].open
        /\ Hears(s.rx[x], r)
    BY <1>1, RxOf DEF Receivers, Hears
  <1>3. Only(s, t, x) /\ Hears(s.rx[x], t.rx[x]) /\ t \in Voters
    <2>1. t = [s EXCEPT !.rx[x] = r]
      OBVIOUS
    <2> HIDE DEF r, t
    <2> QED BY <1>1, <1>2, <2>1, OnlySet DEF Only
  <1>4. Answered(s, x) \in {t, c}
    BY DEF Answered
  <1> HIDE DEF t
  <1>5. Only(t, c, x) /\ c.rx[x] = [t.rx[x] EXCEPT !.open = FALSE]
    BY <1>3, SquelchCloses
  <1> HIDE DEF c
  <1>6. Hears(t.rx[x], c.rx[x])
    BY <1>3, <1>5, RxOf DEF Receivers, Hears
  <1>7. Only(s, c, x) /\ Hears(s.rx[x], c.rx[x])
    BY <1>1, <1>3, <1>5, <1>6, OnlyTwice DEF Hears
  <1> DEFINE a == Answered(s, x)
  <1>8. Only(s, a, x) /\ Hears(s.rx[x], a.rx[x])
    BY <1>3, <1>4, <1>7
  <1> HIDE DEF a
  <1>9. Fine(s0, DispatchEvents(a))
    BY <1>8, HearsFine
  <1> QED BY <1>9 DEF a

(* A state that is sound, and selects no other receiver, is a step. *)
LEMMA SoundFine ==
    ASSUME NEW s0, NEW s, Sound(s, {}, {}), s.queue = <<>>, s.m.active \in {None, s0.m.active}
    PROVE  Fine(s0, s)
  BY DEF Fine, Good, Live, Audio, Sound, Base

(* SatRx::signalLevelUpdated. *)
LEMMA SignalLevelFine ==
    ASSUME NEW s0, NEW s, Sound(s, {}, {}), s.queue = <<>>, s.m.active = s0.m.active,
           NEW x \in Rxs, s.rx[x].open, s.rx[x].enabled
    PROVE  Fine(s0, HandleSignalLevel(s, x))
  <1> DEFINE f == Fails(s, "bestSrx() != 0")
             b == [s EXCEPT !.m.best = x]
  <1>1. s \in Voters /\ x # None
    BY VoterAssumption DEF Sound, Base
  <1>2. f \in Voters /\ f.m = s.m /\ f.failed # None
    BY <1>1, FailsSet DEF Assertions
  <1>3. OnlyMachine(s, b) /\ MachineBut(s, b, {"best"}) /\ b.m.best = x
    BY <1>1, BestSet
  <1>4. HandleSignalLevel(s, x) \in {f, b, s}
    BY DEF HandleSignalLevel
  <1> HIDE DEF f, b
  <1>5. Fine(s0, f)
    BY <1>2 DEF Fine, Good, Live, Audio
  <1>6. Sound(b, {}, {})
    <2>1. BestOK(b, {})
      BY <1>1, <1>3 DEF OnlyMachine, BestOK, Fit, Heard
    <2>2. QueueOK(b) /\ ReceiversOK(b, {})
      BY <1>3 DEF OnlyMachine, Sound, Base, QueueOK, ReceiversOK, Fit, Heard
    <2>3. MachineOK(b) /\ Reported(b)
      BY <1>3, SaysSame DEF OnlyMachine, MachineBut, Sound, MachineOK, Reported
    <2>4. ActiveOK(b) /\ WantsOK(b, {})
      BY <1>3 DEF OnlyMachine, MachineBut, Sound, ActiveOK, WantsOK, Fit, Heard
    <2> QED BY <1>3, <2>1, <2>2, <2>3, <2>4 DEF OnlyMachine, Sound, Base
  <1>7. Fine(s0, b)
    BY <1>3, <1>6, SoundFine DEF OnlyMachine, MachineBut
  <1> QED BY <1>4, <1>5, <1>7, SoundFine

----------------------------------------------------------------------------
(***************************************************************************)
(* The deferred tasks run.                                                 *)
(***************************************************************************)
(* The first task. *)
LEMMA RunFirstFact ==
    ASSUME NEW s, Good(s)
    PROVE  LET t == RunFirst(s) IN Good(t) /\ t.m.active \in {None, s.m.active}
  <1> DEFINE k == Head(s.tasks)
             p == Tail(s.tasks)
             u == [s EXCEPT !.tasks = Tail(@)]
             v == [u EXCEPT !.sql = k.sql]
             w == StopOutput(u, k.stopped, k.by)
             t == RunFirst(s)
  <1>1. CASE s.tasks = <<>> \/ s.failed # None
    <2>1. t = s
      BY <1>1 DEF RunFirst
    <2> QED BY <2>1
  <1>2. CASE s.tasks # <<>> /\ s.failed = None
    <2>1. Sound(s, {}, {}) /\ s \in Voters /\ s.queue = <<>> /\ s.tasks \in Seq(Tasks)
      BY <1>2 DEF Good, Live, Voters
    <2>2. p \in Seq(Tasks) /\ k \in Tasks
      BY <1>2, <2>1, HeadTailProperties
    <2>3. t = IF k \in Reports THEN v ELSE DispatchEvents(w)
      BY <1>2 DEF RunFirst
    <2>4. /\ u \in Voters /\ u.m = s.m /\ u.rx = s.rx /\ u.tasks = p /\ u.sql = s.sql
          /\ u.failed = s.failed /\ u.queue = s.queue
      <3> HIDE DEF p
      <3>1. u = [s EXCEPT !.tasks = p]
        BY DEF p
      <3> QED BY <2>1, <2>2, <3>1 DEF Voters
    <2> HIDE DEF t, u, k
    <2>5. ASSUME NEW z \in Voters, z.m = s.m, z.rx = s.rx, z.tasks = p, z.failed = s.failed,
                 z.queue = s.queue, z.sql = IF k \in Reports THEN k.sql ELSE s.sql
          PROVE  Sound(z, {}, {})
      <3>1. (SaysOpen(s) => SaysOpen(z)) /\ (SaysClosed(s) => SaysClosed(z))
        BY <1>2, <2>1, <2>5, TaskRuns DEF k
      <3>2. Reported(z)
        BY <2>1, <2>5, <3>1 DEF Sound, Reported
      <3>3. Base(z, {}, {})
        BY <2>1, <2>5
           DEF Sound, Base, BestOK, QueueOK, ReceiversOK, Fit, Heard
      <3>4. MachineOK(z) /\ ActiveOK(z) /\ WantsOK(z, {})
        BY <2>1, <2>5 DEF Sound, MachineOK, ActiveOK, WantsOK, Fit, Heard
      <3> QED BY <3>2, <3>3, <3>4 DEF Sound
    <2>6. CASE k \in Reports
      <3>1. k.sql \in BOOLEAN
        BY <2>6 DEF Reports
      <3>2. /\ v \in Voters /\ v.m = u.m /\ v.rx = u.rx /\ v.tasks = u.tasks
            /\ v.sql = k.sql /\ v.failed = u.failed /\ v.queue = u.queue
        BY <2>4, <3>1 DEF Voters
      <3> HIDE DEF v
      <3>3. Sound(v, {}, {})
        BY <2>4, <2>5, <2>6, <3>2
      <3> QED BY <2>1, <2>3, <2>4, <2>6, <3>2, <3>3 DEF Good, Live, t
    <2>7. CASE k \notin Reports
      <3>1. k.stopped \in Rxs /\ k.by \in BOOLEAN
        BY <2>2, <2>7 DEF Tasks
      <3>2. Sound(u, {}, {})
        BY <2>4, <2>5, <2>7
      <3>3. Only(u, w, k.stopped) /\ Hears(u.rx[k.stopped], w.rx[k.stopped])
        BY <2>4, <3>1, StopOutputFact
      <3> HIDE DEF w
      <3>4. /\ Fine(s, DispatchEvents(w))
            /\ DispatchEvents(w).m.active \in {None, u.m.active}
        BY <2>1, <2>4, <3>1, <3>2, <3>3, HearsFine
      <3> QED BY <2>3, <2>4, <2>7, <3>4 DEF Fine, t
    <2> QED BY <2>6, <2>7
  <1> QED BY <1>1, <1>2

(* What RunAll does, one task after the other. *)
LEMMA RunLoop ==
    ASSUME NEW s, Good(s)
    PROVE  LET n == Len(s.tasks) + Len(RXS) IN
           /\ n \in Nat
           /\ \E f : /\ RunAll(s) = f[n] /\ f[0] = s
                     /\ \A i \in 1 .. n : f[i] = RunFirst(f[i - 1])
  <1> DEFINE n == Len(s.tasks) + Len(RXS)
             S == {v \in Voters : Good(v)}
             F == [i \in 1 .. n |-> [v \in S |-> RunFirst(v)]]
             g == CHOOSE after :
                    after = [i \in 0 .. n |-> IF i = 0 THEN s ELSE RunFirst(after[i - 1])]
  <1>1. n \in Nat /\ s \in S
    <2>1. s \in Voters
      BY DEF Good, Live
    <2>2. Len(s.tasks) \in Nat
      BY <2>1, LenProperties DEF Voters
    <2> QED BY <2>1, <2>2, FewReceivers
  <1>2. \A v \in S : RunFirst(v) \in S
    BY RunFirstFact DEF Good, Live
  <1>3. \E f : f = [i \in 0 .. n |-> IF i = 0 THEN s ELSE RunFirst(f[i - 1])]
    <2> HIDE DEF n, S
    <2>1. \A i \in 1 .. n : \A v \in S : F[i][v] = RunFirst(v)
      OBVIOUS
    <2> HIDE DEF F
    <2>2. LoopIn(S, n, F)
      BY <1>2, <2>1 DEF LoopIn
    <2>3. PICK f : Runs(f, s, S, n, F)
      BY <1>1, <2>2, Loop
    <2>4. f \in [0 .. n -> S] /\ f[0] = s /\ \A i \in 1 .. n : f[i] = F[i][f[i - 1]]
      BY <2>3 DEF Runs
    <2>5. \A i \in 0 .. n : i # 0 => i \in 1 .. n /\ i - 1 \in 0 .. n
      BY <1>1
    <2>6. \A i \in 0 .. n : f[i] = IF i = 0 THEN s ELSE RunFirst(f[i - 1])
      BY <2>1, <2>4, <2>5
    <2>7. f = [i \in 0 .. n |-> f[i]]
      BY <2>4
    <2> QED BY <2>6, <2>7
  <1>4. RunAll(s) = g[n]
    BY DEF RunAll
  <1>5. g = [i \in 0 .. n |-> IF i = 0 THEN s ELSE RunFirst(g[i - 1])]
    <2> HIDE DEF n
    <2> QED BY <1>3
  <1> HIDE DEF g
  <1>6. g[0] = s /\ \A i \in 1 .. n : g[i] = RunFirst(g[i - 1])
    <2> HIDE DEF n
    <2>1. 0 \in 0 .. n /\ \A i \in 1 .. n : i \in 0 .. n /\ i # 0
      BY <1>1
    <2> QED BY <1>5, <2>1
  <1> QED BY <1>1, <1>4, <1>6

(* All tasks. *)
LEMMA RunAllFine ==
    ASSUME NEW s, Good(s)
    PROVE  Fine(s, RunAll(s))
  <1> DEFINE n == Len(s.tasks) + Len(RXS)
             Ran(t) == Good(t) /\ t.m.active \in {None, s.m.active}
  <1>1. PICK f : /\ RunAll(s) = f[n] /\ f[0] = s
                 /\ \A i \in 1 .. n : f[i] = RunFirst(f[i - 1])
    BY RunLoop
  <1>2. n \in Nat
    BY RunLoop
  <1> HIDE DEF n
  <1>3. Ran(f[0])
    BY <1>1
  <1>4. ASSUME NEW k \in 0 .. n - 1, Ran(f[k]) PROVE Ran(f[k + 1])
    <2>1. k + 1 \in 1 .. n /\ (k + 1) - 1 = k
      BY <1>2
    <2>2. f[k + 1] = RunFirst(f[k])
      BY <1>1, <2>1
    <2> QED BY <1>4, <2>2, RunFirstFact
  <1> HIDE DEF Ran
  <1>5. Ran(f[n])
    <2> DEFINE T == {k \in 0 .. n : Ran(f[k])}
    <2>1. 0 \in T /\ \A k \in 0 .. n - 1 : k \in T => k + 1 \in T
      BY <1>2, <1>3, <1>4
    <2> HIDE DEF T
    <2>2. n \in T
      BY <1>2, <2>1, InductUpTo
    <2> QED BY <2>2 DEF T
  <1> QED BY <1>1, <1>5 DEF Ran, Fine, Audio

----------------------------------------------------------------------------
(***************************************************************************)
(* The timer of the state machine expires.                                 *)
(***************************************************************************)
(* The timer does not run any more, or again. *)
LEMMA TimerSound ==
    ASSUME NEW s, Sound(s, {}, {}), NEW b \in BOOLEAN, b => s.m.state \in Timed
    PROVE  LET t == [s EXCEPT !.m.timer = b] IN
           /\ Sound(t, {}, {}) /\ t.rx = s.rx /\ t.queue = s.queue /\ t.failed = s.failed
           /\ MachineBut(s, t, {"timer"})
  <1> DEFINE t == [s EXCEPT !.m.timer = b]
  <1>1. s \in Voters
    BY DEF Sound, Base
  <1>2. OnlyMachine(s, t) /\ MachineBut(s, t, {"timer"}) /\ t.m.timer = b
    BY <1>1, TimerSet
  <1> HIDE DEF t
  <1>3. Base(t, {}, {})
    BY <1>2 DEF OnlyMachine, MachineBut, Sound, Base, BestOK, QueueOK, ReceiversOK, Fit, Heard
  <1>4. MachineOK(t) /\ Reported(t)
    BY <1>2, SaysSame DEF OnlyMachine, MachineBut, Sound, MachineOK, Reported
  <1>5. ActiveOK(t) /\ WantsOK(t, {})
    BY <1>2 DEF OnlyMachine, MachineBut, Sound, ActiveOK, WantsOK, Fit, Heard
  <1> QED BY <1>2, <1>3, <1>4, <1>5 DEF OnlyMachine, Sound, t

(* A receiver that is better than another one hears something. *)
LEMMA BeatsFact ==
    ASSUME NEW s \in Voters, NEW x \in Rxs, NEW y \in Rxs, Beats(s, x, y), Silent(s.rx[x])
    PROVE  s.rx[x].mute # "ALL"
  <1>1. s.rx[x].lev \in Nat /\ s.rx[y].lev \in Nat /\ HYSTERESIS \in Nat
    <2>1. s.rx[x].lev \in LEVELS \cup {0} /\ s.rx[y].lev \in LEVELS \cup {0}
      BY RxOf DEF Receivers
    <2>2. \A l \in LEVELS \cup {0} : l \in Nat
      BY VoterAssumption
    <2>3. HYSTERESIS \in Nat
      BY VoterAssumption
    <2> QED BY <2>1, <2>2, <2>3
  <1>2. \A a \in Nat, b \in Nat : a * b >= 0
    OBVIOUS
  <1>3. s.rx[y].lev * HYSTERESIS >= 0 /\ s.rx[y].lev * HYSTERESIS \in Int
    BY <1>1, <1>2
  <1>4. s.rx[x].lev * 100 > s.rx[y].lev * HYSTERESIS
    BY DEF Beats
  <1>5. s.rx[x].lev # 0
    BY <1>1, <1>3, <1>4
  <1> QED BY <1>5 DEF Silent, Still

(* ActiveRxSelected::changeActiveSrx *)
LEMMA ChangeActiveFact ==
    ASSUME NEW s \in Voters, s.m.active \in Rxs, NEW x \in Rxs
    PROVE  LET t == ChangeActiveSrx(s, x) IN
           /\ Calm(s, t) /\ t.tasks = s.tasks /\ t.sql = s.sql /\ t.failed = s.failed
           /\ MachineBut(s, t, {"active"}) /\ t.m.active = x
           /\ t.m.mute = "NONE" => t.rx[x].want = "NONE"
           /\ x # s.m.active /\ t.m.mute = "NONE" =>
                t.rx[x].unflushed = s.rx[x].unflushed
  <1> DEFINE u == SatSetMuteState(s, s.m.active, "CONTENT")
             v == [u EXCEPT !.m.active = x]
             w == SatSetMuteState(v, x, "NONE")
             t == ChangeActiveSrx(s, x)
  <1>1. /\ Calm(s, u) /\ SameControl(s, u)
        /\ \A y \in Rxs \ {s.m.active} : u.rx[y] = s.rx[y]
    BY SatSetCalm DEF MuteStates
  <1>2. t = IF v.m.mute = "NONE" THEN w ELSE v
    BY DEF ChangeActiveSrx
  <1> HIDE DEF u, t
  <1>3. OnlyMachine(u, v) /\ MachineBut(u, v, {"active"}) /\ v.m.active = x
    BY <1>1, ActiveSet DEF Calm
  <1> HIDE DEF v
  <1>4. v \in Voters /\ Calm(s, v)
    BY <1>1, <1>3, OnlyMachineCalm, CalmTwice DEF OnlyMachine
  <1>5. /\ Calm(v, w) /\ SameControl(v, w) /\ w.rx[x].want = "NONE"
        /\ w.rx[x].unflushed = v.rx[x].unflushed
    BY <1>4, SatSetCalm DEF MuteStates
  <1> HIDE DEF w
  <1>6. Calm(s, w)
    BY <1>4, <1>5, CalmTwice
  <1>7. /\ Calm(s, t) /\ t.m = v.m /\ t.tasks = v.tasks /\ t.sql = v.sql /\ t.failed = v.failed
        /\ t.m.mute = "NONE" => t.rx[x].want = "NONE" /\ t.rx[x].unflushed = v.rx[x].unflushed
    BY <1>2, <1>4, <1>5, <1>6 DEF SameControl
  <1> QED BY <1>1, <1>3, <1>7 DEF SameControl, OnlyMachine, MachineBut, t

\* What handling an event leads to, before the events that it queued are dispatched.
Handled(s, t) == Live(t, {}, {}) /\ Tracked(s, t)

\* A state in which the program runs and no event waits.
Rests(s) == Sound(s, {}, {}) /\ s.failed = None /\ s.queue = <<>>

(* In such a state the best receiver is heard. *)
LEMMA RestsFact ==
    ASSUME NEW s, Rests(s)
    PROVE  /\ s \in Voters /\ Base(s, {}, {}) /\ MachineOK(s) /\ Reported(s)
           /\ ActiveOK(s) /\ WantsOK(s, {})
           /\ Gained(s.queue) = {}
           /\ s.m.best = None => \A x \in Rxs : ~Heard(s, x)
           /\ s.m.best # None => s.m.best \in Rxs /\ Heard(s, s.m.best) /\ Fit(s, s.m.best)
           /\ s.m.state \in SelectedStates => s.m.active \in Rxs
           /\ s.m.state \in SquelchOpenStates => Heard(s, s.m.active) /\ Fit(s, s.m.active)
           /\ s.m.state = "SwitchActiveRx" => s.m.switchTo \in Rxs
  <1>1. s \in Voters /\ s.m \in Machines
    BY MachineOf DEF Rests, Sound, Base
  <1> QED BY <1>1, QueueEmpty DEF Rests, Sound, Base, BestOK, MachineOK, ActiveOK, Fit, Machines

(* An assertion that fails ends the program. *)
LEMMA FailsHandled ==
    ASSUME NEW s \in Voters, NEW a \in Assertions
    PROVE  Handled(s, Fails(s, a))
  <1> DEFINE t == Fails(s, a)
  <1>1. t \in Voters /\ t.m = s.m /\ t.rx = s.rx /\ t.failed # None
    BY FailsSet
  <1> HIDE DEF t
  <1> QED BY <1>1 DEF Handled, Live, Tracked, NotSelected, KeepsAudio, t

(* A receiver is selected. *)
LEMMA EnteredSelected ==
    ASSUME NEW s, Rests(s), NEW t, Enters(s, t, {}, {}), t.m.active \in Rxs,
           t.m.state = "Receiving",
           t.m.mute = "NONE" => t.rx[t.m.active].unflushed = s.rx[t.m.active].unflushed
    PROVE  Handled(s, t)
  <1>1. /\ Sound(t, {}, {}) /\ t \in Voters /\ Gained(t.queue) = {} /\ t.m.switchTo = None
    BY RestsFact DEF Enters, Calm, Sound, MachineOK
  <1>2. Selected(s, t)
    BY <1>1 DEF Selected
  <1> QED BY <1>1, <1>2 DEF Handled, Live, Tracked

(* No other receiver is selected. *)
LEMMA EnteredNone ==
    ASSUME NEW s, NEW t, Sound(t, {}, {}), t.m.active \in {None, s.m.active},
           t.m.state \in {"Idle", "VotingDelay"} /\ t.m.mute = "NONE" => KeepsAudio(s, t)
    PROVE  Handled(s, t)
  BY DEF Handled, Live, Sound, Base, Tracked, NotSelected

(* VotingDelay *)
LEMMA VotingDelayFact ==
    ASSUME NEW s, Rests(s), s.m.state = "VotingDelay"
    PROVE  Handled(s, VotingDelayExpired(s))
  <1> DEFINE t == EnterActiveRxSelected(s, s.m.best)
  <1>1. s \in Voters /\ s.m.switchTo = None
    BY RestsFact DEF MachineOK
  <1>2. Handled(s, Fails(s, "bestSrx()"))
    BY <1>1, FailsHandled DEF Assertions
  <1>3. ASSUME s.m.best # None PROVE Handled(s, t)
    <2>1. Base(s, {}, {}) /\ s.m.best \in Rxs /\ Fit(s, s.m.best)
      BY <1>3, RestsFact
    <2>2. /\ Enters(s, t, {}, {}) /\ t.m.active = s.m.best /\ t.m.state = "Receiving"
          /\ t.m.mute = "NONE" => t.rx[s.m.best].unflushed = s.rx[s.m.best].unflushed
      BY <1>1, <2>1, EnterSelectedFact
    <2> HIDE DEF t
    <2> QED BY <2>1, <2>2, EnteredSelected
  <1> QED BY <1>2, <1>3 DEF VotingDelayExpired

(* SqlCloseWait *)
LEMMA SqlCloseWaitFact ==
    ASSUME NEW s, Rests(s), s.m.state = "SqlCloseWait"
    PROVE  Handled(s, SqlCloseWaitExpired(s))
  <1> DEFINE b == s.m.best
             i == EnterIdle(s)
             u == ChangeActiveSrx(s, b)
             t == EnterSquelchOpen(u)
  <1>1. /\ s \in Voters /\ s.m.switchTo = None /\ s.m.active \in Rxs /\ Base(s, {}, {})
        /\ MachineOK(s) /\ Reported(s)
    BY RestsFact DEF MachineOK, SelectedStates
  <1>2. ASSUME b = None PROVE Handled(s, i)
    <2>1. Enters(s, i, {}, {}) /\ i.m.active = None /\ KeepsAudio(s, i)
      BY <1>1, EnterIdleFact
    <2> HIDE DEF i
    <2> QED BY <2>1, EnteredNone DEF Enters
  <1>3. ASSUME b # None PROVE Handled(s, t)
    <2>1. b \in Rxs /\ Fit(s, b)
      BY <1>3, RestsFact
    <2> HIDE DEF b
    <2>2. /\ Calm(s, u) /\ u.failed = s.failed
          /\ MachineBut(s, u, {"active"}) /\ u.m.active = b
          /\ u.m.mute = "NONE" => u.rx[b].want = "NONE"
          /\ b # s.m.active /\ u.m.mute = "NONE" => u.rx[b].unflushed = s.rx[b].unflushed
      BY <1>1, <2>1, ChangeActiveFact
    <2> HIDE DEF u
    <2>3. Base(u, {}, {}) /\ Fit(u, b)
      BY <1>1, <2>1, <2>2, CalmBase, CalmFit DEF MachineBut
    <2>4. u.m.switchTo = None
      BY <1>1, <2>2 DEF MachineBut
    <2>5. /\ Enters(u, t, {}, {}) /\ t.m.active = b /\ t.m.state = "Receiving"
          /\ t.rx = u.rx
      BY <2>1, <2>2, <2>3, <2>4, EnterSquelchOpenFact
    <2> HIDE DEF t
    <2>6. Calm(s, t) /\ t.m.best = s.m.best /\ t.m.mute = s.m.mute /\ t.failed = s.failed
          /\ Sound(t, {}, {}) /\ u.m.mute = t.m.mute
      BY <1>1, <2>2, <2>5, CalmTwice DEF Enters, MachineBut
    <2>7. CASE b = s.m.active
      BY <2>5, <2>6, <2>7, EnteredNone
    <2>8. CASE b # s.m.active
      <3>1. Enters(s, t, {}, {})
        BY <2>6 DEF Enters
      <3>2. t.m.mute = "NONE" => t.rx[b].unflushed = s.rx[b].unflushed
        BY <2>2, <2>5, <2>6, <2>8
      <3> QED BY <2>1, <2>5, <3>1, <3>2, EnteredSelected
    <2> QED BY <2>7, <2>8
  <1> QED BY <1>2, <1>3 DEF SqlCloseWaitExpired

(* Receiving *)
LEMMA ReceivingFact ==
    ASSUME NEW s, Rests(s), s.m.state = "Receiving"
    PROVE  Handled(s, ReceivingExpired(s))
  <1> DEFINE b == s.m.best
             t == EnterSwitchActiveRx(s, b)
             u == StartTimer(s)
  <1>1. /\ s \in Voters /\ s.m.active \in Rxs /\ s.m.active # None
    BY RestsFact, VoterAssumption DEF SelectedStates, SquelchOpenStates
  <1>2. ASSUME b \notin {None, s.m.active} PROVE Handled(s, t)
    <2>1. b \in Rxs /\ s.rx[b].enabled /\ b # s.m.active
      BY <1>2, RestsFact DEF Heard
    <2> HIDE DEF b
    <2>2. Sound(s, {}, {})
      BY DEF Rests
    <2>3. Enters(s, t, {}, {}) /\ t.m.active = s.m.active
      BY <2>1, <2>2, EnterSwitchFact
    <2> HIDE DEF t
    <2>4. t.m.state \in SelectedStates
      BY <1>1, <2>3 DEF Enters, Sound, MachineOK
    <2> QED BY <2>3, <2>4, EnteredNone DEF Enters, SelectedStates, SquelchOpenStates
  <1>3. Handled(s, u)
    <2>1. Sound(u, {}, {}) /\ MachineBut(s, u, {"timer"})
      BY TimerSound DEF Rests, Timed, SelectedStates, SquelchOpenStates, StartTimer
    <2> HIDE DEF u
    <2> QED BY <2>1, EnteredNone DEF MachineBut
  <1> QED BY <1>2, <1>3 DEF ReceivingExpired

(* SwitchActiveRx *)
LEMMA SwitchFact ==
    ASSUME NEW s, Rests(s), s.m.state = "SwitchActiveRx"
    PROVE  Handled(s, SwitchActiveRxExpired(s))
  <1> DEFINE a == s.m.active
             b == s.m.switchTo
             k == [stopped |-> a, by |-> TRUE]
             l == [stopped |-> b, by |-> FALSE]
             u == RunTask(s, k)
             v == ChangeActiveSrx(u, b)
             w == RunTask(v, l)
             z == [w EXCEPT !.m.switchTo = None]
             t == EnterReceiving(z)
             r == EnterReceiving(s)
  <1>1. /\ s \in Voters /\ a \in Rxs /\ b \in Rxs /\ a # b /\ Base(s, {}, {})
        /\ SaysOpen(s) /\ Fit(s, a) /\ b # None /\ a # None
        /\ s.m.mute = "NONE" => s.rx[a].want = "NONE"
        /\ ~s.rx[b].enabled => s.rx[b].mute = "ALL"
    BY RestsFact, VoterAssumption
       DEF MachineOK, WantsOK, Reported, SelectedStates, SquelchOpenStates
  <1>2. Handled(s, Fails(s, "switch_to_srx != activeSrx()"))
    BY <1>1, FailsHandled DEF Assertions
  <1>3. Handled(s, r)
    <2>1. Enters(s, r, {}, {}) /\ r.m.active = s.m.active /\ r.m.state = "Receiving"
      BY <1>1, EnterReceivingFact
    <2> HIDE DEF r
    <2> QED BY <2>1, EnteredNone DEF Enters
  <1>4. ASSUME s.rx[b].open, Beats(s, b, a) PROVE Handled(s, t)
    <2>1. Fit(s, b)
      <3>1. s.rx[b].mute # "ALL"
        BY <1>1, <1>4, BeatsFact DEF Base, ReceiversOK
      <3> QED BY <1>1, <1>4, <3>1 DEF Fit, Heard
    <2>2. k \in Tasks /\ k \notin Reports /\ l \in Tasks /\ l \notin Reports
      BY <1>1, ReportTasks
    <2> HIDE DEF k, l
    <2>3. /\ u \in Voters /\ u.m = s.m /\ u.rx = s.rx /\ u.tasks = Append(s.tasks, k)
          /\ u.sql = s.sql /\ u.failed = s.failed /\ u.queue = s.queue
      BY <1>1, <2>2, TaskSet
    <2>4. SaysOpen(u) /\ Calm(s, u)
      BY <1>1, <2>2, <2>3, OtherAppended, CalmSame
    <2> HIDE DEF u
    <2>5. /\ Calm(u, v) /\ v.tasks = u.tasks /\ v.sql = u.sql /\ v.failed = u.failed
          /\ MachineBut(u, v, {"active"}) /\ v.m.active = b
          /\ v.m.mute = "NONE" => v.rx[b].want = "NONE"
          /\ v.m.mute = "NONE" => v.rx[b].unflushed = u.rx[b].unflushed
      BY <1>1, <2>3, ChangeActiveFact
    <2> HIDE DEF v
    <2>6. v \in Voters /\ SaysOpen(v) /\ Calm(s, v)
      BY <1>1, <2>3, <2>4, <2>5, SaysSame, CalmTwice DEF Calm
    <2>7. /\ w \in Voters /\ w.m = v.m /\ w.rx = v.rx /\ w.tasks = Append(v.tasks, l)
          /\ w.sql = v.sql /\ w.failed = v.failed /\ w.queue = v.queue
      BY <2>2, <2>6, TaskSet
    <2>8. SaysOpen(w) /\ Calm(s, w)
      BY <1>1, <2>2, <2>6, <2>7, OtherAppended, CalmSame, CalmTwice
    <2> HIDE DEF w
    <2>9. OnlyMachine(w, z) /\ MachineBut(w, z, {"switchTo"}) /\ z.m.switchTo = None
      BY <2>7, SwitchToSet
    <2>10. ChangeActiveSrxOpen(s, b) = w /\ z \in Voters
      BY <2>9 DEF ChangeActiveSrxOpen, u, v, w, k, l, OnlyMachine
    <2> HIDE DEF z
    <2>11. SaysOpen(z) /\ Calm(s, z)
      BY <1>1, <2>8, <2>9, OnlyMachineCalm, CalmTwice
    <2>12. /\ z.m.active = b /\ z.m.best = s.m.best /\ z.m.mute = s.m.mute
           /\ z.rx = v.rx /\ z.failed = s.failed /\ z.m.mute = v.m.mute
      BY <2>3, <2>5, <2>7, <2>9 DEF MachineBut, OnlyMachine
    <2>13. Base(z, {}, {}) /\ Fit(z, b)
      BY <1>1, <2>1, <2>11, <2>12, CalmBase, CalmFit
    <2>14. /\ Enters(z, t, {}, {}) /\ t.m.active = b /\ t.m.state = "Receiving"
           /\ t.rx = z.rx
      BY <1>1, <2>5, <2>9, <2>11, <2>12, <2>13, EnterReceivingFact
    <2> HIDE DEF t
    <2>15. Enters(s, t, {}, {})
      BY <1>1, <2>11, <2>12, <2>14, CalmTwice DEF Enters
    <2>16. t.m.mute = "NONE" => t.rx[b].unflushed = s.rx[b].unflushed
      BY <2>3, <2>5, <2>12, <2>14 DEF Enters
    <2> QED BY <1>1, <2>14, <2>15, <2>16, EnteredSelected
  <1>5. SwitchActiveRxExpired(s) \in {Fails(s, "switch_to_srx != activeSrx()"), r}
        \/ (s.rx[b].open /\ Beats(s, b, a) /\ SwitchActiveRxExpired(s) = t)
    BY DEF SwitchActiveRxExpired, ChangeActiveSrxOpen
  <1> HIDE DEF t, r
  <1> QED BY <1>2, <1>3, <1>4, <1>5

(* The timer expires. *)
LEMMA TimerFine ==
    ASSUME NEW s, Rests(s), s.m.timer
    PROVE  Fine(s, DispatchEvents(HandleTimer([s EXCEPT !.m.timer = FALSE])))
  <1> DEFINE u == [s EXCEPT !.m.timer = FALSE]
             t == HandleTimer(u)
  <1>1. /\ Sound(u, {}, {}) /\ u.rx = s.rx /\ u.queue = s.queue /\ u.failed = s.failed
        /\ MachineBut(s, u, {"timer"})
    BY TimerSound DEF Rests
  <1>2. s.m.state \in Timed
    BY RestsFact DEF MachineOK
  <1> HIDE DEF u
  <1>3. Rests(u) /\ u.m.state \in Timed /\ u.m.active = s.m.active
    BY <1>1, <1>2 DEF Rests, MachineBut
  <1>4. Handled(u, t)
    BY <1>3, VotingDelayFact, SqlCloseWaitFact, ReceivingFact, SwitchFact
       DEF HandleTimer, Timed, SelectedStates, SquelchOpenStates
  <1> HIDE DEF t
  <1>5. Fine(u, DispatchEvents(t))
    BY <1>4, DispatchTracked DEF Handled
  <1> QED BY <1>1, <1>3, <1>5 DEF Fine, Audio, t, u

----------------------------------------------------------------------------
(***************************************************************************)
(* The voter is muted, unmuted and reset.                                  *)
(***************************************************************************)
(* What follows from a state with the same receivers follows from this one. *)
LEMMA HandledSame ==
    ASSUME NEW s, NEW u, NEW t, Handled(u, t), u.rx = s.rx, u.m.active = s.m.active
    PROVE  Handled(s, t)
  BY DEF Handled, Tracked, NotSelected, Selected, KeepsAudio

(* The mute state of the voter changes, and the receivers are told. *)
LEMMA ToldSound ==
    ASSUME NEW s, Rests(s), NEW t, Calm(s, t), t.tasks = s.tasks, t.sql = s.sql,
           t.failed = s.failed, MachineBut(s, t, {"mute"}), WantsOK(t, {})
    PROVE  Sound(t, {}, {})
  <1>1. /\ s \in Voters /\ Base(s, {}, {}) /\ MachineOK(s) /\ Reported(s)
        /\ s.m.state \in SquelchOpenStates => s.m.active \in Rxs /\ Fit(s, s.m.active)
    BY RestsFact DEF SelectedStates
  <1>2. Base(t, {}, {})
    BY <1>1, CalmBase DEF MachineBut
  <1>3. MachineOK(t) /\ Reported(t)
    BY <1>1, SaysSame DEF MachineBut, MachineOK, Reported
  <1>4. ActiveOK(t)
    BY <1>1, CalmFit DEF MachineBut, ActiveOK
  <1> QED BY <1>2, <1>3, <1>4 DEF Sound

(* The mute state of the voter alone. *)
LEMMA MuteStateFact ==
    ASSUME NEW s, Rests(s), NEW mute \in MuteStates
    PROVE  LET t == [s EXCEPT !.m.mute = mute] IN
           /\ OnlyMachine(s, t) /\ MachineBut(s, t, {"mute"}) /\ t.m.mute = mute
           /\ Calm(s, t)
           /\ Base(t, {}, {}) /\ MachineOK(t) /\ Reported(t)
           /\ s.m.state = "Muted" => Rests(t)
  <1> DEFINE t == [s EXCEPT !.m.mute = mute]
  <1>1. /\ s \in Voters /\ Base(s, {}, {}) /\ MachineOK(s) /\ Reported(s) /\ WantsOK(s, {})
    BY RestsFact
  <1>2. OnlyMachine(s, t) /\ MachineBut(s, t, {"mute"}) /\ t.m.mute = mute
    BY <1>1, MuteSet
  <1> HIDE DEF t
  <1>3. Calm(s, t)
    BY <1>2, OnlyMachineCalm
  <1>4. Base(t, {}, {})
    BY <1>1, <1>2, <1>3, CalmBase DEF MachineBut
  <1>5. MachineOK(t) /\ Reported(t)
    BY <1>1, <1>2, SaysSame DEF OnlyMachine, MachineBut, MachineOK, Reported
  <1>6. ASSUME s.m.state = "Muted" PROVE Rests(t)
    <2>1. WantsOK(t, {})
      BY <1>1, <1>2, <1>6
         DEF OnlyMachine, MachineBut, WantsOK, SelectedStates, SquelchOpenStates
    <2>2. Sound(t, {}, {})
      BY <1>2, <1>3, <2>1, ToldSound DEF OnlyMachine
    <2> QED BY <1>2, <2>2 DEF OnlyMachine, Rests
  <1> QED BY <1>2, <1>3, <1>4, <1>5, <1>6 DEF t

(* Muted::doUnmute *)
LEMMA DoUnmuteFact ==
    ASSUME NEW s, Rests(s), s.m.state = "Muted"
    PROVE  Handled(s, DoUnmute(s))
  <1> DEFINE b == s.m.best
             i == EnterIdle(s)
             t == EnterActiveRxSelected(s, b)
  <1>1. /\ s \in Voters /\ s.m.switchTo = None /\ Base(s, {}, {}) /\ MachineOK(s)
        /\ Reported(s)
    BY RestsFact DEF MachineOK
  <1>2. Handled(s, Fails(s, "bestSrx()->squelchIsOpen()"))
    BY <1>1, FailsHandled DEF Assertions
  <1>3. ASSUME b = None PROVE Handled(s, i)
    <2>1. Enters(s, i, {}, {}) /\ i.m.active = None /\ KeepsAudio(s, i)
      BY <1>1, EnterIdleFact
    <2> HIDE DEF i
    <2> QED BY <2>1, EnteredNone DEF Enters
  <1>4. ASSUME b # None PROVE Handled(s, t)
    <2>1. b \in Rxs /\ Fit(s, b)
      BY <1>4, RestsFact
    <2> HIDE DEF b
    <2>2. /\ Enters(s, t, {}, {}) /\ t.m.active = b /\ t.m.state = "Receiving"
          /\ t.m.mute = "NONE" => t.rx[b].unflushed = s.rx[b].unflushed
      BY <1>1, <2>1, EnterSelectedFact
    <2> HIDE DEF t
    <2> QED BY <2>1, <2>2, EnteredSelected
  <1> QED BY <1>2, <1>3, <1>4 DEF DoUnmute

(* ActiveRxSelected::setMuteState *)
LEMMA UnmuteSelectedFact ==
    ASSUME NEW s, Rests(s), s.m.state \in SelectedStates
    PROVE  Handled(s, UnmuteSelected(s))
  <1> DEFINE a == s.m.active
             b == s.m.switchTo
             u == SatSetMuteState(s, a, "NONE")
             v == [u EXCEPT !.m.mute = "NONE"]
             w == SatSetMuteState(v, b, "NONE")
             t == UnmuteSelected(s)
  <1>1. /\ s \in Voters /\ a \in Rxs /\ a # b /\ WantsOK(s, {})
        /\ s.m.state = "SwitchActiveRx" => b \in Rxs
    BY RestsFact, VoterAssumption DEF MachineOK
  <1>2. t = IF s.m.state = "SwitchActiveRx" THEN w ELSE v
    BY DEF UnmuteSelected
  <1>3. Calm(s, u) /\ SameControl(s, u) /\ u.rx[a].want = "NONE"
    BY <1>1, SatSetCalm DEF MuteStates
  <1> HIDE DEF u, t
  <1>4. OnlyMachine(u, v) /\ MachineBut(u, v, {"mute"}) /\ v.m.mute = "NONE"
    BY <1>3, MuteSet DEF Calm, MuteStates
  <1> HIDE DEF v
  <1>5. v \in Voters /\ Calm(s, v)
    BY <1>1, <1>3, <1>4, OnlyMachineCalm, CalmTwice DEF OnlyMachine
  <1>6. ASSUME b \in Rxs
        PROVE  Calm(v, w) /\ SameControl(v, w) /\ \A x \in Rxs \ {b} : w.rx[x] = v.rx[x]
    BY <1>5, <1>6, SatSetCalm DEF MuteStates
  <1>7. b \in Rxs => Calm(s, w)
    BY <1>1, <1>5, <1>6, CalmTwice
  <1> HIDE DEF w
  <1>8. Calm(s, t) /\ SameControl(v, t) /\ t.rx[a] = v.rx[a]
    BY <1>1, <1>2, <1>5, <1>6, <1>7 DEF SameControl
  <1>9. /\ MachineBut(s, t, {"mute"}) /\ t.m.mute = "NONE" /\ t.rx[a].want = "NONE"
        /\ t.tasks = s.tasks /\ t.sql = s.sql /\ t.failed = s.failed
    BY <1>3, <1>4, <1>8 DEF SameControl, OnlyMachine, MachineBut
  <1>10. \A x \in Rxs : t.rx[x].enabled = s.rx[x].enabled
                        /\ (~s.rx[x].enabled => t.rx[x].mute = s.rx[x].mute)
    BY <1>8 DEF Calm, Calms
  <1>11. WantsOK(t, {})
    BY <1>1, <1>9, <1>10 DEF MachineBut, WantsOK, SelectedStates, SquelchOpenStates
  <1>12. Sound(t, {}, {})
    BY <1>8, <1>9, <1>11, ToldSound
  <1> QED BY <1>9, <1>12, EnteredNone
          DEF MachineBut, SelectedStates, SquelchOpenStates, t

(* Top::setMuteState, in a state that is not muted and that does not handle it itself. *)
LEMMA TopMuteFact ==
    ASSUME NEW s, Rests(s), NEW mute \in MuteStates, s.m.state # "Muted",
           mute = "NONE" => s.m.state \notin SelectedStates
    PROVE  Handled(s, TopSetMuteState(s, mute))
  <1> DEFINE u == [s EXCEPT !.m.mute = mute]
             t == MuteAll(u, mute)
             e == EnterMuted(u)
  <1>1. /\ s \in Voters /\ WantsOK(s, {}) /\ s.m.state \in States
        /\ s.m.state = "SwitchActiveRx" => s.m.switchTo \in Rxs
    BY RestsFact, MachineOf DEF Machines
  <1>2. /\ OnlyMachine(s, u) /\ MachineBut(s, u, {"mute"}) /\ u.m.mute = mute
        /\ Calm(s, u) /\ Base(u, {}, {}) /\ MachineOK(u) /\ Reported(u)
    BY MuteStateFact
  <1>3. TopSetMuteState(s, mute) =
            IF mute = s.m.mute THEN s
            ELSE IF mute = "NONE" THEN t
            ELSE IF mute = "CONTENT" THEN t ELSE e
    BY DEF TopSetMuteState, UnmuteAll
  <1> HIDE DEF u
  <1>4. Handled(s, s)
    BY EnteredNone DEF Rests, KeepsAudio
  <1>5. ASSUME mute # "ALL" PROVE Handled(s, t)
    <2>1. /\ Calm(u, t) /\ SameControl(u, t)
          /\ \A x \in Rxs : t.rx[x].want = mute
          /\ mute = "NONE" => \A x \in Rxs : t.rx[x].unflushed = u.rx[x].unflushed
      BY <1>2, MuteAllCalm DEF OnlyMachine
    <2> HIDE DEF t
    <2>2. Calm(s, t)
      BY <1>1, <1>2, <2>1, CalmTwice
    <2>3. /\ MachineBut(s, t, {"mute"}) /\ t.m.mute = mute
          /\ t.tasks = s.tasks /\ t.sql = s.sql /\ t.failed = s.failed
          /\ mute = "NONE" => KeepsAudio(s, t)
      BY <1>2, <2>1 DEF SameControl, OnlyMachine, MachineBut, KeepsAudio
    <2>4. \A x \in Rxs : t.rx[x].enabled = s.rx[x].enabled
                         /\ (~s.rx[x].enabled => t.rx[x].mute = s.rx[x].mute)
      BY <2>2 DEF Calm, Calms
    <2>5. WantsOK(t, {})
      BY <1>1, <2>1, <2>3, <2>4 DEF MachineBut, WantsOK
    <2>6. Sound(t, {}, {})
      BY <2>2, <2>3, <2>5, ToldSound
    <2> QED BY <2>3, <2>6, EnteredNone DEF MachineBut
  <1>6. Handled(s, e)
    <2>1. Enters(u, e, {}, {}) /\ e.m.active = None /\ e.m.state = "Muted"
      BY <1>2, EnterMutedFact
    <2> HIDE DEF e
    <2> QED BY <2>1, EnteredNone DEF Enters
  <1> HIDE DEF t, e
  <1> QED BY <1>3, <1>4, <1>5, <1>6

(* The voter is muted or unmuted. *)
LEMMA SetMuteFine ==
    ASSUME NEW s, Rests(s), NEW mute \in MuteStates
    PROVE  Fine(s, DispatchEvents(HandleSetMuteState(s, mute)))
  <1> DEFINE u == [s EXCEPT !.m.mute = mute]
             t == HandleSetMuteState(s, mute)
  <1>1. Handled(s, t)
    <2>1. CASE s.m.state = "Muted"
      <3>1. /\ OnlyMachine(s, u) /\ MachineBut(s, u, {"mute"}) /\ Rests(u)
        BY <2>1, MuteStateFact
      <3>2. t = IF mute = "ALL" THEN u ELSE DoUnmute(u)
        BY <2>1 DEF HandleSetMuteState
      <3> HIDE DEF u, t
      <3>3. u.m.state = "Muted" /\ u.rx = s.rx /\ u.m.active = s.m.active
        BY <2>1, <3>1 DEF OnlyMachine, MachineBut
      <3>4. Handled(s, u)
        BY <3>1, <3>3, EnteredNone DEF Rests
      <3>5. Handled(s, DoUnmute(u))
        BY <3>1, <3>3, DoUnmuteFact, HandledSame
      <3> QED BY <3>2, <3>4, <3>5
    <2>2. CASE s.m.state \in SelectedStates /\ mute = "NONE"
      <3>1. t = UnmuteSelected(s)
        BY <2>2 DEF HandleSetMuteState, SelectedStates, SquelchOpenStates
      <3> QED BY <2>2, <3>1, UnmuteSelectedFact
    <2>3. CASE s.m.state # "Muted" /\ (mute = "NONE" => s.m.state \notin SelectedStates)
      <3>1. t = TopSetMuteState(s, mute)
        BY <2>3 DEF HandleSetMuteState
      <3> QED BY <2>3, <3>1, TopMuteFact
    <2> QED BY <2>1, <2>2, <2>3
  <1> HIDE DEF t
  <1> QED BY <1>1, DispatchTracked DEF Handled, t

(* The voter is reset. *)
LEMMA ResetFine ==
    ASSUME NEW s, Rests(s)
    PROVE  Fine(s, DispatchEvents(EnterMuted(ResetAll(s))))
  <1> DEFINE u == ResetAll(s)
             t == EnterMuted(u)
  <1>1. /\ s \in Voters /\ Base(s, {}, {}) /\ MachineOK(s) /\ Reported(s)
        /\ s.m.best \in Rxs \cup {None}
    BY RestsFact
  <1>2. /\ Reset1(s, u)
        /\ \A x \in Rxs : u.rx[x].mute = "ALL" /\ u.rx[x].want = "ALL"
    BY <1>1, ResetAllFact
  <1> HIDE DEF u
  <1>3. \A x \in Rxs : Fit(s, x) => Fit(u, x)
    BY <1>1, <1>2 DEF Reset1, Resets, Fit, Heard
  <1>4. BestOK(u, {})
    BY <1>1, <1>2, <1>3 DEF Reset1, SameControl, Resets, Base, BestOK, Heard
  <1>5. QueueOK(u)
    BY <1>1, <1>2, <1>3 DEF Reset1, Base, QueueOK, Gained
  <1>6. ReceiversOK(u, {})
    BY <1>1, <1>2 DEF Reset1, Resets, Base, ReceiversOK
  <1>7. Base(u, {}, {}) /\ MachineOK(u) /\ Reported(u)
    BY <1>1, <1>2, <1>4, <1>5, <1>6, SaysSame
       DEF Reset1, SameControl, Base, MachineOK, Reported
  <1>8. Enters(u, t, {}, {}) /\ t.m.active = None /\ t.m.state = "Muted"
    BY <1>7, EnterMutedFact
  <1> HIDE DEF t
  <1>9. Handled(s, t)
    BY <1>8, EnteredNone DEF Enters
  <1> QED BY <1>9, DispatchTracked DEF Handled, t, u

----------------------------------------------------------------------------
(***************************************************************************)
(* A receiver is enabled or disabled.                                      *)
(***************************************************************************)
\* From s to t receivers are muted, enabled or disabled, and nothing else.
Alike(s, t) ==
    /\ t \in Voters /\ t.m = s.m /\ t.tasks = s.tasks /\ t.sql = s.sql
    /\ t.failed = s.failed /\ t.queue = s.queue
    /\ \A x \in Rxs :
        /\ t.rx[x].open = s.rx[x].open /\ t.rx[x].want = s.rx[x].want
        /\ t.rx[x].sig = s.rx[x].sig /\ t.rx[x].lev = s.rx[x].lev
        /\ t.rx[x].unflushed = s.rx[x].unflushed

(* The mute state of a receiver is set. *)
LEMMA MuteGiven ==
    ASSUME NEW s \in Voters, NEW x \in Rxs, NEW b \in MuteStates
    PROVE  LET t == [s EXCEPT !.rx[x].mute = b] IN
           /\ Alike(s, t) /\ \A y \in Rxs : t.rx[y].enabled = s.rx[y].enabled
           /\ t.rx[x].mute = b /\ \A y \in Rxs \ {x} : t.rx[y] = s.rx[y]
  <1> DEFINE r == [s.rx[x] EXCEPT !.mute = b]
             t == [s EXCEPT !.rx[x].mute = b]
  <1>1. /\ s.rx[x] \in Receivers /\ r \in Receivers /\ r.mute = b
        /\ r.enabled = s.rx[x].enabled /\ r.open = s.rx[x].open /\ r.want = s.rx[x].want
        /\ r.sig = s.rx[x].sig /\ r.lev = s.rx[x].lev /\ r.unflushed = s.rx[x].unflushed
    BY RxOf DEF Receivers
  <1>2. /\ t \in Voters /\ t.m = s.m /\ t.tasks = s.tasks /\ t.sql = s.sql
        /\ t.failed = s.failed /\ t.queue = s.queue
        /\ t.rx[x] = r /\ \A y \in Rxs \ {x} : t.rx[y] = s.rx[y]
    <2>1. t = [s EXCEPT !.rx[x] = r]
      OBVIOUS
    <2> HIDE DEF r, t
    <2> QED BY <1>1, <2>1, RxSet
  <1> HIDE DEF r, t
  <1>3. \A y \in Rxs :
            /\ t.rx[y].open = s.rx[y].open /\ t.rx[y].want = s.rx[y].want
            /\ t.rx[y].sig = s.rx[y].sig /\ t.rx[y].lev = s.rx[y].lev
            /\ t.rx[y].unflushed = s.rx[y].unflushed
            /\ t.rx[y].enabled = s.rx[y].enabled
    BY <1>1, <1>2
  <1> QED BY <1>1, <1>2, <1>3 DEF Alike, t

(* A receiver is enabled or disabled, as q is. *)
LEMMA EnabledGiven ==
    ASSUME NEW s \in Voters, NEW x \in Rxs, NEW q \in Receivers
    PROVE  LET t == [s EXCEPT !.rx[x].enabled = q.enabled] IN
           /\ Alike(s, t) /\ \A y \in Rxs : t.rx[y].mute = s.rx[y].mute
           /\ t.rx[x].enabled = q.enabled /\ \A y \in Rxs \ {x} : t.rx[y] = s.rx[y]
  <1> DEFINE r == [s.rx[x] EXCEPT !.enabled = q.enabled]
             t == [s EXCEPT !.rx[x].enabled = q.enabled]
  <1>1. /\ s.rx[x] \in Receivers /\ r \in Receivers /\ r.enabled = q.enabled
        /\ r.mute = s.rx[x].mute /\ r.open = s.rx[x].open /\ r.want = s.rx[x].want
        /\ r.sig = s.rx[x].sig /\ r.lev = s.rx[x].lev /\ r.unflushed = s.rx[x].unflushed
    BY RxOf DEF Receivers
  <1>2. /\ t \in Voters /\ t.m = s.m /\ t.tasks = s.tasks /\ t.sql = s.sql
        /\ t.failed = s.failed /\ t.queue = s.queue
        /\ t.rx[x] = r /\ \A y \in Rxs \ {x} : t.rx[y] = s.rx[y]
    <2>1. t = [s EXCEPT !.rx[x] = r]
      OBVIOUS
    <2> HIDE DEF r, t
    <2> QED BY <1>1, <2>1, RxSet
  <1> HIDE DEF r, t
  <1>3. \A y \in Rxs :
            /\ t.rx[y].open = s.rx[y].open /\ t.rx[y].want = s.rx[y].want
            /\ t.rx[y].sig = s.rx[y].sig /\ t.rx[y].lev = s.rx[y].lev
            /\ t.rx[y].unflushed = s.rx[y].unflushed /\ t.rx[y].mute = s.rx[y].mute
    BY <1>1, <1>2
  <1> QED BY <1>1, <1>2, <1>3 DEF Alike, t

(* A receiver that is muted while X changes to Z. *)
LEMMA AlikeSound ==
    ASSUME NEW s, NEW t, NEW X, NEW Y, NEW Z, Sound(s, X, Y), Alike(s, t),
           \A y \in Rxs : t.rx[y].enabled = s.rx[y].enabled,
           ReceiversOK(t, Z),
           s.m.state = "SwitchActiveRx"
                /\ (~s.rx[s.m.switchTo].enabled \/ s.m.switchTo \in Z) =>
                t.rx[s.m.switchTo].mute = "ALL"
    PROVE  Sound(t, Z, Y)
  <1>1. /\ s \in Voters /\ s.m.best \in Rxs \cup {None}
        /\ s.m.state \in SelectedStates => s.m.active \in Rxs
        /\ s.m.state = "SwitchActiveRx" => s.m.switchTo \in Rxs
    BY MachineOf DEF Sound, Base, MachineOK, Machines
  <1>2. \A x \in Rxs : Heard(t, x) <=> Heard(s, x)
    BY DEF Alike, Heard
  <1>3. Base(t, Z, Y)
    BY <1>1, <1>2 DEF Alike, Sound, Base, BestOK, QueueOK, Fit, Gained
  <1>4. MachineOK(t) /\ Reported(t)
    BY SaysSame DEF Alike, Sound, MachineOK, Reported
  <1>5. ActiveOK(t)
    BY <1>1, <1>2 DEF Alike, Sound, ActiveOK, Fit, SelectedStates
  <1>6. WantsOK(t, Z)
    BY <1>1 DEF Alike, Sound, WantsOK
  <1> QED BY <1>3, <1>4, <1>5, <1>6 DEF Sound

(* If one event empties the queue, DispatchEvents handles no other. *)
LEMMA DispatchOne ==
    ASSUME NEW s, NEW X, NEW Y, Live(s, X, Y),
           DispatchFirst(s).failed # None \/ DispatchFirst(s).queue = <<>>
    PROVE  DispatchEvents(s) = DispatchFirst(s)
  <1> DEFINE n == Len(s.queue) + Len(RXS)
             t == DispatchFirst(s)
             Some(v, i) == v = IF i = 0 THEN s ELSE t
  <1>1. PICK f : /\ DispatchEvents(s) = f[n] /\ f[0] = s
                 /\ \A i \in 1 .. n : f[i] = DispatchFirst(f[i - 1])
    BY DispatchLoop
  <1>2. /\ n \in Nat /\ n >= Len(s.queue) /\ Len(s.queue) \in Nat
        /\ s.queue \in Seq(Events)
    BY FewReceivers, WeightType DEF Live, Voters
  <1>3. DispatchFirst(t) = t
    <2> HIDE DEF t
    <2>1. t.failed # None \/ t.queue = <<>>
      BY DEF t
    <2> QED BY <2>1 DEF DispatchFirst
  <1>4. n = 0 => t = s
    <2>1. n = 0 => s.queue = <<>>
      BY <1>2, EmptySeq
    <2> QED BY <2>1 DEF DispatchFirst
  <1> HIDE DEF n
  <1>5. Some(f[0], 0)
    BY <1>1
  <1>6. ASSUME NEW k \in 0 .. n - 1, Some(f[k], k) PROVE Some(f[k + 1], k + 1)
    <2>1. k + 1 \in 1 .. n /\ (k + 1) - 1 = k /\ k + 1 # 0
      BY <1>2
    <2>2. f[k + 1] = DispatchFirst(f[k])
      BY <1>1, <2>1
    <2> HIDE DEF t
    <2>3. f[k] = s \/ f[k] = t
      BY <1>6
    <2> QED BY <1>3, <2>1, <2>2, <2>3 DEF t
  <1> HIDE DEF Some
  <1>7. Some(f[n], n)
    <2> DEFINE T == {k \in 0 .. n : Some(f[k], k)}
    <2>1. 0 \in T /\ \A k \in 0 .. n - 1 : k \in T => k + 1 \in T
      BY <1>2, <1>5, <1>6
    <2> HIDE DEF T
    <2>2. n \in Nat
      BY <1>2
    <2>3. 0 \in T
      BY <2>1
    <2>4. \A k \in 0 .. n - 1 : k \in T => k + 1 \in T
      BY <2>1
    <2>5. 0 .. n \subseteq T
      BY <2>2, <2>3, <2>4, InductUpTo
    <2>6. n \in T
      BY <2>2, <2>5
    <2> QED BY <2>6 DEF T
  <1> QED BY <1>1, <1>4, <1>7 DEF Some

(* The squelch closes of a receiver that is neither the best nor the active one. *)
LEMMA CloseOther ==
    ASSUME NEW s, NEW X, NEW Y, Sound(s, X, Y), s.failed = None, NEW x \in Rxs,
           s.queue = <<>> \/ s.queue = Append(<<>>, Closing(x)),
           x # s.m.best, s.m.state \in SquelchOpenStates => x # s.m.active
    PROVE  LET t == DispatchEvents(s) IN
           /\ t \in Voters /\ t.m = s.m /\ t.rx = s.rx
           /\ t.failed = None => Sound(t, X, Y) /\ t.queue = <<>>
  <1> DEFINE t == DispatchFirst(s)
             d == DispatchEvents(s)
  <1>1. Live(s, X, Y) /\ s \in Voters
    BY DEF Live, Sound, Base
  <1>2. CASE s.queue = <<>>
    <2>1. t = s
      BY <1>2 DEF DispatchFirst
    <2>2. d = s
      BY <1>1, <1>2, <2>1, DispatchOne
    <2> QED BY <1>1, <1>2, <2>2
  <1>3. CASE s.queue = Append(<<>>, Closing(x))
    <2> DEFINE e == Head(s.queue)
               u == [s EXCEPT !.queue = Tail(@)]
    <2>1. s.queue # <<>> /\ e = Closing(x) /\ Tail(s.queue) = <<>>
      BY <1>3
    <2>2. e.rx = x /\ ~e.open
      BY <2>1 DEF Closing
    <2>3. t = HandleSquelch(u, e.rx, e.open)
      BY <2>1 DEF DispatchFirst
    <2>4. u \in Voters /\ u.m = s.m /\ u.rx = s.rx /\ u.failed = None /\ u.queue = <<>>
      <3>1. u = [s EXCEPT !.queue = <<>>] /\ <<>> \in Seq(Events)
        BY <2>1
      <3> HIDE DEF u
      <3> QED BY <1>1, <3>1 DEF Voters
    <2> HIDE DEF u, e, t
    <2>5. /\ Fails(u, "is_open") \in Voters /\ Fails(u, "is_open").m = u.m
          /\ Fails(u, "is_open").rx = u.rx /\ Fails(u, "is_open").failed # None
      BY <2>4, FailsSet DEF Assertions
    <2>6. TopSatSquelchOpen(u, e.rx, e.open) =
                IF u.m.best = None THEN Fails(u, "is_open") ELSE u
      BY <2>2, <2>4 DEF TopSatSquelchOpen
    <2>7. t = IF u.m.best = None THEN Fails(u, "is_open") ELSE u
      <3>1. CASE u.m.best = None
        BY <2>3, <2>5, <2>6, <3>1 DEF HandleSquelch
      <3>2. CASE u.m.best # None
        BY <2>2, <2>3, <2>4, <2>6, <3>2 DEF HandleSquelch
      <3> QED BY <3>1, <3>2
    <2>8. t \in Voters /\ t.m = s.m /\ t.rx = s.rx /\ (t.failed = None => t.queue = <<>>)
      BY <2>4, <2>5, <2>7
    <2>9. d = t
      BY <1>1, <2>8, DispatchOne DEF t
    <2> HIDE DEF d
    <2>10. Live(d, X, Y)
      BY <1>1, DispatchFact DEF Dispatched, d
    <2> QED BY <2>8, <2>9, <2>10 DEF Live, d
  <1> QED BY <1>2, <1>3

(* SatRx::setEnabled of a disabled receiver, up to the mute state that it is given. *)
LEMMA EnableQuiet ==
    ASSUME NEW s, Rests(s), NEW x \in Rxs, ~s.rx[x].enabled, NEW on, Alike(s, on),
           on.rx[x].enabled, \A y \in Rxs : on.rx[y].mute = s.rx[y].mute,
           \A y \in Rxs \ {x} : on.rx[y] = s.rx[y], NEW X, X = {x}
    PROVE  LET want == s.rx[x].want
               q == IF want = "ALL" /\ s.rx[x].mute # "ALL"
                    THEN DispatchEvents(MuteSquelch(on, x)) ELSE on
           IN  /\ q \in Voters /\ q.m = s.m
               /\ q.rx[x].want = want /\ q.rx[x].enabled
               /\ want # "ALL" => KeepsAudio(s, q)
               /\ q.failed = None =>
                    /\ Sound(q, X, X) /\ q.queue = <<>>
                    /\ want = "ALL" => Still(q.rx[x])
  <1> DEFINE want == s.rx[x].want
             u == MuteSquelch(on, x)
             d == DispatchEvents(u)
             q == IF want = "ALL" /\ s.rx[x].mute # "ALL" THEN d ELSE on
  <1>1. /\ s \in Voters /\ Base(s, {}, {}) /\ MachineOK(s) /\ Reported(s)
        /\ ActiveOK(s) /\ WantsOK(s, {}) /\ s.queue = <<>> /\ s.failed = None
        /\ s.m.best # None => s.m.best \in Rxs /\ Heard(s, s.m.best)
        /\ s.m.best = None => \A y \in Rxs : ~Heard(s, y)
        /\ s.m.state \in SquelchOpenStates => Heard(s, s.m.active)
        /\ s.m.state \in SelectedStates => s.m.active \in Rxs
        /\ s.m.state = "SwitchActiveRx" => s.m.switchTo \in Rxs
    BY RestsFact DEF Rests
  <1>2. on \in Voters /\ on.m = s.m /\ on.queue = <<>> /\ on.failed = None /\ x # None
    BY <1>1, VoterAssumption DEF Alike
  <1>3. \A y \in Rxs : Heard(s, y) => Heard(on, y)
    BY <1>1 DEF Alike, Heard
  <1>4. \A y \in Rxs \ X : Heard(on, y) => Heard(s, y)
    BY DEF Heard
  <1>5. Base(on, X, X)
    <2>1. BestOK(on, X)
      BY <1>1, <1>2, <1>3, <1>4 DEF BestOK, Fit
    <2>2. QueueOK(on)
      BY <1>2, QueueEmpty DEF QueueOK
    <2>3. ReceiversOK(on, X)
      <3>1. \A y \in Rxs : Silent(on.rx[y])
        BY <1>1 DEF Alike, Base, ReceiversOK, Silent, Still
      <3>2. \A y \in Rxs \ X : on.rx[y].enabled => on.rx[y].mute = on.rx[y].want
        BY <1>1 DEF Base, ReceiversOK
      <3> QED BY <3>1, <3>2 DEF ReceiversOK
    <2> QED BY <1>2, <2>1, <2>2, <2>3 DEF Base
  <1>6. MachineOK(on) /\ Reported(on)
    BY <1>1, SaysSame DEF Alike, MachineOK, Reported
  <1>7. ActiveOK(on)
    BY <1>1, <1>2, <1>3 DEF ActiveOK, Fit, SelectedStates
  <1>8. WantsOK(on, X)
    <2>1. s.m.state = "SwitchActiveRx" /\ s.m.switchTo = x => s.rx[x].mute = "ALL"
      BY <1>1 DEF WantsOK
    <2>2. s.m.state = "SwitchActiveRx" /\ s.m.switchTo # x =>
                on.rx[s.m.switchTo] = s.rx[s.m.switchTo]
      BY <1>1
    <2> QED BY <1>1, <1>2, <2>1, <2>2 DEF WantsOK, Alike
  <1>9. Sound(on, X, X)
    BY <1>5, <1>6, <1>7, <1>8 DEF Sound
  <1>10. CASE ~(want = "ALL" /\ s.rx[x].mute # "ALL")
    <2>1. q = on
      BY <1>10
    <2>2. want = "ALL" => Still(on.rx[x])
      BY <1>10, <1>1 DEF Base, ReceiversOK, Silent, Still, Alike
    <2>3. KeepsAudio(s, on) /\ on.rx[x].want = want
      BY DEF Alike, KeepsAudio
    <2> QED BY <1>2, <1>9, <2>1, <2>2, <2>3
  <1>11. CASE want = "ALL" /\ s.rx[x].mute # "ALL"
    <2>1. /\ Only(on, u, x) /\ Still(u.rx[x])
          /\ u.rx[x].mute = on.rx[x].mute /\ u.rx[x].want = on.rx[x].want
      BY <1>2, MuteSquelchFact
    <2> HIDE DEF u
    <2>2. Calms(on.rx[x], u.rx[x])
      BY <2>1 DEF Only, Calms, Silent
    <2>3. Sound(u, X, X) /\ u.m = on.m /\ u.failed = on.failed
      BY <1>9, <2>1, <2>2, OnlySound
    <2>4. u.queue = <<>> \/ u.queue = Append(<<>>, Closing(x))
      BY <1>2, <2>1 DEF Only
    <2>5. x # u.m.best /\ u.failed = None
      BY <1>1, <1>2, <2>3 DEF Heard
    <2>6. u.m.state \in SquelchOpenStates => x # u.m.active
      BY <1>1, <1>2, <2>3 DEF Heard
    <2>7. /\ d \in Voters /\ d.m = u.m /\ d.rx = u.rx
          /\ d.failed = None => Sound(d, X, X) /\ d.queue = <<>>
      BY <2>3, <2>4, <2>5, <2>6, CloseOther
    <2>8. u.rx[x].want = want /\ u.rx[x].enabled
      BY <2>1 DEF Only, Alike
    <2> HIDE DEF d
    <2>9. q = d
      BY <1>11
    <2>10. q \in Voters /\ q.m = s.m /\ q.rx[x].want = want /\ q.rx[x].enabled
      BY <1>2, <2>3, <2>7, <2>8, <2>9
    <2> HIDE DEF q
    <2>11. q.failed = None => Sound(q, X, X) /\ q.queue = <<>> /\ Still(q.rx[x])
      BY <2>1, <2>7, <2>9
    <2> QED BY <1>11, <2>10, <2>11 DEF q, d, u
  <1> QED BY <1>10, <1>11

(* The mute state that it wants is given to the receiver that is being enabled, and its   *)
(* FIFO is cleared.                                                                       *)
LEMMA EnableMutes ==
    ASSUME NEW s, Rests(s), NEW x \in Rxs, NEW X, X = {x}, NEW q \in Voters, q.m = s.m,
           q.rx[x].want = s.rx[x].want, q.rx[x].enabled,
           s.rx[x].want # "ALL" => KeepsAudio(s, q),
           q.failed = None => /\ Sound(q, X, X) /\ q.queue = <<>>
                              /\ s.rx[x].want = "ALL" => Still(q.rx[x])
    PROVE  LET want == s.rx[x].want
               v == [q EXCEPT !.rx[x].mute = want]
               t == IF want = "NONE" THEN v ELSE DispatchEvents(ClearFifo(v, x))
           IN  /\ t \in Voters /\ t.rx[x].enabled /\ NotSelected(s, t)
               /\ t.failed = None => Sound(t, {}, X) /\ t.queue = <<>>
  <1> DEFINE want == s.rx[x].want
             v == [q EXCEPT !.rx[x].mute = want]
             c == ClearFifo(v, x)
             d == DispatchEvents(c)
             t == IF want = "NONE" THEN v ELSE d
             Z == {}
  <1>1. /\ s \in Voters /\ WantsOK(s, {}) /\ want \in MuteStates
        /\ s.m.state = "SwitchActiveRx" => s.m.switchTo \in Rxs
    BY RestsFact, RxOf DEF Receivers
  <1>2. /\ Alike(q, v) /\ \A y \in Rxs : v.rx[y].enabled = q.rx[y].enabled
        /\ v.rx[x].mute = want /\ \A y \in Rxs \ {x} : v.rx[y] = q.rx[y]
    BY <1>1, MuteGiven
  <1> HIDE DEF v, want
  <1>3. ASSUME q.failed = None PROVE Sound(v, Z, X) /\ v.queue = <<>>
    <2>1. /\ Sound(q, X, X) /\ q.queue = <<>>
          /\ want = "ALL" => Still(q.rx[x])
      BY <1>3 DEF want
    <2>2. ReceiversOK(q, X) /\ WantsOK(q, X)
      BY <2>1 DEF Sound, Base
    <2>3. Silent(v.rx[x]) /\ v.rx[x].mute = v.rx[x].want
      BY <1>2, <2>1 DEF Alike, Silent, Still, want
    <2>4. ReceiversOK(v, Z)
      BY <1>2, <2>2, <2>3 DEF ReceiversOK
    <2>5. q.m.state = "SwitchActiveRx" /\ ~q.rx[q.m.switchTo].enabled =>
                v.rx[q.m.switchTo].mute = "ALL"
      BY <1>1, <1>2, <2>2 DEF WantsOK
    <2>6. q.m.state = "SwitchActiveRx"
                /\ (~q.rx[q.m.switchTo].enabled \/ q.m.switchTo \in Z) =>
                v.rx[q.m.switchTo].mute = "ALL"
      BY <2>5
    <2> HIDE DEF Z
    <2>7. Sound(v, Z, X)
      BY <1>2, <2>1, <2>4, <2>6, AlikeSound
    <2> QED BY <1>2, <2>1, <2>7 DEF Alike
  <1>4. Live(v, Z, X) /\ v \in Voters /\ v.m = s.m /\ v.failed = q.failed
        /\ v.rx[x].enabled
    BY <1>2, <1>3 DEF Live, Alike
  <1>5. want # "ALL" => KeepsAudio(s, v)
    BY <1>2 DEF Alike, KeepsAudio, want
  <1>6. CASE want = "NONE"
    <2>1. NotSelected(s, v)
      BY <1>4, <1>5, <1>6 DEF NotSelected
    <2> QED BY <1>3, <1>4, <1>6, <2>1 DEF v, want
  <1>7. CASE want # "NONE"
    <2>1. Only(v, c, x) /\ Hears(v.rx[x], c.rx[x])
      BY <1>4, ClearFifoFact
    <2> HIDE DEF c
    <2>2. Calms(v.rx[x], c.rx[x]) /\ c.rx[x].want = v.rx[x].want
          /\ c.rx[x].mute = v.rx[x].mute
      BY <2>1 DEF Only, Hears, Calms, Silent, Still
    <2>3. c \in Voters /\ c.m = s.m /\ c.failed = q.failed /\ c.rx[x].enabled
      BY <1>4, <2>1 DEF Only
    <2>4. ASSUME q.failed = None PROVE Sound(c, Z, X) /\ Gained(c.queue) = {}
      <3>1. Sound(v, Z, X) /\ v.queue = <<>>
        BY <1>3, <2>4
      <3>2. Z \subseteq Rxs
        OBVIOUS
      <3> HIDE DEF Z
      <3>3. Sound(c, Z, X) /\ Gained(c.queue) = Gained(v.queue)
        BY <2>1, <2>2, <3>1, <3>2, OnlySound
      <3> QED BY <3>1, <3>3, QueueEmpty
    <2>5. Live(c, Z, X)
      BY <2>3, <2>4 DEF Live
    <2>6. NotSelected(s, c)
      <3>1. ~(s.m.state \in {"Idle", "VotingDelay"} /\ s.m.mute = "NONE")
        BY <1>1, <1>7 DEF WantsOK, want
      <3> QED BY <2>3, <3>1 DEF NotSelected
    <2>7. Dispatched(c, d, Z, X)
      BY <2>5, DispatchFact
    <2> HIDE DEF d
    <2>8. d.rx[x].enabled /\ d \in Voters
          /\ (d.failed = None => Sound(d, Z, X) /\ d.queue = <<>>)
      BY <2>3, <2>7 DEF Dispatched, Settles, Calms, Live
    <2>9. NotSelected(s, d)
      <3>1. CASE q.failed = None
        BY <2>4, <2>6, <2>7, <3>1 DEF Dispatched, Tracks
      <3>2. CASE q.failed # None
        <4>1. DispatchFirst(c) = c
          BY <2>3, <3>2 DEF DispatchFirst
        <4>2. d = c
          BY <2>3, <2>5, <3>2, <4>1, DispatchOne DEF d
        <4> QED BY <2>6, <4>2
      <3> QED BY <3>1, <3>2
    <2> QED BY <1>7, <2>8, <2>9 DEF d, c, v, want
  <1> QED BY <1>6, <1>7

(* A receiver is enabled. *)
LEMMA EnableFine ==
    ASSUME NEW s, Rests(s), NEW x \in Rxs, ~s.rx[x].enabled, NEW c, c = "NONE"
    PROVE  LET t == SetEnabled(s, x, c) IN
           Fine(s, IF t.rx[x].open
                   THEN DispatchEvents([t EXCEPT !.queue =
                            Append(@, [rx |-> x, open |-> c = "NONE"])])
                   ELSE t)
  <1> DEFINE r == s.rx[x]
             X == {x}
             want == r.want
             on == [s EXCEPT !.rx[x].enabled = @ \/ c = "NONE"]
             q == IF want = "ALL" /\ r.mute # "ALL"
                  THEN DispatchEvents(MuteSquelch(on, x)) ELSE on
             v == [q EXCEPT !.rx[x].mute = want]
             done == IF want = "NONE" THEN v ELSE DispatchEvents(ClearFifo(v, x))
             t == [done EXCEPT !.rx[x].enabled = ~s.rx[x].enabled /\ c = "NONE"]
             e == [rx |-> x, open |-> c = "NONE"]
  <1>0. s \in Voters /\ r \in Receivers
    BY RestsFact, RxOf
  <1>1. PICK p \in Receivers : p.enabled = TRUE
    <2> DEFINE n == [r EXCEPT !.enabled = TRUE]
    <2>1. n \in Receivers
      BY <1>0 DEF Receivers
    <2>2. n.enabled = TRUE
      BY <1>0 DEF Receivers
    <2> HIDE DEF n
    <2> QED BY <2>1, <2>2
  <1>2. SetEnabled(s, x, c) = t
    BY DEF SetEnabled
  <1>3. on = [s EXCEPT !.rx[x].enabled = p.enabled]
    BY <1>1
  <1>4. /\ Alike(s, on) /\ \A y \in Rxs : on.rx[y].mute = s.rx[y].mute
        /\ on.rx[x].enabled /\ \A y \in Rxs \ {x} : on.rx[y] = s.rx[y]
    <2> HIDE DEF on, r
    <2>1. /\ Alike(s, on) /\ \A y \in Rxs : on.rx[y].mute = s.rx[y].mute
          /\ on.rx[x].enabled = p.enabled /\ \A y \in Rxs \ {x} : on.rx[y] = s.rx[y]
      BY <1>0, <1>3, EnabledGiven
    <2> QED BY <1>1, <2>1
  <1> HIDE DEF on
  <1>5. /\ q \in Voters /\ q.m = s.m
        /\ q.rx[x].want = want /\ q.rx[x].enabled
        /\ want # "ALL" => KeepsAudio(s, q)
        /\ q.failed = None =>
                    /\ Sound(q, X, X) /\ q.queue = <<>>
                    /\ want = "ALL" => Still(q.rx[x])
    <2> HIDE DEF X
    <2>1. X = {x}
      BY DEF X
    <2> QED BY <1>4, <2>1, EnableQuiet
  <1> HIDE DEF q
  <1>6. /\ done \in Voters /\ done.rx[x].enabled /\ NotSelected(s, done)
        /\ done.failed = None => Sound(done, {}, X) /\ done.queue = <<>>
    <2> HIDE DEF X
    <2>1. X = {x}
      BY DEF X
    <2> QED BY <1>5, <2>1, EnableMutes
  <1> HIDE DEF done
  <1>7. t = [done EXCEPT !.rx[x].enabled = p.enabled]
    BY <1>1
  <1>8. /\ Alike(done, t) /\ \A y \in Rxs : t.rx[y].mute = done.rx[y].mute
        /\ t.rx[x].enabled /\ \A y \in Rxs \ {x} : t.rx[y] = done.rx[y]
    <2> HIDE DEF t, r
    <2>1. /\ Alike(done, t) /\ \A y \in Rxs : t.rx[y].mute = done.rx[y].mute
          /\ t.rx[x].enabled = p.enabled /\ \A y \in Rxs \ {x} : t.rx[y] = done.rx[y]
      BY <1>6, <1>7, EnabledGiven
    <2> QED BY <1>1, <2>1
  <1> HIDE DEF t
  <1>9. NotSelected(s, t) /\ t \in Voters /\ t.failed = done.failed
    BY <1>6, <1>8 DEF NotSelected, Alike, KeepsAudio
  <1>10. ASSUME t.failed = None PROVE Sound(t, {}, X) /\ t.queue = <<>>
    <2>1. Sound(done, {}, X) /\ done.queue = <<>>
      BY <1>6, <1>9, <1>10
    <2>2. \A y \in Rxs : t.rx[y].enabled <=> done.rx[y].enabled
      BY <1>6, <1>8
    <2>3. \A y \in Rxs : t.rx[y] \in Receivers /\ done.rx[y] \in Receivers
      BY <1>6, <1>9, RxOf
    <2>4. \A y \in Rxs : t.rx[y].enabled = done.rx[y].enabled
      BY <2>2, <2>3 DEF Receivers
    <2>5. ReceiversOK(t, {}) /\ WantsOK(done, {})
      BY <1>8, <2>1, <2>2 DEF Sound, Base, ReceiversOK, Alike, Silent, Still
    <2>6. done.m.state = "SwitchActiveRx" => done.m.switchTo \in Rxs
      BY <1>6, <2>1, MachineOf DEF Sound, MachineOK, Machines
    <2>7. done.m.state = "SwitchActiveRx"
                /\ (~done.rx[done.m.switchTo].enabled \/ done.m.switchTo \in {}) =>
                t.rx[done.m.switchTo].mute = "ALL"
      BY <1>8, <2>5, <2>6 DEF WantsOK
    <2>8. Sound(t, {}, X)
      BY <1>8, <2>1, <2>4, <2>5, <2>7, AlikeSound
    <2> QED BY <1>8, <2>1, <2>8 DEF Alike
  <1>11. CASE ~t.rx[x].open
    <2>1. ASSUME t.failed = None PROVE Sound(t, {}, {})
      <3>1. Sound(t, {}, X)
        BY <1>10, <2>1
      <3>2. BestOK(t, {})
        BY <1>11, <3>1 DEF Sound, Base, BestOK, Heard
      <3> QED BY <3>1, <3>2 DEF Sound, Base
    <2>2. Good(t)
      BY <1>9, <1>10, <2>1 DEF Good, Live
    <2>3. Audio(s, t)
      BY <1>9 DEF Audio, NotSelected
    <2> QED BY <1>2, <1>11, <2>2, <2>3 DEF Fine
  <1>12. CASE t.rx[x].open
    <2> DEFINE z == [t EXCEPT !.queue = Append(@, e)]
    <2>1. e = [rx |-> x, open |-> TRUE] /\ e \in Events /\ e.open /\ e.rx = x
      BY DEF Events
    <2> HIDE DEF e
    <2>2. /\ z \in Voters /\ z.m = t.m /\ z.tasks = t.tasks /\ z.sql = t.sql
          /\ z.failed = t.failed /\ z.rx = t.rx /\ z.queue = Append(t.queue, e)
      BY <1>9, <2>1, QueueSet
    <2> HIDE DEF z
    <2>3. ASSUME z.failed = None PROVE Sound(z, {}, {})
      <3>1. Sound(t, {}, X) /\ t.queue = <<>>
        BY <1>10, <2>2, <2>3
      <3>2. /\ Lost(z.queue) = {} /\ OnlyFirst(z.queue) /\ Gained(z.queue) = {x}
        <4>1. <<>> \in Seq(Events)
          OBVIOUS
        <4> QED BY <2>1, <2>2, <3>1, <4>1, QueueAppend, QueueEmpty
      <3>3. \A y \in Rxs : Heard(z, y) <=> Heard(t, y)
        BY <2>2 DEF Heard
      <3>4. \A y \in Rxs : Fit(t, y) => Fit(z, y)
        BY <3>1, <3>3, QueueEmpty DEF Fit
      <3>5. /\ t.m.best \in Rxs \cup {None}
            /\ t.m.state \in SelectedStates => t.m.active \in Rxs
        BY <1>9, <3>1, MachineOf DEF Sound, MachineOK, Machines
      <3>6. BestOK(z, {})
        <4>1. t.m.best = None => \A y \in Rxs \ X : ~Heard(t, y)
          BY <3>1, QueueEmpty DEF Sound, Base, BestOK
        <4> QED BY <2>2, <3>1, <3>2, <3>3, <3>4, <3>5, <4>1 DEF Sound, Base, BestOK
      <3>7. QueueOK(z)
        BY <1>8, <1>12, <2>2, <3>2 DEF QueueOK, Fit, Heard
      <3>8. ReceiversOK(z, {}) /\ MachineOK(z) /\ WantsOK(z, {})
        BY <2>2, <3>1 DEF Sound, Base, ReceiversOK, MachineOK, WantsOK
      <3>9. ActiveOK(z) /\ Reported(z)
        BY <2>2, <3>1, <3>4, <3>5, SaysSame DEF Sound, ActiveOK, Reported, SelectedStates
      <3> QED BY <2>2, <3>6, <3>7, <3>8, <3>9 DEF Sound, Base
    <2>4. Live(z, {}, {}) /\ Tracked(s, z)
      BY <1>9, <2>2, <2>3 DEF Live, Tracked, NotSelected, KeepsAudio
    <2>5. Fine(s, DispatchEvents(z))
      BY <2>4, DispatchTracked
    <2> QED BY <1>2, <1>12, <2>5 DEF z, e
  <1> QED BY <1>11, <1>12

(* No event is handled after an assertion has failed. *)
LEMMA FailedFine ==
    ASSUME NEW s0, NEW s \in Voters, s.failed # None, s.m.active \in {None, s0.m.active}
    PROVE  DispatchEvents(s) = s /\ Fine(s0, s)
  <1>1. Live(s, {}, {}) /\ DispatchFirst(s) = s
    BY DEF Live, DispatchFirst
  <1>2. DispatchEvents(s) = s
    BY <1>1, DispatchOne
  <1> QED BY <1>1, <1>2 DEF Fine, Good, Audio

(* SatRx::setEnabled, for a receiver that is disabled: it is muted. *)
LEMMA DisableMutes ==
    ASSUME NEW s, Rests(s), NEW x \in Rxs, s.rx[x].mute # "ALL", NEW X, X = {x}
    PROVE  LET q == DispatchEvents(MuteSquelch(s, x))
               v == [q EXCEPT !.rx[x].mute = "ALL"]
               t == DispatchEvents(ClearFifo(v, x))
           IN  /\ t \in Voters /\ t.m.active \in {None, s.m.active}
               /\ t.failed = None => Sound(t, X, {}) /\ t.queue = <<>>
  <1> DEFINE u == MuteSquelch(s, x)
             q == DispatchEvents(u)
             v == [q EXCEPT !.rx[x].mute = "ALL"]
             c == ClearFifo(v, x)
             t == DispatchEvents(c)
  <1>1. s \in Voters /\ Sound(s, {}, {}) /\ Gained(s.queue) = {} /\ s.failed = None
    BY RestsFact DEF Rests
  <1>2. /\ Only(s, u, x) /\ Still(u.rx[x])
        /\ u.rx[x].mute = s.rx[x].mute /\ u.rx[x].want = s.rx[x].want
    BY <1>1, MuteSquelchFact
  <1> HIDE DEF u
  <1>3. Calms(s.rx[x], u.rx[x])
    BY <1>2 DEF Only, Calms, Silent
  <1>4. Sound(u, {}, {}) /\ u.m = s.m /\ Gained(u.queue) = {}
    BY <1>1, <1>2, <1>3, OnlySound
  <1>5. Live(u, {}, {})
    BY <1>2, <1>4 DEF Live, Only
  <1>6. Dispatched(u, q, {}, {}) /\ q.m.active \in {None, s.m.active}
    BY <1>4, <1>5, DispatchQuiet
  <1> HIDE DEF q
  <1>7. /\ q \in Voters /\ Still(q.rx[x])
        /\ q.failed = None => Sound(q, {}, {}) /\ q.queue = <<>>
    BY <1>2, <1>6 DEF Dispatched, Live, Settles, Calms
  <1>8. /\ Alike(q, v) /\ \A y \in Rxs : v.rx[y].enabled = q.rx[y].enabled
        /\ v.rx[x].mute = "ALL" /\ \A y \in Rxs \ {x} : v.rx[y] = q.rx[y]
    BY <1>7, MuteGiven DEF MuteStates
  <1> HIDE DEF v
  <1>9. v \in Voters /\ v.m = q.m /\ v.failed = q.failed
    BY <1>8 DEF Alike
  <1>10. ASSUME q.failed = None PROVE Sound(v, X, {}) /\ v.queue = <<>>
    <2>1. /\ Sound(q, {}, {}) /\ q.queue = <<>>
          /\ ReceiversOK(q, {}) /\ WantsOK(q, {})
      BY <1>7, <1>10 DEF Sound, Base
    <2>2. Silent(v.rx[x])
      BY <1>7, <1>8 DEF Alike, Silent, Still
    <2>3. ReceiversOK(v, X)
      BY <1>8, <2>1, <2>2 DEF ReceiversOK
    <2>4. q.m.state = "SwitchActiveRx" => q.m.switchTo \in Rxs
      BY <1>7, <2>1, MachineOf DEF Sound, MachineOK, Machines
    <2>5. q.m.state = "SwitchActiveRx"
                /\ (~q.rx[q.m.switchTo].enabled \/ q.m.switchTo \in X) =>
                v.rx[q.m.switchTo].mute = "ALL"
      BY <1>8, <2>1, <2>4 DEF WantsOK
    <2>6. Sound(v, X, {})
      BY <1>8, <2>1, <2>3, <2>5, AlikeSound
    <2> QED BY <1>8, <2>1, <2>6 DEF Alike
  <1>11. Only(v, c, x) /\ Hears(v.rx[x], c.rx[x])
    BY <1>9, ClearFifoFact
  <1> HIDE DEF c
  <1>12. Calms(v.rx[x], c.rx[x]) /\ c.rx[x].want = v.rx[x].want
         /\ c.rx[x].mute = v.rx[x].mute
    BY <1>11 DEF Only, Hears, Calms, Silent, Still
  <1>13. c \in Voters /\ c.failed = q.failed /\ c.m.active \in {None, s.m.active}
    BY <1>6, <1>9, <1>11 DEF Only
  <1>14. CASE q.failed = None
    <2>1. X \subseteq Rxs
      OBVIOUS
    <2>2. Sound(c, X, {}) /\ Gained(c.queue) = {}
      BY <1>10, <1>11, <1>12, <1>14, <2>1, OnlySound, QueueEmpty
    <2>3. Live(c, X, {})
      BY <1>13, <2>2 DEF Live
    <2>4. Dispatched(c, t, X, {}) /\ t.m.active \in {None, c.m.active}
      BY <2>2, <2>3, DispatchQuiet
    <2> HIDE DEF t
    <2>5. t \in Voters /\ (t.failed = None => Sound(t, X, {}) /\ t.queue = <<>>)
      BY <2>4 DEF Dispatched, Live
    <2> QED BY <1>13, <2>4, <2>5 DEF t, c, v, q, u
  <1>15. CASE q.failed # None
    <2>1. t = c
      BY <1>13, <1>15, FailedFine
    <2> HIDE DEF t
    <2> QED BY <1>13, <1>15, <2>1 DEF t, c, v, q, u
  <1> QED BY <1>14, <1>15

(* A receiver is disabled. *)
LEMMA DisableFine ==
    ASSUME NEW s, Rests(s), NEW x \in Rxs, s.rx[x].mute # "ALL", NEW c, c = "ALL"
    PROVE  LET t == SetEnabled(s, x, c) IN
           Fine(s, IF t.rx[x].open
                   THEN DispatchEvents([t EXCEPT !.queue =
                            Append(@, [rx |-> x, open |-> c = "NONE"])])
                   ELSE t)
  <1> DEFINE r == s.rx[x]
             X == {x}
             on == [s EXCEPT !.rx[x].enabled = @ \/ c = "NONE"]
             v == [DispatchEvents(MuteSquelch(s, x)) EXCEPT !.rx[x].mute = "ALL"]
             done == DispatchEvents(ClearFifo(v, x))
             t == [done EXCEPT !.rx[x].enabled = ~s.rx[x].enabled /\ c = "NONE"]
             e == [rx |-> x, open |-> c = "NONE"]
  <1>0. s \in Voters /\ r \in Receivers
    BY RestsFact, RxOf
  <1>1. PICK p \in Receivers : p.enabled = FALSE
    <2> DEFINE n == [r EXCEPT !.enabled = FALSE]
    <2>1. n \in Receivers
      BY <1>0 DEF Receivers
    <2>2. n.enabled = FALSE
      BY <1>0 DEF Receivers
    <2> HIDE DEF n
    <2> QED BY <2>1, <2>2
  <1>2. on = s
    <2>1. r.enabled \in BOOLEAN
      BY <1>0 DEF Receivers
    <2>2. (r.enabled \/ c = "NONE") = r.enabled
      BY <2>1
    <2>3. on = [s EXCEPT !.rx[x].enabled = r.enabled]
      BY <2>2
    <2> HIDE DEF on
    <2>4. /\ Alike(s, on) /\ \A y \in Rxs : on.rx[y].mute = s.rx[y].mute
          /\ on.rx[x].enabled = r.enabled /\ \A y \in Rxs \ {x} : on.rx[y] = s.rx[y]
      BY <1>0, <2>3, EnabledGiven
    <2> QED BY <1>0, <2>3 DEF Voters, Receivers
  <1>3. SetEnabled(s, x, c) = t
    BY <1>2 DEF SetEnabled
  <1> HIDE DEF on
  <1>4. /\ done \in Voters /\ done.m.active \in {None, s.m.active}
        /\ done.failed = None => Sound(done, X, {}) /\ done.queue = <<>>
    <2> HIDE DEF X
    <2>1. X = {x}
      BY DEF X
    <2> QED BY <2>1, DisableMutes
  <1> HIDE DEF done
  <1>5. t = [done EXCEPT !.rx[x].enabled = p.enabled]
    BY <1>1
  <1>6. /\ Alike(done, t) /\ \A y \in Rxs : t.rx[y].mute = done.rx[y].mute
        /\ ~t.rx[x].enabled /\ \A y \in Rxs \ {x} : t.rx[y] = done.rx[y]
    <2> HIDE DEF t, r
    <2>1. /\ Alike(done, t) /\ \A y \in Rxs : t.rx[y].mute = done.rx[y].mute
          /\ t.rx[x].enabled = p.enabled /\ \A y \in Rxs \ {x} : t.rx[y] = done.rx[y]
      BY <1>4, <1>5, EnabledGiven
    <2> QED BY <1>1, <2>1
  <1> HIDE DEF t
  <1>7. /\ t \in Voters /\ t.m = done.m /\ t.tasks = done.tasks /\ t.sql = done.sql
        /\ t.failed = done.failed /\ t.queue = done.queue
        /\ t.rx[x].open = done.rx[x].open
    BY <1>6 DEF Alike
  <1> DEFINE z == IF t.rx[x].open THEN [t EXCEPT !.queue = Append(@, e)] ELSE t
  <1>8. e = Closing(x) /\ e \in Events /\ ~e.open /\ e.rx = x
    BY DEF Events, Closing
  <1> HIDE DEF e
  <1>9. /\ z \in Voters /\ z.m = t.m /\ z.tasks = t.tasks /\ z.sql = t.sql
        /\ z.failed = t.failed /\ z.rx = t.rx
        /\ z.queue = IF t.rx[x].open THEN Append(t.queue, e) ELSE t.queue
    BY <1>7, <1>8, QueueSet
  <1> HIDE DEF z
  <1>10. ASSUME t.failed = None
         PROVE  Sound(z, {}, {}) /\ Gained(z.queue) = {}
    <2>1. Sound(done, X, {}) /\ done.queue = <<>>
      BY <1>4, <1>7, <1>10
    <2>2. /\ OnlyFirst(z.queue) /\ Gained(z.queue) = {}
          /\ t.rx[x].open => Lost(z.queue) = {x}
      <3>1. <<>> \in Seq(Events)
        OBVIOUS
      <3>2. /\ OnlyFirst(Append(<<>>, e)) /\ Gained(Append(<<>>, e)) = {}
            /\ Lost(Append(<<>>, e)) = {x}
        BY <1>8, <3>1, QueueAppend, QueueEmpty
      <3>3. z.queue = IF t.rx[x].open THEN Append(<<>>, e) ELSE <<>>
        BY <1>7, <1>9, <2>1
      <3> QED BY <3>2, <3>3, QueueEmpty
    <2>3. \A y \in Rxs : Fit(done, y) => Fit(z, y)
      BY <1>6, <1>7, <1>9, <2>1, <2>2, QueueEmpty DEF Fit, Heard
    <2>4. \A y \in Rxs : Heard(z, y) => Heard(done, y)
      BY <1>6, <1>9 DEF Heard
    <2>5. /\ done.m.best \in Rxs \cup {None}
          /\ done.m.state \in SelectedStates => done.m.active \in Rxs
          /\ done.m.state = "SwitchActiveRx" => done.m.switchTo \in Rxs
      BY <1>4, <2>1, MachineOf DEF Sound, MachineOK, Machines
    <2>6. BestOK(z, {})
      <3>1. done.m.best = None => \A y \in Rxs : ~Heard(done, y)
        BY <2>1, QueueEmpty DEF Sound, Base, BestOK
      <3> QED BY <1>7, <1>9, <2>1, <2>3, <2>4, <2>5, <3>1 DEF Sound, Base, BestOK
    <2>7. QueueOK(z)
      BY <2>2 DEF QueueOK
    <2>8. ReceiversOK(z, {})
      BY <1>6, <1>9, <2>1 DEF Sound, Base, ReceiversOK, Alike, Silent, Still
    <2>9. MachineOK(z) /\ Reported(z)
      BY <1>7, <1>9, <2>1, SaysSame DEF Sound, MachineOK, Reported
    <2>10. ActiveOK(z)
      BY <1>7, <1>9, <2>1, <2>3, <2>5 DEF Sound, ActiveOK, SelectedStates
    <2>11. WantsOK(z, {})
      <3>1. \A y \in Rxs : /\ z.rx[y].want = done.rx[y].want
                           /\ z.rx[y].mute = done.rx[y].mute
                           /\ y # x => z.rx[y].enabled = done.rx[y].enabled
        BY <1>6, <1>9 DEF Alike
      <3>2. WantsOK(done, X)
        BY <2>1 DEF Sound
      <3> QED BY <1>7, <1>9, <2>5, <3>1, <3>2 DEF WantsOK
    <2> QED BY <1>9, <2>2, <2>6, <2>7, <2>8, <2>9, <2>10, <2>11 DEF Sound, Base
  <1>11. z.m.active \in {None, s.m.active} /\ Live(z, {}, {})
    BY <1>4, <1>7, <1>9, <1>10 DEF Live
  <1>12. Fine(s, DispatchEvents(z))
    <2>1. CASE t.failed = None
      BY <1>10, <1>11, <2>1, DispatchFine
    <2>2. CASE t.failed # None
      BY <1>9, <1>11, <2>2, FailedFine
    <2> QED BY <2>1, <2>2
  <1>13. CASE t.rx[x].open
    <2>1. z = [t EXCEPT !.queue = Append(@, e)]
      BY <1>13 DEF z
    <2> QED BY <1>3, <1>12, <1>13, <2>1 DEF e
  <1>14. CASE ~t.rx[x].open
    <2>1. z = t
      BY <1>14 DEF z
    <2>2. Fine(s, t)
      <3>1. CASE t.failed = None
        <4>1. t.queue = <<>>
          BY <1>4, <1>7, <3>1
        <4>2. DispatchFirst(t) = t
          BY <4>1 DEF DispatchFirst
        <4>3. DispatchEvents(t) = t
          BY <1>11, <2>1, <4>1, <4>2, DispatchOne
        <4> QED BY <1>12, <2>1, <4>3
      <3>2. CASE t.failed # None
        BY <1>11, <1>9, <2>1, <3>2, FailedFine
      <3> QED BY <3>1, <3>2
    <2> QED BY <1>3, <1>14, <2>2
  <1> QED BY <1>13, <1>14

----------------------------------------------------------------------------
(***************************************************************************)
(* The voter.                                                              *)
(***************************************************************************)
\* The inductive invariant.
IInv == Good(State)

(* It holds initially. *)
LEMMA InitInv == Init => IInv
  <1> SUFFICES ASSUME Init PROVE IInv
    OBVIOUS
  <1> DEFINE s == State
  <1>1. None \notin Rxs /\ None \notin Assertions
    BY VoterAssumption
  <1>2. /\ s.m.state = "Muted" /\ s.m.best = None /\ s.m.active = None
        /\ s.m.switchTo = None /\ ~s.m.timer /\ s.failed = None /\ ~s.sql
        /\ s.tasks = <<>> /\ s.queue = <<>>
        /\ \A x \in Rxs : /\ s.rx[x].mute = "ALL" /\ s.rx[x].want = "ALL"
                          /\ ~s.rx[x].sig /\ s.rx[x].lev = 0 /\ ~s.rx[x].open
    BY DEF Init, State
  <1>3. s \in Voters
    <2>1. m \in Machines /\ rx \in [Rxs -> Receivers] /\ sql \in BOOLEAN
      BY DEF Init, Machines, States, MuteStates, Receivers
    <2>2. tasks \in Seq(Tasks) /\ <<>> \in Seq(Events) /\ failed \in Assertions \cup {None}
      BY DEF Init
    <2> QED BY <2>1, <2>2 DEF State, Voters
  <1> HIDE DEF s
  <1>4. Base(s, {}, {})
    BY <1>2, <1>3, QueueEmpty
    DEF Base, BestOK, QueueOK, ReceiversOK, Heard, Silent, Still
  <1>5. MachineOK(s) /\ ActiveOK(s) /\ WantsOK(s, {})
    BY <1>2 DEF MachineOK, ActiveOK, WantsOK, SelectedStates, SquelchOpenStates
  <1>6. Reported(s)
    <2>1. Len(s.tasks) = 0
      BY <1>2, EmptySeq
    <2> QED BY <1>2, <2>1 DEF Reported, SaysClosed, NoReport, SquelchOpenStates
  <1> QED BY <1>2, <1>3, <1>4, <1>5, <1>6 DEF IInv, Good, Live, Sound, s

(* The state after a step. *)
LEMMA StepState ==
    ASSUME NEW t, Step(t), t \in Voters, t.failed = None => t.queue = <<>>
    PROVE  /\ State' \in Voters /\ State'.m = t.m /\ State'.rx = t.rx
           /\ State'.failed = t.failed
           /\ t.failed = None => State' = t
  <1>1. State' = [m |-> t.m, rx |-> t.rx, tasks |-> t.tasks, sql |-> t.sql,
                  failed |-> t.failed, queue |-> <<>>]
    BY DEF Step, State
  <1>2. <<>> \in Seq(Events)
    OBVIOUS
  <1> QED BY <1>1, <1>2 DEF Voters

\* Of the variables, that no audio is lost with a receiver that is selected.
AudioKept ==
    m'.active \notin {None, m.active} /\ m'.mute = "NONE" =>
        rx'[m'.active].unflushed = rx[m'.active].unflushed

(* A step that is fine. *)
LEMMA StepFine ==
    ASSUME NEW t, Step(t), Fine(State, t)
    PROVE  IInv' /\ AudioKept
  <1>1. t \in Voters /\ (t.failed = None => Sound(t, {}, {}) /\ t.queue = <<>>)
    BY DEF Fine, Good, Live
  <1>2. /\ State' \in Voters /\ State'.m = t.m /\ State'.rx = t.rx
        /\ State'.failed = t.failed
        /\ t.failed = None => State' = t
    BY <1>1, StepState
  <1>3. Good(State')
    <2>1. CASE t.failed = None
      BY <1>2, <2>1 DEF Fine
    <2>2. CASE t.failed # None
      BY <1>2, <2>2 DEF Good, Live
    <2> QED BY <2>1, <2>2
  <1>4. AudioKept
    BY DEF AudioKept, Fine, Audio, Step, State
  <1> QED BY <1>3, <1>4 DEF IInv

(* While the program runs. *)
LEMMA InvRests ==
    ASSUME IInv, failed = None
    PROVE  /\ Rests(State) /\ Good(State) /\ State.failed = None /\ State.m = m
           /\ State.rx = rx /\ State.tasks = tasks /\ State.sql = sql
  BY DEF IInv, Good, Live, Rests, State

(* The squelch of a receiver opens. *)
LEMMA RxOpensStep ==
    ASSUME IInv, NEW x \in Rxs, RxOpens(x)
    PROVE  IInv' /\ AudioKept
  <1> DEFINE s == State
  <1>1. failed = None /\ rx[x].mute # "ALL"
    BY DEF RxOpens, Running
  <1>2. Good(s) /\ s.failed = None /\ s.rx = rx
    BY <1>1, InvRests
  <1>3. PICK l \in LEVELS :
            LET u == [s EXCEPT !.rx[x] = [@ EXCEPT !.sig = TRUE, !.lev = l]]
            IN  Step(DispatchEvents(SetSquelchOpen(u, x, TRUE)))
    BY DEF RxOpens
  <1> DEFINE u == [s EXCEPT !.rx[x] = [@ EXCEPT !.sig = TRUE, !.lev = l]]
             t == DispatchEvents(SetSquelchOpen(u, x, TRUE))
  <1>4. Step(t)
    BY <1>3
  <1> HIDE DEF s
  <1>5. Fine(s, t)
    BY <1>1, <1>2, OpensFact
  <1> HIDE DEF t
  <1> QED BY <1>4, <1>5, StepFine DEF s

(* The squelch of a receiver closes, at once or when its audio is flushed. *)
LEMMA RxClosesStep ==
    ASSUME IInv, NEW x \in Rxs, RxCloses(x)
    PROVE  IInv' /\ AudioKept
  <1> DEFINE s == State
             u == [s EXCEPT !.rx[x].sig = FALSE]
             f == DispatchEvents(Flushed(u, x))
             c == DispatchEvents(SetSquelchOpen(u, x, FALSE))
  <1>1. failed = None /\ rx[x].sig
    BY DEF RxCloses, Running
  <1>2. Rests(s) /\ s.rx = rx
    BY <1>1, InvRests
  <1>3. Step(u) \/ Step(f) \/ Step(c)
    BY DEF RxCloses
  <1> HIDE DEF s
  <1>4. Sound(u, {}, {}) /\ u.m = s.m /\ u.queue = <<>>
    <2>1. PICK b \in BOOLEAN : b = FALSE
      OBVIOUS
    <2>2. u = [s EXCEPT !.rx[x].sig = b]
      BY <2>1
    <2> HIDE DEF u
    <2>3. ~b /\ s.rx[x].sig /\ Sound(s, {}, {}) /\ s.queue = <<>> /\ {} \subseteq Rxs
      BY <1>1, <1>2, <2>1 DEF Rests
    <2> QED BY <2>2, <2>3, SigFact
  <1> HIDE DEF u
  <1>5. Fine(s, u)
    BY <1>4, SoundFine
  <1>6. Fine(s, f)
    BY <1>4, FlushFine
  <1>7. Fine(s, c)
    BY <1>4, CloseFine
  <1> HIDE DEF f, c
  <1> QED BY <1>3, <1>5, <1>6, <1>7, StepFine DEF s

(* The signal level of a receiver changes. *)
LEMMA SignalLevelStep ==
    ASSUME IInv, NEW x \in Rxs, SignalLevelUpdated(x)
    PROVE  IInv' /\ AudioKept
  <1> DEFINE s == State
  <1>1. failed = None /\ (rx[x].sig \/ rx[x].mute # "ALL")
    BY DEF SignalLevelUpdated, Running
  <1>2. Rests(s) /\ s.rx = rx
    BY <1>1, InvRests
  <1>3. PICK l \in LEVELS :
            LET u == [s EXCEPT !.rx[x].lev = l]
            IN  Step(IF rx[x].open /\ rx[x].enabled THEN HandleSignalLevel(u, x) ELSE u)
    BY DEF SignalLevelUpdated
  <1> DEFINE u == [s EXCEPT !.rx[x].lev = l]
             t == IF rx[x].open /\ rx[x].enabled THEN HandleSignalLevel(u, x) ELSE u
  <1>4. Step(t)
    BY <1>3
  <1> HIDE DEF s
  <1>5. /\ Sound(u, {}, {}) /\ u.m = s.m /\ u.queue = <<>>
        /\ u.rx[x].enabled = s.rx[x].enabled /\ u.rx[x].open = s.rx[x].open
    <2>1. /\ s.rx[x].sig \/ s.rx[x].mute # "ALL"
          /\ Sound(s, {}, {}) /\ s.queue = <<>>
      BY <1>1, <1>2 DEF Rests
    <2> QED BY <2>1, LevelFact
  <1> HIDE DEF u
  <1>6. Fine(s, t)
    <2>1. CASE rx[x].open /\ rx[x].enabled
      BY <1>2, <1>5, <2>1, SignalLevelFine
    <2>2. CASE ~(rx[x].open /\ rx[x].enabled)
      BY <1>5, <2>2, SoundFine
    <2> QED BY <2>1, <2>2
  <1> HIDE DEF t
  <1> QED BY <1>4, <1>6, StepFine DEF s

(* Audio of a receiver arrives, or leaves. *)
LEMMA AudioSteps ==
    ASSUME IInv, NEW x \in Rxs, AudioArrives(x) \/ OutputFlushed(x) \/ LateAnswer(x)
    PROVE  IInv' /\ AudioKept
  <1> DEFINE s == State
             u == Kept(s, x)
             f == DispatchEvents(Flushed(s, x))
             a == DispatchEvents(Answered(s, x))
  <1>1. failed = None
    BY DEF AudioArrives, OutputFlushed, LateAnswer, Running
  <1>2. Rests(s) /\ s.rx = rx
    BY <1>1, InvRests
  <1>3. Step(u) \/ Step(f) \/ Step(a)
    BY <1>2 DEF AudioArrives, OutputFlushed, LateAnswer
  <1> HIDE DEF s
  <1>4. Sound(s, {}, {}) /\ s.queue = <<>> /\ {} \subseteq Rxs
    BY <1>2 DEF Rests
  <1>5. Sound(u, {}, {}) /\ u.m = s.m /\ u.queue = <<>>
    BY <1>4, AudioFact
  <1> HIDE DEF u
  <1>6. Fine(s, u)
    BY <1>5, SoundFine
  <1>7. Fine(s, f) /\ Fine(s, a)
    BY <1>4, FlushFine, AnswerFine
  <1> HIDE DEF f, a
  <1> QED BY <1>3, <1>6, <1>7, StepFine DEF s

(* A receiver is enabled or disabled. *)
LEMMA SetRxEnabledStep ==
    ASSUME IInv, ~REDUNDANT, "CONTENT" \notin COMMANDS, NEW x \in Rxs, NEW c \in COMMANDS,
           SetRxEnabled(x, c)
    PROVE  IInv' /\ AudioKept
  <1> DEFINE s == State
             u == SetEnabled(s, x, c)
             t == IF u.rx[x].open
                  THEN DispatchEvents([u EXCEPT !.queue =
                            Append(@, [rx |-> x, open |-> c = "NONE"])])
                  ELSE u
  <1>1. failed = None /\ Step(t)
    BY DEF SetRxEnabled, SquelchEvent, Running
  <1>2. Rests(s) /\ s.rx = rx
    BY <1>1, InvRests
  <1>3. /\ c = "NONE" \/ c = "ALL"
        /\ c = "NONE" => ~rx[x].enabled
        /\ c = "ALL" => rx[x].mute # "ALL"
    BY VoterAssumption DEF SetRxEnabled, MuteStates
  <1> HIDE DEF s
  <1>4. Fine(s, t)
    <2>1. CASE c = "NONE"
      BY <1>2, <1>3, <2>1, EnableFine
    <2>2. CASE c = "ALL"
      BY <1>2, <1>3, <2>2, DisableFine
    <2> QED BY <1>3, <2>1, <2>2
  <1> HIDE DEF t
  <1> QED BY <1>1, <1>4, StepFine DEF s

(* The voter acts, by its timer, its tasks or a call. *)
LEMMA VoterSteps ==
    ASSUME IInv,
           TimerExpired \/ RunTasks \/ Reset \/ \E mute \in MuteStates : SetMuteState(mute)
    PROVE  IInv' /\ AudioKept
  <1> DEFINE s == State
             tim == DispatchEvents(HandleTimer([s EXCEPT !.m.timer = FALSE]))
             ran == RunAll(s)
             res == DispatchEvents(EnterMuted(ResetAll(s)))
             mut(b) == DispatchEvents(HandleSetMuteState(s, b))
  <1>1. failed = None
    BY DEF TimerExpired, RunTasks, Reset, SetMuteState, Running
  <1>2. Rests(s) /\ Good(s) /\ s.m = m
    BY <1>1, InvRests
  <1>3. \/ m.timer /\ Step(tim)
        \/ Step(ran) \/ Step(res) \/ \E b \in MuteStates : Step(mut(b))
    BY DEF TimerExpired, RunTasks, Reset, SetMuteState
  <1> HIDE DEF s
  <1>4. /\ m.timer => Fine(s, tim)
        /\ Fine(s, ran) /\ Fine(s, res) /\ \A b \in MuteStates : Fine(s, mut(b))
    BY <1>2, TimerFine, RunAllFine, ResetFine, SetMuteFine
  <1> HIDE DEF tim, ran, res, mut
  <1>5. PICK t : Step(t) /\ Fine(s, t)
    BY <1>3, <1>4
  <1> QED BY <1>5, StepFine DEF s

(* A stuttering step. *)
LEMMA StutterStep ==
    ASSUME IInv, UNCHANGED vars
    PROVE  IInv' /\ AudioKept
  <1>1. State' = State
    BY DEF vars, State
  <1> QED BY <1>1 DEF IInv, AudioKept, vars

(* Every step. *)
LEMMA NextStep ==
    ASSUME IInv, ~REDUNDANT, "CONTENT" \notin COMMANDS, [Next]_vars
    PROVE  IInv' /\ AudioKept
  <1>1. ASSUME NEW x \in Rxs, RxOpens(x) PROVE IInv' /\ AudioKept
    BY <1>1, RxOpensStep
  <1>2. ASSUME NEW x \in Rxs, RxCloses(x) PROVE IInv' /\ AudioKept
    BY <1>2, RxClosesStep
  <1>3. ASSUME NEW x \in Rxs, SignalLevelUpdated(x) PROVE IInv' /\ AudioKept
    BY <1>3, SignalLevelStep
  <1>4. ASSUME NEW x \in Rxs, AudioArrives(x) \/ OutputFlushed(x) \/ LateAnswer(x)
        PROVE  IInv' /\ AudioKept
    BY <1>4, AudioSteps
  <1>5. ASSUME NEW x \in Rxs, NEW c \in COMMANDS, SetRxEnabled(x, c)
        PROVE  IInv' /\ AudioKept
    BY <1>5, SetRxEnabledStep
  <1>6. CASE TimerExpired \/ RunTasks \/ Reset \/ \E mute \in MuteStates : SetMuteState(mute)
    BY <1>6, VoterSteps
  <1>7. CASE UNCHANGED vars
    BY <1>7, StutterStep
  <1> QED BY <1>1, <1>2, <1>3, <1>4, <1>5, <1>6, <1>7 DEF Next

(* The invariant says what is promised. *)
LEMMA InvSound == IInv => VoterSound
  <1> SUFFICES ASSUME IInv PROVE VoterSound
    OBVIOUS
  <1>1. TypeOK
    BY DEF IInv, Good, Live, Voters, State, TypeOK
  <1>2. CASE failed # None
    BY <1>1, <1>2 DEF VoterSound, BestIsOpen, SquelchReported, MutesFit, MutedIsSilent,
                      ActiveHeard
  <1>3. CASE failed = None
    <2> DEFINE s == State
    <2>1. /\ Rests(s) /\ s.m = m /\ s.rx = rx /\ s.tasks = tasks /\ s.sql = sql
      BY <1>3, InvRests
    <2> HIDE DEF s
    <2>2. /\ ReceiversOK(s, {}) /\ Reported(s) /\ WantsOK(s, {})
          /\ s.m.best = None => \A x \in Rxs : ~Heard(s, x)
          /\ s.m.best # None => s.m.best \in Rxs /\ Heard(s, s.m.best)
          /\ s.m.state \in SquelchOpenStates => s.m.active \in Rxs /\ Heard(s, s.m.active)
      BY <2>1, RestsFact DEF Base, SelectedStates
    <2>3. BestIsOpen
      BY <2>1, <2>2 DEF BestIsOpen, Heard
    <2>4. SquelchReported
      <3>1. ASSUME s.tasks = <<>> PROVE NoReport(s.tasks, 1)
        BY <3>1, EmptySeq DEF NoReport
      <3> QED BY <2>1, <2>2, <3>1
          DEF SquelchReported, Reported, SaysOpen, SaysClosed
    <2>5. MutedIsSilent
      BY <2>1, <2>2 DEF MutedIsSilent, ReceiversOK, WantsOK, Silent, Still
    <2>6. ActiveHeard
      BY <2>1, <2>2 DEF ActiveHeard, ReceiversOK, WantsOK, Heard, SelectedStates
    <2> QED BY <1>1, <2>3, <2>4, <2>5, <2>6 DEF VoterSound, MutesFit
  <1> QED BY <1>2, <1>3

(* VoterSound: the best receiver is never stale, the squelch that is reported is that of  *)
(* the machine, and the mute states of the receivers fit; for all receivers, levels and   *)
(* delays, provided that a receiver is only enabled when it is disabled, and disabled by  *)
(* the command that mutes it completely (Voter.cpp).                                      *)
THEOREM VoterAlwaysSound ==
    ASSUME ~REDUNDANT, "CONTENT" \notin COMMANDS
    PROVE  Spec => []VoterSound
  <1>1. IInv /\ [Next]_vars => IInv'
    BY NextStep
  <1>2. Spec => []IInv
    BY <1>1, InitInv, PTL DEF Spec
  <1> QED BY <1>2, InvSound, PTL

(* VotedAudioKept: the audio that was buffered of a receiver is there when it is          *)
(* selected, under the same provisos (Voter::ActiveRxSelected::entry, SatRx).             *)
THEOREM VotedAudioAlwaysKept ==
    ASSUME ~REDUNDANT, "CONTENT" \notin COMMANDS
    PROVE  Spec => VotedAudioKept
  <1>1. IInv /\ [Next]_vars => IInv'
    BY NextStep
  <1>2. IInv /\ [Next]_vars =>
            [m'.active \notin {None, m.active} /\ m'.mute = "NONE" =>
                rx'[m'.active].unflushed = rx[m'.active].unflushed]_vars
    BY NextStep DEF AudioKept
  <1> QED BY <1>1, <1>2, InitInv, PTL DEF Spec, VotedAudioKept
=============================================================================
