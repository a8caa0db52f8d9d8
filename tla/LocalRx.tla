------------------------------ MODULE LocalRx ------------------------------
(***************************************************************************)
(* A local receiver (svxlink/trx/LocalRxBase.cpp): its squelch, which      *)
(* combines several squelches (SquelchCombine.cpp), the valve that the     *)
(* squelch controls, its muting and the squelch that it reports.           *)
(*                                                                         *)
(* Samples pass the valve to the logic, then the squelch (the valve is at  *)
(* the main branch of the splitter, which is written first).  Of the audio *)
(* behind the valve only the state of the stream is kept.  A receiver with *)
(* a single squelch is one that combines just that.                        *)
(***************************************************************************)
EXTENDS Squelch, Sequences, Functions

CONSTANTS
    NODES,      \* the parsed expression SQL_COMBINE, parents before children, 1 is the root
    LEAVES,     \* its leaves from left to right
    EVENTS,     \* the leaves that work on events, not on the audio
    Top,        \* the combining squelch itself
    TIMES,      \* the configured times, by squelch
    EXTENDED,   \* SQL_EXTENDED_HANGTIME_THRESH is set
    WIDEBAND,   \* behind a wide band receiver, which may become unready
    BLOCK,      \* samples in a block
    MUTES       \* the mute states that are asked for

Leaves == Range(LEAVES)
Names == Leaves \cup {Top}
MuteStates == {"NONE", "CONTENT", "ALL"}

Nodes ==
    [op : {"leaf"}, leaf : Leaves] \cup [op : {"not"}, left : Nat]
        \cup [op : {"and", "or"}, left : Nat, right : Nat]

ASSUME LocalRxAssumption ==
    /\ LEAVES \in Seq(Leaves) /\ Top \notin Leaves /\ EVENTS \subseteq Leaves
    /\ NODES \in Seq(Nodes) /\ NODES # <<>>
    /\ \A i \in DOMAIN NODES :
        /\ NODES[i].op # "leaf" => NODES[i].left \in i + 1 .. Len(NODES)
        /\ NODES[i].op \in {"and", "or"} => NODES[i].right \in i + 1 .. Len(NODES)
    /\ NODES[1].op = "leaf" => Leaves = {NODES[1].leaf}
    /\ TIMES \in [Names -> Parameters] /\ {EXTENDED, WIDEBAND} \subseteq BOOLEAN
    /\ BLOCK \in Nat \ {0} /\ MUTES \subseteq MuteStates

VARIABLES
    sqs,        \* the squelches
    rx,         \* the receiver
    carrier,    \* what the detectors of the leaves would find
    low         \* the signal level is below the threshold

vars == <<sqs, rx, carrier, low>>

Receivers ==
    [mute     : MuteStates,
     valve    : BOOLEAN,    \* sql_valve is open
     idle     : BOOLEAN,    \* sql_valve is idle
     stream   : {"IDLE", "ACTIVE", "FLUSHING"},     \* state_det
     reported : BOOLEAN,    \* m_sql_open
     told     : BOOLEAN,    \* history: a leaf has emitted since the last reset
     slipped  : BOOLEAN]    \* history: valve and report no longer follow the squelch

Init ==
    /\ sqs = [q \in Names |-> Created]
    /\ rx = [mute |-> "ALL", valve |-> FALSE, idle |-> TRUE, stream |-> "IDLE",
             reported |-> FALSE, told |-> FALSE, slipped |-> FALSE]
    /\ carrier = [l \in Leaves |-> FALSE] /\ low = FALSE

\* Operators below take and return the whole state s.
State == [sq |-> sqs, rx |-> rx]

Step(s) == sqs' = s.sq /\ rx' = s.rx

----------------------------------------------------------------------------
\* AudioValve::setOpen(false) of sql_valve.
CloseValve(s) ==
    IF ~s.rx.valve THEN s
    ELSE [s EXCEPT !.rx.valve = FALSE,
                   !.rx.stream = IF s.rx.idle THEN @ ELSE "FLUSHING"]

SetSqlHangtimeFromSiglev(s, isLow) ==
    IF ~EXTENDED THEN s
    ELSE [s EXCEPT !.sq[Top] = EnableExtendedHangtime(@, isLow /\ s.rx.mute = "NONE")]

\* The history: valve and report come apart from the squelch when it opens while all is
\* muted, and when it closes before a block has passed the valve since the last flush.
Slips(s, isOpen) ==
    [s EXCEPT !.rx.slipped = IF s.rx.mute = "ALL" THEN isOpen
                             ELSE ~isOpen /\ s.rx.valve /\ s.rx.idle]

OpenReported(s) ==
    SetSqlHangtimeFromSiglev(
        [s EXCEPT !.rx.reported = TRUE, !.rx.valve = @ \/ s.rx.mute = "NONE"], low)

CloseReported(s) == IF s.rx.valve THEN CloseValve(s) ELSE [s EXCEPT !.rx.reported = FALSE]

\* LocalRxBase::onSquelchOpen.
OnSquelchOpen(s, isOpen) ==
    IF s.rx.mute = "ALL" THEN Slips(s, isOpen)
    ELSE IF isOpen THEN OpenReported(Slips(s, isOpen)) ELSE CloseReported(Slips(s, isOpen))

\* The combining squelch becomes r.
TopBecomes(s, r) ==
    LET t == [s EXCEPT !.sq[Top] = [r EXCEPT !.out = "none"]]
    IN  IF r.out = "none" THEN t ELSE OnSquelchOpen(t, r.out = "open")

\* isOpen of the nodes.
NodeIsOpen(s) ==
    LET isOpen[i \in DOMAIN NODES] ==
            LET node == NODES[i] IN
            CASE node.op = "leaf" -> IsOpen(s.sq[node.leaf])
              [] node.op = "not"  -> ~isOpen[node.left]
              [] node.op = "and"  -> isOpen[node.left] /\ isOpen[node.right]
              [] OTHER            -> isOpen[node.left] \/ isOpen[node.right]
    IN  isOpen

\* Mutant: an operator passes on what its operand emits.
RootEmitsOperand(s, b) == b

\* What the root emits when a leaf emits b: a negation passes on what its operand emits.
RootEmits(s, b) ==
    LET emits[i \in DOMAIN NODES] ==
            IF NODES[i].op = "leaf" THEN b
            ELSE IF NODES[i].op = "not" THEN emits[NODES[i].left]
            ELSE NodeIsOpen(s)[i]
    IN  emits[1]

\* SquelchCombine::onSquelchOpen.
OnCombined(s, isOpen) == TopBecomes(s, SetSignalDetected(TIMES[Top], s.sq[Top], isOpen))

\* Squelch q becomes r.
Becomes(s, q, r) ==
    LET t == [s EXCEPT !.sq[q] = [r EXCEPT !.out = "none"], !.rx.told = @ \/ r.out # "none"]
    IN  IF q = Top THEN TopBecomes(s, r)
        ELSE IF r.out = "none" THEN t ELSE OnCombined(t, RootEmits(t, r.out = "open"))

\* Squelch::writeSamples, of n samples, up to processSamples,
SamplesBegun(s, q, n) ==
    LET t == Becomes(s, q, TimeoutStage(s.sq[q], n))
    IN  Becomes(t, q, StartStage(TIMES[q], t.sq[q], n))

\* and after it, of the rest that the start delay has left.
SamplesEnded(s, q, rest) ==
    LET t == Becomes(s, q, DelayStage(TIMES[q], s.sq[q], rest))
    IN  Becomes(t, q, HangStage(TIMES[q], t.sq[q], rest))

\* The detector of a leaf.
Detect(s, l) == Becomes(s, l, SetSignalDetected(TIMES[l], s.sq[l], carrier[l]))

LeafSamples(s, l, n) ==
    LET rest == AfterStart(s.sq[l], n)
        t    == SamplesBegun(s, l, n)
    IN  IF t.sq[l].startLeft > 0 THEN t
        ELSE SamplesEnded(IF rest = 0 \/ l \in EVENTS THEN t ELSE Detect(t, l), l, rest)

\* The combining squelch hands what it processes to the leaves, one after the other.
AllLeavesSamples(s, n) ==
    LET after[i \in 0 .. Len(LEAVES)] ==
            IF i = 0 THEN s ELSE LeafSamples(after[i - 1], LEAVES[i], n)
    IN  after[Len(LEAVES)]

TopSamples(s, n) ==
    LET rest == AfterStart(s.sq[Top], n)
        t    == SamplesBegun(s, Top, n)
    IN  IF t.sq[Top].startLeft > 0 THEN t
        ELSE SamplesEnded(IF rest = 0 THEN t ELSE AllLeavesSamples(t, rest), Top, rest)

ResetAll(s) ==
    [s EXCEPT !.sq = [q \in Names |-> Reset(TIMES[q], s.sq[q])], !.rx.told = FALSE]

RestartAll(s) == [s EXCEPT !.sq = [q \in Names |-> Restart(TIMES[q], s.sq[q])]]

\* The steps of setMuteState: to MUTE_CONTENT and MUTE_ALL,
MuteContent(s) == CloseValve(s)

\* Mutant: what was reported stays.
MuteAllReported(s) == [ResetAll(s) EXCEPT !.rx.idle = TRUE]

MuteAll(s) ==
    [ResetAll(s) EXCEPT !.rx.reported = FALSE, !.rx.idle = TRUE, !.rx.slipped = FALSE]

\* and back to MUTE_CONTENT and MUTE_NONE.
UnmuteContent(s) == RestartAll(s)
UnmuteNone(s) ==
    [s EXCEPT !.rx.valve = @ \/ s.rx.reported,
              !.rx.slipped = @ \/ (s.rx.reported /\ ~IsOpen(s.sq[Top]))]

Muted(s, from, to) ==
    CASE from = "NONE" /\ to = "CONTENT" -> MuteContent(s)
      [] from = "NONE" /\ to = "ALL"     -> MuteAll(MuteContent(s))
      [] from = "CONTENT" /\ to = "ALL"  -> MuteAll(s)
      [] from = "ALL" /\ to = "CONTENT"  -> UnmuteContent(s)
      [] from = "ALL" /\ to = "NONE"     -> UnmuteNone(UnmuteContent(s))
      [] from = "CONTENT" /\ to = "NONE" -> UnmuteNone(s)

----------------------------------------------------------------------------
\* The audio device delivers a block, which passes the valve and then the squelch.
Block ==
    /\ rx.mute # "ALL"
    /\ LET passed == [State EXCEPT !.rx.idle = FALSE,
                                   !.rx.stream = IF rx.valve THEN "ACTIVE" ELSE @]
       IN  Step(TopSamples(passed, BLOCK))
    /\ UNCHANGED <<carrier, low>>

\* A detector that works on events, or polls, finds what is there.
Event(l) ==
    /\ l \in EVENTS
    /\ Step(Detect(State, l))
    /\ UNCHANGED <<carrier, low>>

\* The sinks have flushed what the valve has let through.
OutputFlushed ==
    /\ rx.stream = "FLUSHING"
    /\ rx' = [rx EXCEPT !.stream = "IDLE", !.idle = TRUE,
                        !.reported = @ /\ IsOpen(sqs[Top])]
    /\ UNCHANGED <<sqs, carrier, low>>

\* The logic or the voter mutes or unmutes.  An audio device that does not open leaves
\* everything muted.
SetMuteState(to) ==
    /\ to # rx.mute
    /\ Step([Muted(State, rx.mute, to) EXCEPT !.rx.mute = to])
    /\ UNCHANGED <<carrier, low>>

\* rxReadyStateChanged, with the level that a signal level detector has after its reset.
NotReady ==
    /\ WIDEBAND
    /\ low' \in BOOLEAN
    /\ Step(OnSquelchOpen(SetSqlHangtimeFromSiglev(ResetAll(State), low'), FALSE))
    /\ UNCHANGED carrier

\* onSignalLevelUpdated.
SignalLevelUpdated ==
    /\ low' = ~low
    /\ Step(SetSqlHangtimeFromSiglev(State, low'))
    /\ UNCHANGED carrier

\* What is received changes.
CarrierChanges(l) ==
    /\ carrier' = [carrier EXCEPT ![l] = ~@]
    /\ UNCHANGED <<sqs, rx, low>>

Next ==
    \/ Block \/ OutputFlushed \/ NotReady \/ SignalLevelUpdated
    \/ \E l \in Leaves : Event(l) \/ CarrierChanges(l)
    \/ \E to \in MUTES : SetMuteState(to)

Spec == Init /\ [][Next]_vars

\* A block would change something: a time passes or the detectors disagree.
Unsettled ==
    \/ \E q \in Names :
        sqs[q].startLeft > 0 \/ sqs[q].delayLeft > 0 \/ sqs[q].hangLeft > 0 \/ sqs[q].timeoutLeft > 0
    \/ \E l \in Leaves \ EVENTS : sqs[l].signal # carrier[l]

\* The audio device goes on delivering until all is muted, and the sinks flush in their
\* time.  The first conjunct is implied by WF_vars(Block).
FairSpec ==
    /\ Spec
    /\ []<>(rx.mute = "ALL" \/ ~Unsettled) \/ []<><<Block>>_vars
    /\ \A l \in EVENTS : []<>(sqs[l].signal = carrier[l]) \/ []<><<Event(l)>>_vars
    /\ WF_vars(OutputFlushed)

----------------------------------------------------------------------------
\* The types of the variables.
TypeOK ==
    /\ sqs \in [Names -> Squelches] /\ rx \in Receivers
    /\ carrier \in [Leaves -> BOOLEAN] /\ low \in BOOLEAN
    /\ \A q \in Names : sqs[q].out = "none"

Heard == IsOpen(sqs[Top])

\* The combining squelch has a signal exactly while its expression is true, once a squelch
\* in it has opened or closed since the last reset (SquelchCombine.cpp).
CombinedFollows == rx.told => (sqs[Top].signal <=> NodeIsOpen(State)[1])

\* Unless valve and report have slipped, audio is let through only while the squelch is
\* open and nothing is muted, and always then; when the squelch is closed the receiver is
\* reported open no longer than it takes to flush.  Muted, it never lets anything through,
\* and reports nothing if all is muted (LocalRxBase.cpp).
ReceiverFollows ==
    /\ ~rx.slipped =>
        /\ rx.valve <=> Heard /\ rx.mute = "NONE"
        /\ Heard /\ rx.mute # "ALL" => rx.reported
        /\ rx.reported /\ ~Heard => rx.mute # "ALL" /\ rx.stream = "FLUSHING"
    /\ rx.mute # "NONE" => ~rx.valve
    /\ rx.mute = "ALL" => ~rx.reported

\* The squelch of a receiver follows its expression, and the receiver its squelch
\* (LocalRxBase.cpp, SquelchCombine.cpp).
ReceiverSound == TypeOK /\ CombinedFollows /\ ReceiverFollows

\* The expression as a function of what there is to detect.
Wanted ==
    LET isWanted[i \in DOMAIN NODES] ==
            LET node == NODES[i] IN
            CASE node.op = "leaf" -> carrier[node.leaf]
              [] node.op = "not"  -> ~isWanted[node.left]
              [] node.op = "and"  -> isWanted[node.left] /\ isWanted[node.right]
              [] OTHER            -> isWanted[node.left] \/ isWanted[node.right]
    IN  isWanted[1]

\* Once nothing is muted, the receiver stays ready and what there is to detect stays as it
\* is, the receiver comes to let it through if the expression asks for it, for as long as
\* the squelch has not timed out, and to be reported closed otherwise, unless they have slipped.
SignalHeard ==
    \A c \in [Leaves -> BOOLEAN] :
        <>[](rx.mute = "NONE" /\ carrier = c) /\ <>[][~NotReady]_vars
            => <>[](\/ rx.slipped
                    \/ IF Wanted THEN rx.valve \/ sqs[Top].timeoutLeft = 0 ELSE ~rx.reported)
=============================================================================
