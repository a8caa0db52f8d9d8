----------------------------- MODULE LogicAudio -----------------------------
(***************************************************************************)
(* The audio of a logic core (svxlink/svxlink/Logic.cpp) with the module   *)
(* Parrot active or not, over the classes of async/audio: splitters,       *)
(* selectors, valves and FIFOs that are connected once, and then pass      *)
(* audio on by calling each other.                                         *)
(*                                                                         *)
(* A sink takes a block or refuses it, and calls resumeOutput when it has  *)
(* room again; a source asks for a flush, and is told when all samples are *)
(* flushed.  Each of these calls may run through the whole pipe, out at a  *)
(* signal of the logic and back into the pipe, before it returns: an       *)
(* action is such a call with all it leads to.                             *)
(*                                                                         *)
(* A block of audio is the unit, so a write is taken or refused as a       *)
(* whole.  External are what feeds the core (receiver, linked logics) and  *)
(* the last sinks (mixer and transmitter, linked logics).                  *)
(***************************************************************************)
EXTENDS Naturals, Sequences, SequencesExt

CONSTANTS
    REPEAT_DELAY,   \* is it set?
    TX_FIFO,        \* blocks in the FIFO before the transmitter,
    TX_PREBUF,      \* of which so many are waited for
    PARROT_FIFO,    \* blocks that Parrot records (FIFO_LEN)
    ROOM            \* blocks that a last sink holds

ASSUME AudioAssumption ==
    /\ REPEAT_DELAY \in BOOLEAN /\ TX_PREBUF \in 0..TX_FIFO - 1
    /\ {TX_FIFO, PARROT_FIFO, ROOM} \subseteq Nat \ {0}

VARIABLES
    p,      \* the stages of the pipe
    l       \* the logic core and its module

vars == <<p, l>>

----------------------------------------------------------------------------
(* How the stages are connected *)

Writers   == {"rx", "link"}
Sinks     == {"tx", "con_out"}          \* the mixer, what LinkManager connects
Valves    == {"rx_valve", "rpt_valve", "parrot_valve"}
Fifos     == {"parrot_fifo", "tx_fifo"}
Splitters == {"rx_splitter", "logic_con_in", "to_module", "from_module"}
Selectors == {"to_module_selector", "logic_con_out", "from_module_selector",
              "tx_selector"}
Inputs    == {"rx_to_module", "link_to_module", "rx_to_out", "module_to_out",
              "rpt_to_tx", "link_to_tx", "module_to_tx", "from_parrot"}

\* What a splitter writes to, in its order. Each has a main branch without a sink, too.
Outs ==
    [rx_splitter  |-> <<"rx_to_module", "rx_to_out", "rpt_valve">>,
     logic_con_in |-> <<"link_to_module", "link_to_tx">>,
     to_module    |-> <<"adapter">>,
     from_module  |-> <<"module_to_tx", "module_to_out">>]

\* What all others write to: the branch of a selector to the selector.
To ==
    [rx            |-> "rx_valve",              link           |-> "logic_con_in",
     rx_valve      |-> "rx_splitter",           rpt_valve      |-> "rpt_to_tx",
     rx_to_module  |-> "to_module_selector",    link_to_module |-> "to_module_selector",
     rx_to_out     |-> "logic_con_out",         module_to_out  |-> "logic_con_out",
     rpt_to_tx     |-> "tx_selector",           link_to_tx     |-> "tx_selector",
     module_to_tx  |-> "tx_selector",           from_parrot    |-> "from_module_selector",
     adapter       |-> "parrot_fifo",           parrot_fifo    |-> "parrot_valve",
     parrot_valve  |-> "from_parrot",           tx_selector    |-> "state_det",
     state_det     |-> "tx_fifo",               tx_fifo        |-> "tx",
     to_module_selector   |-> "to_module",      logic_con_out  |-> "con_out",
     from_module_selector |-> "from_module"]

From ==
    [d \in Sinks \cup Valves \cup Fifos \cup Splitters \cup Inputs
             \cup {"adapter", "state_det"} |->
        CHOOSE u \in DOMAIN To \cup Splitters :
            IF u \in Splitters THEN d \in ToSet(Outs[u]) ELSE To[u] = d]

Prio ==
    [rx_to_module |-> 10, link_to_module |-> 0, rx_to_out |-> 10, module_to_out |-> 0,
     rpt_to_tx |-> 20, link_to_tx |-> 10, module_to_tx |-> 0, from_parrot |-> 0]

BlocksWhenClosed(n) == n = "parrot_valve"
Overwrites(n) == n = "parrot_fifo"
Size(n) == IF n = "parrot_fifo" THEN PARROT_FIFO ELSE TX_FIFO
Prebuf(n) == IF n = "parrot_fifo" THEN 0 ELSE TX_PREBUF

----------------------------------------------------------------------------
(* State *)

ValveState(open) ==
    [open |-> open, idle |-> TRUE, flushing |-> FALSE, inStopped |-> FALSE]
SplitterState(n) ==
    [buf |-> FALSE,         \* a block is kept for the branches
     pend |-> {},           \* that have not taken it
     doFlush |-> FALSE, answered |-> 0, inStopped |-> FALSE,
     br |-> [b \in ToSet(Outs[n]) |->
                [enabled |-> b # "adapter", stopped |-> FALSE, flushing |-> FALSE,
                 flushed |-> TRUE]]]
SelectorState == [cur |-> "none", stream |-> "IDLE"]
FifoState(n) ==
    [n |-> 0, prebuf |-> Prebuf(n) > 0, outStopped |-> FALSE, inStopped |-> FALSE,
     flushing |-> FALSE]
SinkState == [n |-> 0, stopped |-> FALSE, flushing |-> FALSE]

\* When the squelch closes a repeater may go up or down, the script that is told may play a
\* message, or a command that has waited may be executed; one of them is enough.
Consequences == {"nothing", "turns", "message", "command"}

\* A repeater repeats its receiver, a simplex logic does not; it has active links or none.
Init ==
    \E repeater, linked \in BOOLEAN :
        /\ p = [n \in Writers \cup Sinks \cup Valves \cup Fifos \cup Splitters
                        \cup Selectors \cup Inputs \cup {"state_det"} |->
                CASE n \in Writers \cup Inputs \cup {"state_det"} -> "IDLE"
                  [] n \in Sinks -> SinkState
                  [] n \in Fifos -> FifoState(n)
                  [] n \in Splitters -> SplitterState(n)
                  [] n \in Selectors -> SelectorState
                  [] n = "rx_valve" -> ValveState(~repeater)
                  [] n = "rpt_valve" -> ValveState(repeater)
                  [] n = "parrot_valve" -> ValveState(FALSE)]
        /\ l = [repeater |-> repeater, linked |-> linked,
                signal |-> FALSE,   \* the squelch detector is open
                sql |-> FALSE,      \* the squelch is open
                then |-> "nothing", \* what its change leads to, of Consequences
                msg |-> FALSE,      \* a message is played
                idle |-> TRUE,      \* the logic core is idle
                active |-> FALSE,   \* Parrot is the active module
                conn |-> FALSE,     \* and told of the idle state
                heard |-> FALSE,    \* squelch_is_open, as it was told
                repeat |-> FALSE,   \* repeat_delay_timer
                quit |-> FALSE,     \* the command to leave is in cmd_queue
                failed |-> FALSE]   \* an assertion failed

\* Operators below take and return the whole state s. A write also says if it was taken.
State == [p |-> p, l |-> l]

Step(s) == p' = s.p /\ l' = s.l

Took(s) == [s |-> s, took |-> TRUE]
Refused(s) == [s |-> s, took |-> FALSE]

\* The calls that may lead back to where they come from: a stage calls the sink n, or n calls
\* its source; a valve or a splitter goes on; the logic looks at its idle state or leaves
\* the module. Call is below, where the functions of all stages are known.
RECURSIVE Call(_, _, _)
Write(s, n) == Call(s, "writeSamples", n)
Flush(s, n) == Call(s, "flushSamples", n).s
SourceResumeOutput(s, n) == Call(s, "resumeOutput", n).s
SourceAllSamplesFlushed(s, n) == Call(s, "allSamplesFlushed", n).s
SetOpen(s, n, open) == Call(s, IF open THEN "open" ELSE "close", n).s
WriteBuffered(s, n) == Call(s, "writeFromBuffer", n).s
CheckIdle(s) == Call(s, "checkIdle", "logic").s
DeactivateModule(s) == Call(s, "deactivate", "module").s

----------------------------------------------------------------------------
(* Valve *)

WriteValve(s, n) ==
    LET t == [s EXCEPT !.p[n].idle = FALSE, !.p[n].flushing = FALSE]
        r == IF s.p[n].open THEN Write(t, To[n])
             ELSE [s |-> t, took |-> ~BlocksWhenClosed(n)]
    IN  IF r.took THEN r ELSE Refused([r.s EXCEPT !.p[n].inStopped = TRUE])

ValveDone(s, n) == [s EXCEPT !.p[n].flushing = FALSE, !.p[n].idle = TRUE]

FlushValve(s, n) ==
    IF s.p[n].open THEN Flush([s EXCEPT !.p[n].flushing = TRUE], To[n])
    ELSE SourceAllSamplesFlushed(ValveDone(s, n), n)

ValveResumes(s, n) ==
    IF s.p[n].inStopped THEN SourceResumeOutput([s EXCEPT !.p[n].inStopped = FALSE], n) ELSE s

ValveAllSamplesFlushed(s, n) ==
    IF s.p[n].open /\ s.p[n].flushing THEN SourceAllSamplesFlushed(ValveDone(s, n), n)
    ELSE ValveDone(s, n)

ValveAnswers(s, n) ==
    IF s.p[n].flushing THEN SourceAllSamplesFlushed(ValveDone(s, n), n) ELSE s

CloseValve(s, n) ==
    LET t == IF s.p[n].idle \/ s.p[n].flushing THEN s ELSE Flush(s, To[n])
    IN  ValveAnswers(IF BlocksWhenClosed(n) THEN t ELSE ValveResumes(t, n), n)

OpenValve(s, n, open) ==        \* setOpen
    LET t == [s EXCEPT !.p[n].open = open]
    IN  IF s.p[n].open = open THEN s
        ELSE IF open THEN ValveResumes(t, n) ELSE CloseValve(t, n)

----------------------------------------------------------------------------
(* Splitter *)

\* A block is offered to a branch.
WriteBranch(s, n, b) ==
    LET t     == [s EXCEPT !.p[n].br[b].flushed = FALSE, !.p[n].br[b].flushing = FALSE]
        taken(u) == [u EXCEPT !.p[n].pend = @ \ {b}]
        r     == Write(t, b)
    IN  IF ~s.p[n].br[b].enabled THEN taken(t)
        ELSE IF s.p[n].br[b].stopped THEN t
        ELSE IF r.took THEN taken([r.s EXCEPT !.p[n].br[b].stopped = FALSE])
        ELSE [r.s EXCEPT !.p[n].br[b].stopped = TRUE]

BranchAllSamplesFlushed(s, n) ==
    LET t == [s EXCEPT !.p[n].answered = @ + 1]
    IN  IF t.p[n].answered = Len(Outs[n]) + 1
        THEN SourceAllSamplesFlushed([t EXCEPT !.p[n].doFlush = FALSE], n) ELSE t

\* The main branch has no sink, and answers first.
FlushAllBranches(s, n) ==
    LET flush(u, b) ==
            IF u.p[n].br[b].enabled THEN Flush([u EXCEPT !.p[n].br[b].flushing = TRUE], b)
            ELSE BranchAllSamplesFlushed([u EXCEPT !.p[n].br[b].flushed = TRUE], n)
    IN  FoldLeft(flush, BranchAllSamplesFlushed(s, n), Outs[n])

WriteFromBuffer(s, n) ==
    LET again(a, b) ==
            IF b \notin a.s.p[n].pend \/ ~a.s.p[n].buf THEN a
            ELSE LET v == WriteBranch(a.s, n, b)
                     took == b \notin v.p[n].pend
                 IN  [s |-> v, some |-> a.some \/ took, all |-> a.all /\ took]
        r == FoldLeft(again, [s |-> s, some |-> FALSE, all |-> TRUE], Outs[n])
        written == [r.s EXCEPT !.p[n].buf = FALSE]
    IN  IF ~s.p[n].buf THEN s
        ELSE IF r.all
        THEN IF written.p[n].doFlush THEN FlushAllBranches(written, n) ELSE written
        ELSE IF r.some THEN WriteBuffered(r.s, n) ELSE r.s

WriteSplitter(s, n) ==
    LET t == [s EXCEPT !.p[n].doFlush = FALSE]
        offer(u, b) ==
            LET v == WriteBranch([u EXCEPT !.p[n].pend = @ \cup {b}], n, b)
            IN  IF b \in v.p[n].pend THEN [v EXCEPT !.p[n].buf = TRUE] ELSE v
    IN  IF s.p[n].buf THEN Refused([t EXCEPT !.p[n].inStopped = TRUE])
        ELSE Took(WriteBuffered(FoldLeft(offer, t, Outs[n]), n))

FlushSplitter(s, n) ==
    LET t == [s EXCEPT !.p[n].doFlush = TRUE, !.p[n].answered = 0]
    IN  IF s.p[n].doFlush THEN s
        ELSE IF s.p[n].buf THEN t ELSE FlushAllBranches(t, n)

BranchResumeOutput(s, n) ==
    LET t == WriteBuffered(s, n)
    IN  IF t.p[n].inStopped /\ ~t.p[n].buf
        THEN SourceResumeOutput([t EXCEPT !.p[n].inStopped = FALSE], n) ELSE t

\* The calls of the sink of a branch.
BranchResumes(s, n, b) ==
    LET t == [s EXCEPT !.p[n].br[b].stopped = FALSE]
    IN  IF s.p[n].br[b].enabled THEN BranchResumeOutput(t, n) ELSE t

BranchFlushed(s, n, b) ==
    LET br == s.p[n].br[b]
        t  == [s EXCEPT !.p[n].br[b].flushing = FALSE, !.p[n].br[b].flushed = TRUE]
    IN  IF br.enabled /\ br.flushing THEN BranchAllSamplesFlushed(t, n) ELSE t

\* The end of setEnabled for a branch that has been disabled.
BranchEnds(s, n, b) ==
    IF s.p[n].br[b].flushing
    THEN BranchAllSamplesFlushed([s EXCEPT !.p[n].br[b].flushing = FALSE], n)
    ELSE IF s.p[n].br[b].flushed THEN s ELSE Flush(s, b)

SetEnabled(s, n, b, enabled) ==
    LET t == [s EXCEPT !.p[n].br[b].enabled = enabled]
        u == [t EXCEPT !.p[n].br[b].stopped = FALSE]
    IN  IF enabled \/ ~s.p[n].br[b].enabled THEN t
        ELSE BranchEnds(IF s.p[n].br[b].stopped THEN BranchResumeOutput(u, n) ELSE u, n, b)

----------------------------------------------------------------------------
(* Selector: all inputs are selected automatically, and wait for their flush *)

InputResumeOutput(s, b) ==
    IF s.p[b] = "STOPPED" THEN SourceResumeOutput([s EXCEPT !.p[b] = "WRITING"], b) ELSE s

\* Mutant: a flush that another input interrupts is not answered.
UnselectWithoutAnswer(s, b) == InputResumeOutput(s, b)

Unselect(s, b) ==
    IF s.p[b] = "FLUSHING" THEN SourceAllSamplesFlushed([s EXCEPT !.p[b] = "IDLE"], b)
    ELSE InputResumeOutput(s, b)

\* The end of selectBranch, after the input that was selected has been told.
BranchSelected(s, n) ==
    LET cur == s.p[n].cur
    IN  IF cur # "none" /\ s.p[cur] \notin {"IDLE", "WRITING"} THEN [s EXCEPT !.l.failed = TRUE]
        ELSE IF s.p[n].stream \in {"WRITING", "STOPPED"} /\ (cur = "none" \/ s.p[cur] = "IDLE")
        THEN Flush([s EXCEPT !.p[n].stream = "FLUSHING"], To[n]) ELSE s

SelectBranch(s, n, b) ==
    LET prev == s.p[n].cur
        t == [s EXCEPT !.p[n].cur = b]
    IN  IF prev = b THEN s
        ELSE BranchSelected(IF prev = "none" THEN t ELSE Unselect(t, prev), n)

\* What an input that is not selected writes is dropped.
WriteSelected(s, n, b) ==
    LET r == Write([s EXCEPT !.p[n].stream = "WRITING"], To[n])
    IN  IF s.p[n].cur # b THEN Took(s)
        ELSE IF r.took THEN r
        ELSE Refused([r.s EXCEPT !.p[n].stream = "STOPPED", !.p[b] = "STOPPED"])

WriteInput(s, b) ==
    LET n == To[b]
        cur == s.p[n].cur
        t == [s EXCEPT !.p[b] = "WRITING"]
    IN  WriteSelected(IF cur # b /\ (cur = "none" \/ Prio[cur] < Prio[b])
                        THEN SelectBranch(t, n, b) ELSE t, n, b)

InputAllSamplesFlushed(s, b) ==
    IF s.p[b] = "FLUSHING"
    THEN SourceAllSamplesFlushed(SelectBranch([s EXCEPT !.p[b] = "IDLE"], To[b], "none"), b)
    ELSE s

\* branchFlushSamples
FlushSelected(s, n) ==
    CASE s.p[n].stream = "IDLE" -> InputAllSamplesFlushed(s, s.p[n].cur)
      [] s.p[n].stream \in {"WRITING", "STOPPED"} ->
            Flush([s EXCEPT !.p[n].stream = "FLUSHING"], To[n])
      [] s.p[n].stream = "FLUSHING" -> s

FlushInput(s, b) ==
    CASE s.p[b] = "IDLE" -> SourceAllSamplesFlushed(s, b)
      [] s.p[b] \in {"WRITING", "STOPPED"} ->
            IF s.p[To[b]].cur = b THEN FlushSelected([s EXCEPT !.p[b] = "FLUSHING"], To[b])
            ELSE SourceAllSamplesFlushed([s EXCEPT !.p[b] = "IDLE"], b)
      [] s.p[b] = "FLUSHING" -> s

SelectorResumeOutput(s, n) ==
    LET t == [s EXCEPT !.p[n].stream = "WRITING"]
    IN  IF s.p[n].stream # "STOPPED" THEN s
        ELSE IF s.p[n].cur = "none" THEN [t EXCEPT !.l.failed = TRUE]
        ELSE InputResumeOutput(t, s.p[n].cur)

SelectorAllSamplesFlushed(s, n) ==
    LET t == [s EXCEPT !.p[n].stream = "IDLE"]
    IN  IF s.p[n].stream # "FLUSHING" THEN s
        ELSE IF s.p[n].cur = "none" THEN t ELSE InputAllSamplesFlushed(t, s.p[n].cur)

----------------------------------------------------------------------------
(* FIFO *)

SamplesInFifo(f, n) == IF f.prebuf /\ ~f.flushing /\ f.n < Prebuf(n) THEN 0 ELSE f.n

\* The loop that writes until the FIFO is empty, or the sink refuses.
RECURSIVE DrainFifo(_, _)
DrainFifo(s, n) ==
    LET r == Write(s, To[n])
        t == [r.s EXCEPT !.p[n].n = @ - 1]
    IN  IF ~r.took THEN [r.s EXCEPT !.p[n].outStopped = TRUE]
        ELSE IF r.s.p[n].n > 1 THEN DrainFifo(t, n) ELSE t

FifoHasRoom(s, n) ==
    IF s.p[n].inStopped /\ s.p[n].n < Size(n)
    THEN SourceResumeOutput([s EXCEPT !.p[n].inStopped = FALSE], n) ELSE s

FifoIsEmpty(s, n) == IF s.p[n].flushing /\ s.p[n].n = 0 THEN Flush(s, To[n]) ELSE s

WriteFromFifo(s, n) ==
    IF s.p[n].outStopped \/ SamplesInFifo(s.p[n], n) = 0 THEN s
    ELSE FifoIsEmpty(FifoHasRoom(DrainFifo(s, n), n), n)

\* A block is kept, the oldest one lost if there is no room, and the FIFO written from if it
\* has what it waits for.
KeepBlock(s, n) ==
    LET g == [s.p[n] EXCEPT !.n = IF @ < Size(n) THEN @ + 1 ELSE @]
    IN  WriteFromFifo([s EXCEPT !.p[n] = [g EXCEPT !.prebuf = @ /\ SamplesInFifo(g, n) = 0]], n)

WriteFifo(s, n) ==
    LET t == [s EXCEPT !.p[n].flushing = FALSE]
        f == s.p[n]
        r == IF f.n = 0 /\ ~f.prebuf THEN Write(t, To[n]) ELSE Refused(t)
    IN  IF f.n = Size(n) /\ ~Overwrites(n) THEN Refused([t EXCEPT !.p[n].inStopped = TRUE])
        ELSE Took([(IF r.took THEN r.s ELSE KeepBlock(r.s, n)) EXCEPT !.p[n].inStopped = FALSE])

FlushFifo(s, n) ==
    LET t == [s EXCEPT !.p[n].flushing = TRUE, !.p[n].prebuf = Prebuf(n) > 0]
    IN  IF s.p[n].n = 0 THEN Flush(t, To[n]) ELSE WriteFromFifo(t, n)

FifoResumeOutput(s, n) ==
    IF s.p[n].outStopped THEN WriteFromFifo([s EXCEPT !.p[n].outStopped = FALSE], n) ELSE s

FifoAllSamplesFlushed(s, n) ==
    IF s.p[n].n = 0 /\ s.p[n].flushing
    THEN SourceAllSamplesFlushed([s EXCEPT !.p[n].flushing = FALSE], n) ELSE s

ClearFifo(s, n) ==
    LET t == [s EXCEPT !.p[n].n = 0, !.p[n].prebuf = Prebuf(n) > 0, !.p[n].outStopped = FALSE]
    IN  IF s.p[n].flushing /\ s.p[n].n > 0 THEN Flush(t, To[n]) ELSE t

----------------------------------------------------------------------------
(* Parrot *)

OnRepeatDelayExpired(s) ==
    SetOpen([s EXCEPT !.l.repeat = FALSE], "parrot_valve", TRUE)

\* Logic::deactivateModule and Module::deactivate
LeaveModule(s) ==
    LET t == SetEnabled(s, "to_module", "adapter", FALSE)
        u == SetOpen([t EXCEPT !.l.active = FALSE], "parrot_valve", TRUE)
        v == ClearFifo(u, "parrot_fifo")
    IN  IF s.l.active THEN [v EXCEPT !.l.repeat = FALSE, !.l.conn = FALSE] ELSE s

\* Of the commands only the one to leave is modelled.
ExecCmdQueue(s) == IF s.l.quit THEN DeactivateModule([s EXCEPT !.l.quit = FALSE]) ELSE s

AllSamplesWritten(s) == SetOpen(ExecCmdQueue(s), "parrot_valve", FALSE)

\* Mutant: a recording is played at once.
LogicIdleStateChangedAtOnce(s, idle) ==
    IF ~idle THEN [s EXCEPT !.l.repeat = FALSE]
    ELSE IF s.p.parrot_fifo.n = 0 THEN ExecCmdQueue(s) ELSE OnRepeatDelayExpired(s)

LogicIdleStateChanged(s, idle) ==
    IF ~idle THEN [s EXCEPT !.l.repeat = FALSE]
    ELSE IF s.p.parrot_fifo.n = 0 THEN ExecCmdQueue(s)
    ELSE IF REPEAT_DELAY THEN [s EXCEPT !.l.repeat = TRUE] ELSE OnRepeatDelayExpired(s)

----------------------------------------------------------------------------
(* Logic core *)

GetIdleState(s) == ~s.l.sql /\ s.p.state_det = "IDLE" /\ ~s.l.msg

IdleChecked(s) ==       \* checkIdle and setIdle
    LET idle == GetIdleState(s)
        t == [s EXCEPT !.l.idle = idle]
    IN  IF idle # s.l.idle /\ s.l.conn THEN LogicIdleStateChanged(t, idle) ELSE t

\* A repeater that is down has its receiver valve closed.
Up(s) == s.p.rx_valve.open

SetUp(s, up) ==
    LET t == SetOpen(s, "rx_valve", up)
    IN  IF up = Up(s) THEN s ELSE IF up THEN CheckIdle(t) ELSE t

AudioStreamStateChange(s, active) ==
    CheckIdle(IF active /\ s.l.repeater THEN SetUp(s, TRUE) ELSE s)

\* Messages are played beside this pipe, into the mixer.
PlayMessage(s) == CheckIdle([s EXCEPT !.l.msg = TRUE])

\* Logic::activateModule and Module::activate
EnterModule(s) ==
    LET t == IF s.l.repeater THEN SetUp(s, TRUE) ELSE s
        u == SetEnabled([t EXCEPT !.l.active = TRUE], "to_module", "adapter", TRUE)
        v == ClearFifo([u EXCEPT !.l.conn = TRUE], "parrot_fifo")
    IN  SetOpen([v EXCEPT !.l.quit = FALSE], "parrot_valve", FALSE)

\* dtmfCmdReceived, with the command to leave
DtmfCmdReceived(s) ==
    LET t == [s EXCEPT !.l.quit = TRUE]
    IN  IF s.p.parrot_fifo.n = 0 /\ ~s.l.heard THEN ExecCmdQueue(t) ELSE t

\* The commands that wait are one to activate the module, or to leave it.
ProcessCommandQueue(s) == IF s.l.active THEN DtmfCmdReceived(s) ELSE EnterModule(s)

LogicSquelchOpen(s, open, then) ==
    LET t == IF s.l.active THEN [s EXCEPT !.l.heard = open] ELSE s
    IN  CheckIdle(CASE then = "message" -> PlayMessage(t)
                    [] then = "command" -> ProcessCommandQueue(t)
                    [] OTHER -> t)

\* setSquelchState, and squelchOpen of the logic: a repeater that is up may be shut by squelch
\* flaps, and one that is down opened by the squelch that closes.
OnSquelchOpen(s, open) ==
    LET t == [s EXCEPT !.l.sql = open, !.l.then = "nothing"]
        u == IF s.l.then = "turns" THEN SetUp(t, ~Up(t)) ELSE t
    IN  IF s.l.sql = open THEN s
        ELSE IF Up(t) \/ Up(u) THEN LogicSquelchOpen(u, open, s.l.then) ELSE u

----------------------------------------------------------------------------
(* The first sources and the last sinks *)

\* A source keeps the block that is refused, and writes it again when it may.
WriteBlock(s, w) ==
    LET r == Write([s EXCEPT !.p[w] = "WRITING"], To[w])
    IN  IF r.took THEN r.s ELSE [r.s EXCEPT !.p[w] = "STOPPED"]

\* The receiver reports its squelch closed when what it wrote is flushed.
WriterAllSamplesFlushed(s, w) ==
    LET t == [s EXCEPT !.p[w] = "IDLE"]
    IN  IF s.p[w] # "FLUSHING" THEN s
        ELSE IF w = "rx" /\ ~s.l.signal THEN OnSquelchOpen(t, FALSE) ELSE t

\* A logic without active links has nobody that listens.
Discards(s, n) == n = "con_out" /\ ~s.l.linked

WriteSink(s, n) ==
    LET t == [s EXCEPT !.p[n].flushing = FALSE]
    IN  IF Discards(s, n) THEN Took(s)
        ELSE IF s.p[n].n < ROOM THEN Took([t EXCEPT !.p[n].n = @ + 1])
        ELSE Refused([t EXCEPT !.p[n].stopped = TRUE])

FlushSink(s, n) ==
    IF Discards(s, n) THEN SourceAllSamplesFlushed(s, n) ELSE [s EXCEPT !.p[n].flushing = TRUE]

\* The state detector in front of the transmitter.
SetState(s, state) ==
    IF s.p.state_det = state THEN s
    ELSE AudioStreamStateChange([s EXCEPT !.p.state_det = state], state = "ACTIVE")

----------------------------------------------------------------------------
(* The functions of the stages *)

WriteSamples(s, n) ==
    CASE n \in Valves -> WriteValve(s, n)
      [] n \in Splitters -> WriteSplitter(s, n)
      [] n \in Inputs -> WriteInput(s, n)
      [] n \in Fifos -> WriteFifo(s, n)
      [] n \in Sinks -> WriteSink(s, n)
      [] n = "state_det" -> Write(SetState(s, "ACTIVE"), To[n])
      [] n = "adapter" -> Write(s, To[n])

\* Parrot's adapter answers at once, and then flushes the recording.
FlushSamples(s, n) ==
    CASE n \in Valves -> FlushValve(s, n)
      [] n \in Splitters -> FlushSplitter(s, n)
      [] n \in Inputs -> FlushInput(s, n)
      [] n \in Fifos -> FlushFifo(s, n)
      [] n \in Sinks -> FlushSink(s, n)
      [] n = "state_det" -> Flush(SetState(s, "FLUSHING"), To[n])
      [] n = "adapter" -> Flush(SourceAllSamplesFlushed(s, n), To[n])

\* The two that a source has are called by the stage d after it.
ResumeOutput(s, n, d) ==
    CASE n \in Valves -> IF s.p[n].open THEN ValveResumes(s, n) ELSE s
      [] n \in Splitters -> BranchResumes(s, n, d)
      [] n \in Selectors -> SelectorResumeOutput(s, n)
      [] n \in Inputs -> InputResumeOutput(s, n)
      [] n \in Fifos -> FifoResumeOutput(s, n)
      [] n \in Writers -> IF s.p[n] = "STOPPED" THEN WriteBlock(s, n) ELSE s
      [] n \in {"state_det", "adapter"} -> SourceResumeOutput(s, n)

AllSamplesFlushed(s, n, d) ==
    CASE n \in Valves -> ValveAllSamplesFlushed(s, n)
      [] n \in Splitters -> BranchFlushed(s, n, d)
      [] n \in Selectors -> SelectorAllSamplesFlushed(s, n)
      [] n \in Inputs -> InputAllSamplesFlushed(s, n)
      [] n \in Fifos -> FifoAllSamplesFlushed(s, n)
      [] n \in Writers -> WriterAllSamplesFlushed(s, n)
      [] n = "state_det" -> SourceAllSamplesFlushed(SetState(s, "IDLE"), n)
      [] n = "adapter" -> AllSamplesWritten(s)

Call(s, function, n) ==
    CASE function = "writeSamples" -> WriteSamples(s, n)
      [] function = "flushSamples" -> Took(FlushSamples(s, n))
      [] function = "resumeOutput" -> Took(ResumeOutput(s, From[n], n))
      [] function = "allSamplesFlushed" -> Took(AllSamplesFlushed(s, From[n], n))
      [] function \in {"open", "close"} -> Took(OpenValve(s, n, function = "open"))
      [] function = "writeFromBuffer" -> Took(WriteFromBuffer(s, n))
      [] function = "checkIdle" -> Took(IdleChecked(s))
      [] function = "deactivate" -> Took(LeaveModule(s))

----------------------------------------------------------------------------
(* Actions *)

\* The squelch may not have closed yet.
RxOpens ==
    /\ ~l.signal
    /\ \E then \in {"nothing", "message"} :
        /\ l.sql => then = "nothing"
        /\ LET s == [State EXCEPT !.l.signal = TRUE, !.l.then = then]
           IN  Step(WriteBlock(OnSquelchOpen(s, TRUE), "rx"))

RxWrites == l.signal /\ p.rx = "WRITING" /\ Step(WriteBlock(State, "rx"))

\* The valve of the squelch closes: a block that is still refused is lost.
FlushFrom(s, w) == Flush([s EXCEPT !.p[w] = "FLUSHING"], To[w])

RxCloses ==
    /\ l.signal
    /\ \E then \in Consequences :
        /\ then = "turns" => l.repeater
        /\ Step(FlushFrom([State EXCEPT !.l.signal = FALSE, !.l.then = then], "rx"))

\* A logic that it is not linked to does not write.
LinkWrites == l.linked /\ p.link # "STOPPED" /\ Step(WriteBlock(State, "link"))

LinkFlushes == p.link \in {"WRITING", "STOPPED"} /\ Step(FlushFrom(State, "link"))

\* A last sink passes a block on, and resumes what it has refused.
SinkDrains(n) ==
    LET t == [State EXCEPT !.p[n].n = @ - 1, !.p[n].stopped = FALSE]
    IN  /\ p[n].n > 0
        /\ Step(IF p[n].stopped THEN SourceResumeOutput(t, n) ELSE t)

SinkFlushed(n) ==
    /\ p[n].flushing /\ p[n].n = 0
    /\ Step(SourceAllSamplesFlushed([State EXCEPT !.p[n].flushing = FALSE], n))

\* A repeater opens for many reasons; up_timer, which shuts it, runs while the logic is idle.
RepeaterOpens == l.repeater /\ ~Up(State) /\ Step(SetUp(State, TRUE))

RepeaterShuts == l.repeater /\ Up(State) /\ l.idle /\ Step(SetUp(State, FALSE))

MessageStarts == ~l.msg /\ Step(PlayMessage(State))

MessageEnds == l.msg /\ Step(CheckIdle([State EXCEPT !.l.msg = FALSE]))

ActivateModule == ~l.active /\ Step(EnterModule(State))

\* By the time-out of the module, by a script, or with the logic set offline.
Deactivated == l.active /\ Step(DeactivateModule(State))

QuitReceived == l.active /\ ~l.quit /\ Step(DtmfCmdReceived(State))

RepeatDelayExpired == l.repeat /\ Step(OnRepeatDelayExpired(State))

Next ==
    \/ RxOpens \/ RxWrites \/ RxCloses \/ LinkWrites \/ LinkFlushes
    \/ \E n \in Sinks : SinkDrains(n) \/ SinkFlushed(n)
    \/ RepeaterOpens \/ RepeaterShuts \/ MessageStarts \/ MessageEnds
    \/ ActivateModule \/ Deactivated \/ QuitReceived \/ RepeatDelayExpired

Spec == Init /\ [][Next]_vars

----------------------------------------------------------------------------
(* Properties *)

\* Stage n has refused a block, and will call resumeOutput.
WillResume(n) ==
    CASE n \in Valves \cup Splitters \cup Fifos -> p[n].inStopped
      [] n \in Inputs -> p[n] = "STOPPED"
      [] n \in Sinks -> p[n].stopped
      [] n = "state_det" -> p.tx_fifo.inStopped
      [] n = "adapter" -> p.parrot_fifo.inStopped

\* Stage u waits until the valve n resumes it.
Waits(u, n) ==
    CASE u \in Writers -> p[u] = "STOPPED"
      [] u \in Splitters -> p[u].br[n].stopped
      [] u \in Fifos -> p[u].outStopped

\* Stage n was told to flush, and will call allSamplesFlushed.
WillAnswer(n) ==
    CASE n \in Valves \cup Fifos \cup Sinks -> p[n].flushing
      [] n \in Splitters -> p[n].doFlush
      [] n \in Inputs \cup {"state_det"} -> p[n] = "FLUSHING"
      [] n = "adapter" -> FALSE

\* Whoever was refused has somebody below that refused it and will call.
StoppedWillBeResumed ==
    /\ \A w \in Writers : p[w] = "STOPPED" => WillResume(To[w])
    /\ \A n \in Valves : Waits(From[n], n) =>
        p[n].inStopped /\ IF p[n].open THEN WillResume(To[n]) ELSE BlocksWhenClosed(n)
    /\ \A n \in Splitters :
        /\ p[n].inStopped => p[n].buf
        /\ p[n].buf => \E b \in p[n].pend : p[n].br[b].stopped
        /\ \A b \in ToSet(Outs[n]) :
            p[n].br[b].stopped => p[n].br[b].enabled /\ WillResume(b)
    /\ \A b \in Inputs :
        p[b] = "STOPPED" => p[To[b]].cur = b /\ p[To[b]].stream = "STOPPED"
    /\ \A n \in Selectors : p[n].stream = "STOPPED" => WillResume(To[n])
    /\ \A n \in Fifos :
        /\ p[n].inStopped => p[n].outStopped /\ p[n].n = Size(n)
        /\ p[n].outStopped => WillResume(To[n])
        /\ p[n].n > 0 /\ ~p[n].outStopped => SamplesInFifo(p[n], n) = 0

\* Whoever flushes has somebody below that flushes and will answer.
FlushingWillBeAnswered ==
    /\ \A w \in Writers : p[w] = "FLUSHING" => WillAnswer(To[w])
    /\ \A n \in Valves : p[n].flushing => p[n].open /\ WillAnswer(To[n])
    /\ \A n \in Splitters :
        LET waiting == {b \in ToSet(Outs[n]) : p[n].br[b].flushing}
        IN  /\ \A b \in waiting : p[n].br[b].enabled /\ WillAnswer(b)
            /\ p[n].doFlush => p[n].buf \/ waiting # {}
    /\ \A b \in Inputs :
        p[b] = "FLUSHING" => p[To[b]].cur = b /\ p[To[b]].stream = "FLUSHING"
    /\ \A n \in Selectors :
        CASE p[n].stream = "FLUSHING" -> WillAnswer(To[n])
          [] p[n].stream = "IDLE" -> TRUE
          [] OTHER -> p[n].cur # "none" /\ p[p[n].cur] \in {"WRITING", "STOPPED"}
    /\ \A n \in Fifos : p[n].flushing /\ p[n].n = 0 => WillAnswer(To[n])
    /\ p.state_det = "FLUSHING" => WillAnswer(To.state_det)

\* While the logic is idle and Parrot active, a recording is being played or will be.
RecordingWillBePlayed ==
    l.active /\ l.idle /\ p.parrot_fifo.n > 0 => l.repeat \/ p.parrot_valve.open

\* The calls of the pipe nest through all its stages and the logic, and yet leave every stage
\* that was refused, or that waits for its flush, with one below that will call it back, and
\* that in the same way down to a last sink. The assertions of the selector hold, and audio
\* lies in a FIFO only if it has to.
NobodyWaitsInVain ==
    ~l.failed /\ StoppedWillBeResumed /\ FlushingWillBeAnswered /\ RecordingWillBePlayed

\* What Parrot plays goes on to the transmitter, unless another source is on it. It is played
\* from within the flush of somebody else if REPEAT_DELAY is not set, and then lost.
ParrotHeard ==
    [][ p.parrot_fifo.n > p'.parrot_fifo.n /\ l.active /\ l'.active =>
            \/ p'.tx_selector.cur # "none"
            \/ p'.tx.n + p'.tx_fifo.n > p.tx.n + p.tx_fifo.n ]_vars
=============================================================================
