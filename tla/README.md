# SvxLink: specifications and proofs

SvxLink is voice-over-IP software for amateur radio: an event-driven library
(`src/src/async`), the radio node `svxlink`, remote transceivers, EchoLink, and
the **reflector** `svxreflector`, a conference server that connects many nodes.
This directory holds TLA+ specifications of its protocol core, TLC
configurations that check them on small instances, and proofs checked by TLAPS.

The reflector comes first: it is the part where many independent parties act on
shared state, over two channels, under timers, and where a mistake reaches
every node. Then the node's side of its protocol, the numbers of the UDP datagrams between
the two, the repeater and links of a node, the squelches of a receiver, the voter among
receivers, and the audio pipe of the logic core. Paths below are relative to the repository's `src/` directory
(so `svxlink/reflector` is `src/svxlink/reflector` there).

    tlc -workers 2 -config MCReflector.cfg MCReflector.tla
    tlapm TGHandler_proofs.tla

## 1. Inventory

| part | state | operations | who it talks to |
|---|---|---|---|
| `TGHandler` | `m_id_map` (group to members, talker, timers), `m_client_map`, squelch timeout | `switchTo`, `removeClient`, `setTalkerForTG`, `checkTimers` (1 s) | called by `Reflector` and `ReflectorClient`; signals `talkerUpdated`, `requestAutoQsy`; calls `setBlock` on a client |
| `ReflectorClient` | connection state, callsign, protocol version, four heartbeat counters, UDP source, talk group, monitored groups, block times; static maps by id, callsign, UDP source | one handler per TCP message, `handleHeartbeat` (1 s), disconnect timer (10 s), certificate timer | TCP connection, `Reflector` (node list, broadcasts), `TGHandler` |
| `Reflector` | map connection to client, status document, random QSY range | accept, disconnect, `udpDatagramReceived`, `onTalkerUpdated`, broadcasts, control PTY, QSY, certificates | all of the above |
| `TcpServerBase` | list of connections, throttling | add, remove | `TcpConnection`, `Reflector` |
| UDP session (`EncryptedUdpSocket`, `UdpCipher`) | sequence numbers, keys | encrypt, decrypt, sequence window | `Reflector`, `ReflectorLogic` |
| `ReflectorLogic` (node) | login state, heartbeat counters, audio streams, reconnect and flush timers; selected and monitored groups, selection and QSY timers | message handlers, 1 s tick, talk group selection | reflector, `TcpPrioClientBase`, local logics |
| `TcpPrioClientBase` | state machine, list of servers with an iterator, "established" mark, connection in use and one in the background | connect, disconnect, lookup and connection results, back-off, switch to a better server; deferred `connected` | `ReflectorLogic`, DNS, event loop |
| audio pipe (`AudioSelector`, `AudioSplitter`, `AudioFifo`, `AudioValve`, ...) | stream state per stage, buffers, the selected branch | `writeSamples`, `flushSamples`, `resumeOutput`, `allSamplesFlushed` | neighbours in the pipe, by nested calls; the logic, by the signals of stages |
| `ModuleParrot` | recording FIFO, valve, repeat timer, queue of commands | flushes, idle state of the logic, commands, (de)activation | audio pipe, `Logic` |
| `LinkManager` | links, their activation and time-outs, muted logics, connections | commands, idle state of logics, talk groups, muting | called by logics, in the middle of their handlers; audio selectors |
| `RepeaterLogic` | up or down, up timer, flags and timers that remember calls and squelch openings, delayed talk group | squelch, tone, calls, messages written, audio from links, PTY, offline | `Logic`, `LinkManager`, event scripts |
| `Logic`, `SimplexLogic`, modules | idle state, receiver valve, messages, active module | callbacks of receiver and transmitter, DTMF commands | receiver, transmitter, event scripts, `LinkManager` |
| `Voter` | state machine with its timer, best and active receiver, mute state; per receiver: buffer, valve, held squelch, enabled; queue of events | squelch and level of receivers, muting, reset, revote timer, commands on a PTY | receivers (local or remote), the logic, event loop |
| `LocalRxBase` | mute state, squelch valve, squelch that it reports, signal level | samples, squelch, end of flushing, (un)muting, readiness of a wide band receiver | its squelch, the audio pipe, the logic or the voter |
| `Squelch`, `SquelchCombine` | open, signal detected; start delay, delay, hang time and time-out that are left | samples, detected signals, reset and restart; a combination: squelches of its operands | `LocalRxBase`, detectors |
| remote transceivers, EchoLink | state machines with timers | callbacks | network, audio pipe |

Everything in one process runs in one thread: an `Async::Application` calls one
handler at a time. There are no data races; what is hard is

* the order of handlers: messages of different nodes, the TCP and the UDP channel
  of one node, timers, operator commands;
* re-entrance: a signal, a broadcast or a failing write runs other handlers in the
  middle of a handler, possibly one that deletes the caller;
* raw pointers and cached copies (talker pointer, `m_current_tg`, status document,
  source map) that must be updated in step;
* timers served late, counters that are unsigned and decremented in several places;
* nodes that fall silent, reconnect or change address while the old state stays for
  up to 25 seconds.

What makes each part correct:

* **TGHandler**: both maps say the same; no pointer to a client that is gone; one
  talker at a time, a member of the group, never talked over; every talker is
  stopped in the end when its audio stops or its time is up.
* **ReflectorClient**: one client per callsign; the maps lead to live objects; a
  client that is given up or silent is deleted; heartbeats keep coming.
* **Reflector**: objects and talk group handler agree; decoders are flushed;
  listeners are told; blocked nodes do not get the floor; no assertion fails.
* **ReflectorLogic**: a node that believes it is logged in is supervised; it never
  gives up connecting; the selected group agrees with the reflector's view once
  messages settle; the user's choice is kept, an idle node leaves the group.
* **TcpPrioClientBase**: it does not stop trying, uses its list of servers safely, and
  comes back to the first server.
* **LinkManager**: audio passes along active links and nowhere else; time-outs run
  when they are due.
* **RepeaterLogic**: the repeater knows whether it is idle, closes when it is, and
  gives the transmitter back.
* **Voter**: what it reports follows its state machine; the best receiver is never a
  stale one; the receiver that is heard is open, takes part and is not muted; it closes
  when all is quiet, and finds the one that is still heard.
* **Squelch**: no signal is overlooked or kept after it has gone; delays, hang times and the
  time-out are kept; a combination is what its expression says.
* **LocalRxBase**: audio and report follow the squelch; what is muted is silent, and what is
  not is heard.
* **UDP session**: a datagram is handled if and only if it is newer than all that were
  handled since the last registration, whatever UDP does within the time-outs.
* **audio pipe**: who was refused, or waits for a flush, is called back; no assertion
  fails on the way; what a module plays reaches the transmitter.

`PROJECT.json` lists all components with their sources, including those that
are not modelled and why, and the hazards of the code line by line.

## 2. Modules

| module | what it is |
|---|---|
| `FloorControl` | abstract: members, floors; move, take a free floor, release |
| `TGHandler` | `TGHandler.cpp` in detail; implements `FloorControl` |
| `TGHandler_proofs` | `HandlerSound`, changes of talkers are signalled, `TGHandler` implements `FloorControl` |
| `Reflector_proofs` | what the reflector promises its nodes, `Reflector` implements `FloorControl` |
| `NodeLogin` | abstract: phases of a connection, one owner per callsign |
| `ReflectorClient` | `ReflectorClient.cpp` from accept to deletion; implements `NodeLogin` |
| `Reflector` | logged in clients, `Reflector.cpp` and the talk group handler composed; implements `FloorControl` |
| `TcpPrioClient` | the state machine of `AsyncTcpPrioClientBase.cpp`, as functions on its state |
| `NodeSession` | login, supervision and audio streams of `ReflectorLogic.cpp`, over `TcpPrioClient` |
| `NodeTalkGroups` | talk group selection of `ReflectorLogic.cpp`, with the reflector's view of the node |
| `LinkManager` | `LinkManager.cpp`, as functions on its state |
| `RepeaterLink` | `RepeaterLogic.cpp` and the idle state of `Logic.cpp`, over `LinkManager` |
| `Voter` | `Voter.cpp`, with the muting and squelch of `LocalRxBase.cpp` and `NetRx.cpp` as it sees them |
| `Squelch` | `Squelch.cpp`, as functions on a record |
| `SquelchTiming` | one squelch over time, with histories of its signal |
| `LocalRx` | `LocalRxBase.cpp` over `SquelchCombine.cpp` and `Squelch` |
| `UdpSequence` | the numbers of UDP datagrams in both directions and protocol versions, `Reflector.cpp`, `ReflectorLogic.cpp`, `ReflectorV2Logic.cpp` |
| `LogicAudio` | the stages of `async/audio` as `Logic.cpp` connects them, with the idle state of the logic and `ModuleParrot.cpp` |
| `ReflectorClient_proofs` | the maps and timers of the client objects, `ReflectorClient` implements `NodeLogin` |
| `RepeaterLink_proofs` | connections follow the links, time-outs run when due, the repeater is supervised |
| `NodeTalkGroups_proofs` | timers match the selection, the reflector agrees, users are heard and keep their choice |
| `NodeSession_proofs` | a session is supervised, only a late task strands the node; the receive window of its datagrams is exact |
| `Voter_proofs` | the voter is sound and keeps the audio of the receiver it selects |
| `Squelch_proofs` | of a squelch: no signal is overlooked, delays and time-out are kept; of a receiver: it follows its squelches |
| `MC*` | constants for TLC |

### TGHandler

The operations of the class are called synchronously, so they are operators on a
record `[idMap, clientMap, updated, qsy]`: the two maps, and the signals emitted by
the call. The actions are the calls the reflector makes: `SelectTG` (`setTg`),
`Disconnect`, `AudioReceived`, `FlushReceived`, the timer, and two configuration
changes. `Reflector` uses the same operators, so the talk group handler exists once.

Time: `idle` is the age of `last_talker_timestamp`, kept up to one second more than
the timeout; `qsyIn` is the time left until `auto_qsy_time`, with a value of its own
for the initial -1. `SecondPasses` moves the wall clock and lets the periodic timer
expire; `CheckTimers` serves one expiry. `MaxLate` bounds how many expiries the event
loop may be behind; 2 lets a talker age past its timeout before any check, and lets
two checks follow each other at one time.

Behaviour read from the code that is easy to overlook: a client leaves its group
before the new one is refused; `removeClientP` drops a talker with no signal; audio
and squelch timeout of one expiry exclude each other only because the first clears
the counter of the second; SQL_TIMEOUT is loaded when the floor is taken.

### ReflectorClient

One record per connection and the static maps. A handler is a whole action,
including `sendMsg`/`sendError` and the counters they reset; `FrameIn` is the common
top of `onFrameReceived`. `Gone` is `disconnect()`, `clientDisconnected` and the
destructor, which are one chain of calls. An unsigned counter that is decremented
below zero is `Wrapped` for ever. The message body is reduced to what the handler
tells apart: version class, callsign or invalid, outcome of a certificate request.

UDP: datagrams of protocol version 3 are those that decrypt, so their sender is known
by client id (registration) or by source; they may be in sequence or not. Distinct
sources have distinct ports: the code compares only ports. A node sends from the sources of `SrcsOf` and may
change between them. `Gone` erases the last source of the object only, as the destructor does; what is left of
its entries leads to `NoCon`, an object that is deleted. The lookup of a datagram may find such an entry, and the code then
reads what is no longer an object: `DatagramForDeleted` is the outcome in which the server survives and
drops the datagram.

The countdown of a block in `handleHeartbeat` is in `Reflector`; the other lines of
that handler are here.

### Reflector

Clients are `none`, `connected` or `closing` (given up by `sendError`, deleted by the
disconnect timer). `SendError` may happen to a connected client at any time: what
decides it is in `ReflectorClient`. A step is a handler with all it signals:
`Signalled` is `onTalkerUpdated` for the signals of a call, with the clients that
count as connected at that point, which differs between `disconnect()` (state already
DISCONNECTED) and a remote close (still CONNECTED).

`open[y]` is a history variable: node y got audio and no flush since. `told` holds
the `MsgTalkerStop` messages of the step. `aborted` means that an assertion ended the
server; nothing happens after that, and `CHECK_DEADLOCK` is off in these
configurations because that state is really final.

Simplifications: QSY is left out (automatic QSY is off in this instance of
`TGHandler`); the configuration is constant; a client expected to disconnect because
a certificate was sent to it is not told apart from one given up; a message to a
connection that is closed already is modelled only where a remote close leads to it
(other writes fill a buffer and do not fail).

### TcpPrioClient and NodeSession

`TcpPrioClient` has one operator per event of the C++ state machine, on a record `p`:
its state (the classes `State...` without the prefix), the list `rrs` with the position
`next` of the iterator, `marked` (`marked_as_established`), whether a connection is `up`
and to which `host`, and the number of deferred `connected` tasks. An iterator that is
advanced out of its list gives the state `Aborted`.

`NodeSession` drives these events: lookups answer with any member of `Answers`,
connections succeed, fail or are closed by the peer at any moment, timers expire. `n` holds the
members of `ReflectorLogic`. Its handlers are whole actions: `Disconnect` is
`disconnect()` with `onDisconnected`, which is called only if a connection was up;
`LoginProceeds` and `LoginRefused` are the handlers of the login messages, in and out of
turn. A deferred task (`RunTasks`) may be overtaken by events on descriptors and by timers
that were due earlier, which is the order `AsyncCppApplication.cpp` serves them in. No
second passes while a timer that is due waits (`SecondPasses`), so a heartbeat is
served late by less than a second. The reflector is external and may do anything.

### NodeTalkGroups

`node` holds the selection: selected and last QSY group, `cnt`
(`m_tg_select_timeout_cnt`), QSY timer, priority flag, local activity, the valve of the
audio from the logic. `SelectTg` is `selectTg`; the message it sends is added by `Becomes`,
which compares the group before and after: no handler selects twice.
The reflector's side is a queue in each direction and `srv`, what its client object
says; a login makes a new one, and a lost connection loses both queues. `part` is a
history variable: whether the user has taken part in the selected group since it was
selected, once or again.

### LinkManager and RepeaterLink

`LinkManager` takes and returns a record of all its state and of the idle flags of the
logics, because logics call it from within their handlers; `WantedConnections` adds the implied
connections until nothing changes, as the loops of the code do. `RepeaterLink` composes it
with a repeater in detail and with other logics of which only receiver and transmitter
activity are known. The operators on the state `s` follow the call order of the code:
`setUp` plays a message, whose start changes the idle state, which calls the link
manager, before `setUp` goes on (`Opened`, `Closed`). Time is abstract here: an enabled
timer may expire at any moment, and after any delay.

### Voter

`m` is the state machine with the boxes of its states, `rx` the `SatRx` objects with the
receivers in them, `tasks` what was deferred by `runTask`, `sql` the squelch the voter
reports. Macho's hierarchy is flattened to the leaf states: `Exit` does what the exits do on the
way to a leaf, and each `Enter...` what the entries and `init` do, down to the leaf they
end in. Transitions are made after the handler, as in Macho. A handler returns the state with
the queue of squelch events it caused, which `DispatchEvents` works off before the action
ends. That loop and the one over deferred tasks (`RunAll`) are recursive functions of a number of turns, since
all events that are queued meanwhile are those of squelches that close: a receiver closes once,
so there are never more turns than waiting events and receivers. Calls from outside of an event (`SetEnabled`) dispatch at once. An assertion that fails
gives `failed` a value and ends the program, so `CHECK_DEADLOCK` is off.

Abstractions: of the audio only whether a receiver has some that is not flushed (`unflushed`);
behind a closed valve it is in the FIFO, behind an open one on its way out. Sinks take audio
as it comes and flush in their own time (`OutputFlushed`). A valve that closes on audio answers a NetRx at once; behind a
LocalRx the answer comes from the sinks of the `SatRx`, in their own time (`late`, `LateAnswer`), unless the valve opens again and
audio follows (`Kept`). A NetRx passes levels on while its squelch waits for its audio to be flushed. A LocalRx that is muted
completely closes its squelch at once, a NetRx when its audio is flushed (`MuteSquelch`).
The event timer may expire at any moment after the deferred tasks: these run by a timer that
is due at once. Levels are a few percentages, chosen on both sides of the hysteresis and of
"cannot be beaten".

### Squelch, SquelchTiming and LocalRx

A squelch is a record; its times are counted in samples and pass with the samples that
are written. `writeSamples` is cut into its stages (`TimeoutStage`, `StartStage`, the detector,
`DelayStage`, `HangStage`), each of which emits `squelchOpen` at most once, in `out`; its user takes it from
there before the next stage, as the signal does. A counter that has run past zero is zero, which no
test in the code tells from a negative one. `SquelchTiming` is one squelch with any detector, blocks
of any size, resets and restarts; `steady`, `quiet` and `openFor` are history
variables that count samples. Its definitions have names of their own (`SquelchNext`, `SignalEvent`), since the proofs
about it and about `LocalRx` share what they need of `Squelch` in one module.

`LocalRx` combines squelches: `NODES` is the parsed expression as a sequence, parents before children, so
that the values of its nodes are a recursive function of their number (`LocalRxAssumption`: the nodes have their types, an
operand comes after its operator, and an expression that is one leaf has no other leaves). Each leaf is a `Squelch` with
times of its own, and the combination is one more, whose detector is the expression. Every emission of a leaf goes up
(`RootEmits`): a binary operator asks `isOpen` of itself, a negation passes on what it gets. The emission
of the combination reaches `OnSquelchOpen` at once, with the valve and the report. Operators
take and return the whole state `s`. `Block` is all that the audio device causes, first at
the valve, then in the squelches, as the branches of the splitter are written in this order. `OutputFlushed` comes from
what follows the valve, in its own time. What there is to detect (`carrier`), the signal level
and the muting are chosen freely. `told` and `slipped` are history variables: the first says that
a leaf has emitted since the last reset, the second is explained below the checks.

### UdpSequence

`tx` counts the datagrams of a direction without an end; the number in the datagram is `SeqNo`,
16 bits wide in version 2. The definitions have names of their own (`UdpNext`), since their proofs share a module with
those of the node's session. Nothing is kept of the datagrams under way: any that was sent may
arrive, now, later, again or never, until `MAX_DELAY` newer ones have been sent (`InFlight`, the
network, is external). `burst` counts what was sent since the receiver's last
second, at most `RATE`: audio comes in frames of 20 ms. A receiver that handles nothing for
`RX_CNT_RESET` seconds gives the connection up, and the next one starts with counters of
its own (`NewConnection`); a client that was given up and stays for ten seconds more is not
modelled, since it ignores datagrams. The counter of version 3 has 32 bits and is taken not to wrap: at
fifty datagrams a second that takes 2.7 years of one connection. `top` is a
history variable: the newest datagram handled since the last registration. A registration that is late or
repeated sets the window back (`ReflectorRegisters`), which is why `WindowExact` speaks of
the time since the last one.

### LogicAudio

The stages of the pipe are connected as `Logic::initialize` does (`Outs`, `To`), once. Each class
of `async/audio` has one operator per member function that takes the state and the name of
the stage. `Write`, `Flush`, `SourceResumeOutput` and `SourceAllSamplesFlushed` call the next stage,
and `Call` finds the function of its class, as the virtual functions do; all recursion goes through
`Call`. So an action is a call from outside with all it leads to, through the pipe, out at the stream state detector into the logic
and the module, and back into the pipe. `p` holds the stages, `l` the logic and Parrot. A block of
audio is the unit: it is taken or refused as a whole. Which of repeater or simplex logic it is, and
whether links are connected, is chosen at the start; without links nobody writes to it. What a closing squelch leads to happens inside its call: the repeater
goes up or down, the script plays a message, or `processCommandQueue` runs a command that has waited, to activate the module
or to leave it (`Consequences`; one of them per closing). The same may happen at other moments, by actions of their own
(`MessageStarts`, `ActivateModule`, `QuitReceived`): commands are also executed when their digits are complete or timed out, and messages played by
timers and by the event scripts of the module. External are the receiver and linked logics, which
write as they like and keep to the protocol of a source, and the two last sinks (mixer and
transmitter, linked logics), which hold `ROOM` blocks and drain and answer in their own time.
Left out: NO_REPEAT, the QSO recorder, messages on their way to the mixer (only that one is played),
and the commands of Parrot that play messages. The operators call each other
recursively, so this module is only model-checked.

## 3. Checks

Every property of a passing run has a mutant in `PROJECT.json`: a plausible bug in a
definition for which the property fails.

| run | instance | what it shows |
|---|---|---|
| `tg_handler` | 2 clients, 2 groups, one with automatic QSY, one that may be closed to a client; SQL_TIMEOUT 0 or 2 and changing; timeout 1 s; 2 late expiries; 23 076 states | `HandlerSound` (types, `MapsAgree`, `TalkerIsMember`), `FloorControlSpec`; `SilentOnlyWhenLeaving` (a stop without a signal happens only to a talker that leaves), and with fairness `FloorIsFreed`, `SqlTimeoutStops` |
| `reflector_client` | 2 connections, 2 callsigns, two UDP sources for one node and one for the other, transmit resets 1, receive resets 2; 252 573 states | `MapsSound` (callsigns exact, live clients found under their source, `DeletedLeaveNoSource`: a lookup finds a deleted object only after a change of source), `TimersSound` (the disconnect timer finds its state, heartbeats never stop), `NodeLoginSpec`, and with fairness `GivenUpGoes`, `SilentNodeGoes` |
| `reflector` | 2 clients of versions 1 and 3, 2 groups, one shown, one forbidden to a client, monitoring, squelch timeout 1 that blocks, the operator blocks for 1 s, 1 late expiry; 406 426 states | `ViewsAgree` (objects, handler and status agree), `StreamsHaveTalker`, `FloorControlSpec`, `ToldOfStop` (all who follow a group are told of a stop, except when the talker selects another group), `NoFloorWhileBlocked` (nobody blocked takes the floor, or holds it on by talking) |
| `reflector_abort` | 2 clients, 1 group | **violated** `NeverAborts` |
| `udp_sequence` | range 16, given up after 3 or 2 s, 1 datagram a second, 4 overtaking, 34 sent: the numbers wrap twice; 494 876 states | `WindowExact` |
| `node_tg` | 2 groups, one monitored with priority, one temporarily; with and without a default group; first local transmission muted; one message to the node and two to the reflector in flight; 383 582 states | `TimersMatchSelection`, `HeardAfterFirst`, `ServerAgrees`, `LocalChoiceKept`, with fairness `IdleNodeLeaves` |
| `node_session` | 3 servers by DNS_DOMAIN, 2 by HOSTS when the lookup fails; 32 490 states | `Supervised`, `StrandedByTaskOnly`, and with fairness `KeepsTrying`, `SilenceEnds`, `ReachesPrimary` |
| `repeater_link` | repeater, reflector, simplex logic; a link active by default, another activated by command, activity or talk group; 1 flapping squelch opening closes; 59 392 states | `ConnectedIffLinked`, `TimeoutRunsWhenDue`, `RepeaterSupervised`, with fairness `IdleThingsRest` |
| `voter` | a local and a remote receiver, three levels, buffers, disabled and enabled by command; 98 601 states | `VoterSound` (types; `BestIsOpen`: the best receiver is not a stale one; `MutesFit`: a muted voter has muted all, the receiver that is heard is open and not muted; `SquelchReported`), `VotedAudioKept`, with fairness `QuietCloses`, `LastHeardIsVoted` |
| `squelch_timing` | each of start delay, delay, hang times and time-out set or not, blocks of 1 to 3; 12 024 states | `SquelchSound` (types; `TimersFit`: no signal overlooked or remembered; `NeverOpenTooLong`), `DelaysKept` |
| `localrx` | `A & !B \| C`, C works on events, all kinds of times, low and high level, behind a wide band receiver, all mute states; 37 448 states | `ReceiverSound` (types; `CombinedFollows`: the squelch is the expression; `ReceiverFollows`: audio and report follow the squelch unless they have slipped, and what is muted is silent), with fairness `SignalHeard` |
| `logic_audio` | REPEAT_DELAY set, FIFOs of 2 blocks, one of them waited for before the transmitter starts, sinks of 1 block; repeater and simplex, linked and not; 549 059 states | `NobodyWaitsInVain`, `ParrotHeard` |

**Why the instances are enough to meet the interesting cases.** The properties relate
one talker, one listener and one talk group, or two connections and one callsign;
a second group is needed for leaving and for refusals. Counters only differ in being at
their reset value, between, at zero or wrapped, so resets of 1 and 2 reach all cases; in
`node_session` the UDP receive counter (4) is larger than the TCP one (2), as in the
code, so that silence on one channel alone is met, and the reconnect delay outlives a
heartbeat. Three servers are the least with a middle one, where the iterator is neither at the
first nor at the last. In `node_tg` the queue bounds hold back users, talkers
and logins only, never a timer; two messages are a whole login. In `repeater_link` the third logic makes a
chain of two links, the only way to a connection that no link gives by itself; `OPEN_ON_SQL`
is off because its timer acts exactly like that of CTCSS (a larger instance with it, with logics that
could not be started and a flap count of 2, 456 704 states, held as well).
In `udp_sequence` the wrapping difference depends on the numbers only by their distance, and the
bounds put it on every side of zero, of half the range and of the wrap; the proof is for all values.
The voter needs two receivers, one active and one better; for a third, the next
best when one closes, there are the proofs, for any number of receivers (a larger instance with three, two of
them remote, and levels 30 and 80, held the safety properties as well, 3 349 889 states). `MAX_TASKS` holds receivers, users and operators back
while more deferred tasks than that wait, one transition defers at most four. Commands that only
mute, and `ENABLE` for an enabled receiver, are left out by `COMMANDS` and `REDUNDANT`, because the
code fails with them (see below).
The times of `squelch_timing` are longer than a block and no multiple of it, so each of them
ends before, with and within a block. In `localrx` the expression has each operator, a
negation under another one, operands of which the left changes before the right, and detectors of both kinds.
In `logic_audio` two blocks are the least with which a FIFO is empty, between, and full, and one block
in a sink makes every stage above it refuse and be resumed. It has no liveness property: its graph is
too large for one. Instead the invariant says that each stage that waits has one below it
that will call, down to a last sink, and that no recording is left lying.
Three clients of the reflector are not instantiated: what a third one adds (a talker that is
replaced while somebody else listens) is covered for the talk group handler by the
proofs, and so it is for the broadcasts, streams and status: all properties of `reflector` are proved for
any number of clients.

**Fairness.** Weak fairness of the clock, of the service of the timers and deferred tasks, and
of results that the own process provides: the event loop serves what is due.
`tg_handler` and `reflector_client`: the clock, heartbeats and the timers of the server.
`node_tg`: the selection and QSY timers. `node_session`: in addition the results of lookups and of
attempts to connect, which come as success or failure (each has a time limit of its own).
`repeater_link`: the up timer, the time-out of each link, and the end of audio in a
stream that is not fed any more. `voter`: the event timer, the deferred tasks and the
flushing sinks. In these two the weak fairness is written with the conditions under which they change
something instead of ENABLED, which TLC evaluates far too slowly here. `localrx`: the blocks of
the audio device while not all is muted and the detectors that poll (both written in the same way), and the flushing sinks. Nothing is assumed of nodes, the network, users, operators
or event scripts; liveness properties name the actions of these that excuse them.

### Finding

**A talker whose connection closes aborts the server** (`reflector_abort`). The
remote close is handled while the client still counts as connected; stopping it
broadcasts `MsgTalkerStop` to it too; `sendMsg` finds the connection closed,
disconnects and removes it from the TCP server; the outer removal asserts that it is
there (`async/core/AsyncTcpServerBase.cpp:363`). Assertions stay in release builds on
purpose (`src/CMakeLists.txt:61`).

Seen on the way and not checked by a run of its own:

* muting a voter while two receivers are open fails an assertion. The squelches
  close in the entry of Muted and are handled one by one later; after the first there may be no
  best receiver, and the second fails `assert(is_open)` (`svxlink/trx/Voter.cpp:850`). The model sets
  `failed` and stops there;
* audio and report of a local receiver come apart from its squelch in three ways, which the history
  `slipped` marks from then until everything is muted again, and which `ReceiverFollows` excepts. First, a squelch
  that opens by an event while everything is muted: the event is ignored (`svxlink/trx/LocalRxBase.cpp:910`) and not
  told again after unmuting, so nothing is heard until the next opening; a start delay hides it. Second,
  unmuting within the flush after a closing: the squelch that is reported lags behind, so the valve of a
  closed squelch is opened (`:739`), and only the next closing closes it. Third, a squelch that opens and closes between
  two blocks: the valve is idle and flushes nothing (`async/audio/AsyncAudioValve.h:161`), so the receiver
  stays reported open;
* a negation at the top of SQL_COMBINE does not negate: `!A` opens when A opens, since `UnaryOpNode` passes on what its
  operand emits (`svxlink/trx/SquelchCombine.cpp:191`); under `|` and `&` it works. The manual page has
  "logical negation" (`doc/man/svxlink.conf.5:1486`). With `NODES` of `!A` TLC finds `CombinedFollows` violated in four steps;
* an expression that is true while nothing is received (`!A & !B`) opens its receiver only after one of its
  squelches has changed for the first time since a reset, since a reset tells nothing
  (the history `told` in `CombinedFollows`);
* squelch times are converted to samples by a product of type int, which overflows from 134 s, and for
  SQL_TIMEOUT from 134 218 s (`svxlink/trx/Squelch.h:336`); the models take samples;
* a source that a node changes during a connection stays in the source map, since the destructor
  erases the last one only (`ReflectorClient.cpp:249`). A datagram that comes from the earlier source later is looked up
  there and finds the deleted object (`Reflector.cpp:1040`). `MapsSound` shows that a live client is
  always found under its own source, and that a node with one source leaves nothing behind (`DeletedLeaveNoSource`);
* a node may give up for ever. The `connected` signal is a deferred task
  (`AsyncTcpPrioClientBase.cpp:488`). If the connection is closed before the task runs, `onConnected`
  starts the heartbeat of a connection that is gone; when its counter runs out,
  `disconnect()` stops the client, but `onDisconnected`, which starts the reconnect timer,
  is called only if a connection was up (`ReflectorLogic.cpp:2284`; compare
  `AsyncTcpPrioClientBase.h:269`). `StrandedByTaskOnly` shows that there is no other way,
  `KeepsTrying` that without it the node keeps trying;
* the list of servers changes under its iterator. Connected to a server that is not the first, and not yet
  logged in, a lookup that finds nothing empties the list; if the connection then closes, the
  iterator is advanced past the end of the new list (`AsyncTcpPrioClientBase.cpp:424`). In `node_session`
  lookups find something, or fail and the list of HOSTS is taken;
* a link may not time out although nothing is active: a repeater that is down does not look at its
  idle state when its squelch closes (`RepeaterLogic.cpp:685`), so a squelch that opened during an
  announcement and closes after it leaves it "not idle" until it speaks or opens again;
* the voter: a squelch delay greater than the voting delay gives an unsigned difference below zero
  (`Voter.cpp:1005`; the run has equal ones). ENABLE of an enabled receiver that the voter has muted
  disables it (`:181`; `REDUNDANT` is FALSE for that). A receiver muted by the command MUTE may become active
  when the voter was about to switch to it (`:1322`; hence `COMMANDS` without CONTENT). A valve is
  left open by the vote after a squelch close, so that receiver is not buffered in later votes
  (`:1206`). A receiver that is muted with audio in its buffer may keep an open squelch (`:333`), and one
  that is disabled then may be left unmuted. A voter that goes from muted to content muted leaves its receivers muted completely (`:964`);
* a late or repeated registration sets the receive window of the reflector back (`Reflector.cpp:1035`), so
  older datagrams are accepted again until newer ones come;
* without REPEAT_DELAY Parrot loses the beginning of what it recorded from a link: the logic turns
  idle inside the answer to the flush of the linked audio, Parrot plays at once
  (`modules/parrot/ModuleParrot.cpp:253`), and `tx_selector` still has the branch of the links selected,
  so the blocks are swallowed. With `REPEAT_DELAY = FALSE` TLC shows this as a violation of `ParrotHeard`: Parrot is activated,
  a link writes and flushes, the sink drains and answers. Only the audio is lost: `NobodyWaitsInVain` holds without
  REPEAT_DELAY too (548 554 states).
  The configuration that is shipped sets 1000 (`ModuleParrot.conf:7`); the manual page describes the
  variable only as a protection against a flapping squelch (`doc/man/ModuleParrot.conf.5:35`), and `README.adoc:23` says
  "Play back everything that is received";
* `squelch_is_open` of Parrot is stale when the module is activated while the squelch is open
  (`ModuleParrot.cpp:356`), so its command queue may wait for the next change;
* no `MsgTalkerStop` is sent when a talker selects another group (`ToldOfStop` makes this
  the only exception), though `ReflectorMsg.h:852` documents it as the information
  that a node stopped; the audio is flushed;
* the manual page gives one second as the default of SQL_TIMEOUT_BLOCKTIME
  (`doc/man/svxreflector.conf.5:107`), the code 60 (`TGHandler.cpp:114`); a block does not
  survive a reconnect of the node;
* a QSY time-out that comes during a long transmission resets priority and counter of
  the node in the middle of it, so a talker may then move the node
  (`ReflectorLogic.cpp:2645`, compare `doc/man/svxlink.conf.5:725`); the priority flag also stays off
  after an inhibited activation has timed out;
* with CTCSS_TO_TG_DELAY and no default group the second transmission is muted as well
  when MUTE_FIRST_TX_LOC is set;
* `MsgUdpAllSamplesFlushed` does not stop the flush timer, so the logic may get a second
  `allEncodedSamplesFlushed` up to three seconds later;
* the flags that remember a call of the repeater (`activate_on_sql_close`) stay set if something
  else opens it while the squelch is open; a later squelch opening then opens it against
  OPEN_ON_SQL (compare `doc/man/svxlink.conf.5:562`).

## 4. Proofs

Of the talk group handler, for every finite or infinite set of clients and talk groups
and all timer values, under `ConstantAssumption` (the null values are not members, the
configured values have their types):

* `HandlerAlwaysSound` (`TGHandler_proofs`), of `HandlerSound`, which is the conjunction of
  `TypeOK`, `MapsAgree` and `TalkerIsMember` and is inductive. None of the last two is
  inductive alone: that the talker is a member survives a removal only because the
  maps agree about who is in the group, and an operation finds the record it updates
  only because `clientMap` never dangles. Types are needed for the counters:
  `sqlCnt - 1` is a natural number because it is tested first. Since operations are
  composed, the invariant is first stated on records (`HandlerOK`); a lemma for each
  operation says it is preserved (`RemoveClientPOK`, `AddClientOK`, `SwitchToOK`,
  `SetTalkerForTGOK`, `RemoveClientOK`, `CheckTimersOK`), and a lemma for each action
  installs the result (`DoneOK`).
* `ChangesAreTold` (`TGHandler_proofs`), of `SilentOnlyWhenLeaving`. The step lemmas of audio, flush and
  timer show that a floor that changed is among the signals of the call (`ChangesTold`), which
  needs the sound handler: the talker found by a timer is the talker of that one talk group. A selection or a
  disconnection changes only the floor of a group that the client has left (`Leaves`).
* `ImplementsFloorControl` (`TGHandler_proofs`). The mapping computes members
  and floors from a record. Lemmas say what each operation does to them: leaving and
  switching are a `Move` (even when refused, to nowhere), a change of talker alters
  one floor. `StepSimulation` then maps `SelectTG` and `Disconnect` to `Move` or a
  stutter, `AudioReceived` to `Take` or a stutter, `FlushReceived` and `CheckTimers`
  to `Release`, and the clock and the configuration to stutters.

Of the reflector at work, for any clients and protocol versions, talk groups, permissions, time-outs and block times,
under the `ConstantAssumption` of `Reflector`:

* `ViewsAlwaysAgree`, `StreamsAlwaysHaveTalker`, `ImplementsFloorControl`, `BlockedNeverGetFloor` and
  `FollowersAlwaysTold` (`Reflector_proofs`), of all properties that the run `reflector` checks, and
  `TypesAlwaysKept`. The lemmas about the handler's operations are cited from `TGHandler_proofs` through an
  instance with the reflector's constants; a few lemmas (`SetTgMoves`, `SetTalkerAnswers`, `RemoveMoves`,
  `AudioTakes`, `TimersStop`) turn them into what a caller sees: one client `Moves`, or a call is `Stopping`, that is, each
  talker is as before or its stop is signalled. The inductive invariant is
  `Inv`: the handler is sound (`H!IInv`), the types, and of each client that its copy of the talk group is the
  handler's (`InSync`), that one that is gone left nothing behind (`Gone`), that its status is current (`Fresh`), and
  that its open stream has another talker in its group and can be flushed (`Streams`). `Streams` is stronger than the
  property: an open stream of a node whose UDP source is not known would never be flushed, since the
  flush goes by UDP; and it needs `InSync`, since who gets audio is looked up in the handler, and a client that
  leaves is flushed by its own copy. `Gone` makes a new login find an empty place. `Fresh` survives a switch
  only because the handler answers for talkers and members together.
  For action properties each action has one lemma per property (`FloorStep`, `BlockedStep`, `ToldStep`), and `AllSteps`
  collects them. The action that fails an assertion is part of the specification: it changes nothing but `aborted`.

Of the client objects of the reflector, for any connections, callsigns, UDP sources and
periods, under `ConstantAssumption` and `ObjectAssumption` (the null pointer is not an object):

* `TimersAlwaysSound`, `MapsAlwaysSound` and `ImplementsNodeLogin` (`ReflectorClient_proofs`). The
  inductive invariant is `IInv`: types, `CallsignsExact`, and of each object `ObjectOK`, which adds
  to `TimersSound` that an object in the handshake has no callsign; without it a login could
  rename a client that the map still knows under its old callsign. Nearly every handler keeps
  callsign and source of an object, and either keeps its phase or gives it up. `Follows` says this of an
  object and what becomes of it; it is transitive, so each operator on objects has a lemma, a handler is their composition,
  and `NextStep` sorts all steps into five kinds (`Enters`, `Stays`, `LogsIn`,
  `Registers`, `Leaves`). Invariant and refinement are then shown for the kinds. `MapsAlwaysSound`
  assumes `SourcesApart`, that two nodes do not send from one source, and needs one thing
  more: entries of live objects are for sources of their own node, the last one or an earlier one
  (`EntriesOwn`), so that no registration takes the source of another client, and a node with one source has
  no other entry to leave.

Of the links and the repeater, for any finite set of logics, any links, talk groups and configuration,
under `LinkAssumption` and `RepeaterAssumption` (the configured values have their types,
there are finitely many logics, and the repeater is one of them):

* `ConnectionsFollowLinks`, `TimeoutsRunWhenDue` and `RepeaterAlwaysSupervised` (`RepeaterLink_proofs`). The
  inductive invariant is `IInv == SupervisedOK(State)`: the
  state has its shape (`StateOK`, with connections that follow the links), a repeater that is up knows its idle state and its
  timer runs by it (`Known`), and one that is down has no timer and has given its
  transmitter back unless a message is written (`Resting`).
  The connections are those that the passes of `wantedConnections` compute, and `PassesExist` shows that
  there is a function that counts the passes at all. Nothing is connected that is not linked, in any pass. Every pass
  in which the logics connected with `x` are not yet closed under the links adds one of them (`PassGrows`), so
  after as many passes as there are logics they are closed, and hold every logic that is linked with `x`. The library's
  theorems of induction take an operator, so the induction over the passes (`InductUpTo`) is derived from
  the smallest of a family of sets (`SmallestSet`), which strict subsets of a finite set being well-founded provides.
  The other two theorems do not stand without the strengthening, since handlers pass
  through states where both are false: `CheckIdle` changes an idle state before the
  time-outs that depend on it are looked at, and `setUp` sets the flag that says the
  repeater is up long before its timer. So the link manager's lemmas are about
  `TimedBut(m, ls)`, that time-outs run when they are due except for those of the links
  `ls`: `CheckTimeoutTimerOK` removes links from `ls`, `LogicIdleStateChangedOK` assumes
  that only the links of its logic are stale, and `DeactivateLinkOK` and `SetLogicMuteOK`
  make their own stale and put them right. `OpenedOK` and `ClosedOK` assume `StateOK`
  only and establish the whole invariant. Each action has its lemma, and `NextOK`
  collects them.

Of the talk groups of a node, for any talk groups, priorities, default and time-outs and any number
of messages in flight, under `ConfigAssumption` (types; the time-out of a selection is not zero):

* `TimersAlwaysMatch`, `AlwaysHeardAfterFirst`, `ServerAlwaysAgrees` and `LocalChoiceAlwaysKept`
  (`NodeTalkGroups_proofs`). The inductive invariant `Inv` adds to the first two `Chosen`, what the history
  of a selection says of the flags of the node, and `Known`. `ServerAgrees`
  speaks only of an empty channel; `Known` says it of every channel: what the reflector will have after all messages
  in flight (`After`) is what the node has, from the moment it has sent its state. The last message of a kind in a sequence
  is what counts, so sending and handling are lemmas about appending and taking the head. In the login the
  node may select before it is connected, and nothing is sent for it: there `Known` holds for what is null.
  `LocalChoiceAlwaysKept` needs `Chosen`: a talk group with local activity is kept because of
  the flags that a talker's priority is looked up with, not because of the history.

Of the session of a node, for any servers, results of lookups, time-outs and any frames of the
reflector, under `SessionAssumption` and `ClientAssumption` (time-outs are at least one second; results of lookups
have their types):

* `AlwaysSupervised` and `OnlyTasksStrand` (`NodeSession_proofs`). The inductive invariant is
  `IInv == Good(p, n)`, on the record of the client and that of the session. Of the client (`ClientOK`): it has a connection only
  in the states that say so, and its iterator is valid while it tries a better server. Of the session (`Backed`): beyond the first
  state of the login the connection is up and no task is waiting, because a task runs before any
  frame of its connection is read; timers and socket are there from the state that makes them on. The history (`Ghosts`): a session
  that was started without a connection is marked, a ticking timer without a connection comes from nothing else,
  and neither does a disconnected client without the reconnect timer. `Supervised` is not inductive without
  `ClientOK`, since `onDisconnected` is called only in some states of the client, nor
  `StrandedByTaskOnly` without `Backed`, since a heartbeat that disconnects relies on the state of the session. Each event
  of the client has a lemma (what it does to the state, and whether the session is told), and each action has one on top of it.

Of the UDP session, for any width of the numbers, rate, delay, length of the time-outs and
number of datagrams, under `UdpAssumption`: what is sent until a receiver gives up, and what is late, together is
less than half the range. With the code's numbers the range is 65536, a receiver gives up after
at most 120 s, and audio is about fifty datagrams a second, so at most 6000 of 32768.

* `WindowAlwaysExact` (`NodeSession_proofs`). The inductive invariant bounds how far the sender may be ahead of the
  newest datagram handled by what fits into the time that the receiver has still left, which
  `SentInTime` turns into a distance below `HALF`; it also says that the expected number is the one
  after `top`. That the wrapped comparison then agrees with the plain one is arithmetic on `%`, which
  the provers do not have: `ModUnique`, `ModWindow` and `ModSuccessor` derive it from the division theorem.

Of a squelch, for any times and block sizes, under `TimingAssumption` (the times have their
types and the histories count far enough to compare with them):

* `SquelchAlwaysFits` and `DelaysAlwaysKept` (`Squelch_proofs`). `TimersFit` speaks only of the time outside of a start
  delay, which a step may end in its middle; the inductive invariant adds what the counters say of the histories:
  a delay that is running and the samples since the signal make up the configured delay, and the same for the hang time, the
  longer or the shorter one, and for the time-out. Each stage has its lemma; the lemmas are put together
  in the order of the stages.

Of a receiver, for any expression of squelches, any leaves, times, size of blocks and mute states,
under `LocalRxAssumption`:

* `ReceiverAlwaysSound` (`Squelch_proofs`), for an expression whose root is not a negation: with one the property is
  false, for the reason given in section 3. The inductive invariant `ReceiverInv` says `Good` of the whole state, in three parts. `Shape`:
  squelches and receiver have their types, and nothing that was emitted is left untaken. `Faithful`: what
  `ReceiverFollows` says and, beyond it, that a squelch which is open while all is muted is marked as slipped;
  `ReceiverFollows` alone is not inductive, because unmuting would then open a receiver that was never told.
  `Combined`: the combining squelch has the signal that its expression asks for.
  The values of the expression are a recursive function; that it exists and satisfies its equations is shown by induction from
  the last node to the first (`ValuesExist`, `NodesAre`), and so is that it depends on the leaves only
  (`LeavesDecide`). `Good` holds after every emission, not only at the end of a block: each stage of a squelch
  emits what it has become (`Emits`), a leaf that emits has the combination brought up to date (`BecomesOK`, `TopBecomesOK`), and that
  reaches valve and report (`OnSquelchOpenOK`). A block is then a composition of such steps, with an induction over the leaves
  (`AllLeavesOK`), and the steps of muting are put together by what holds on entering each state (`Enters`).

Of the voter, for any receivers, local and remote, any levels, hysteresis, delays and number of deferred tasks, under
`VoterAssumption` (types; a hysteresis of at least 100 %):

* `VoterAlwaysSound` and `VotedAudioAlwaysKept` (`Voter_proofs`), of both safety properties of the run, and with its two
  restrictions as hypotheses: no receiver is enabled that is enabled (`~REDUNDANT`), and none is muted by the command
  MUTE (`"CONTENT" \notin COMMANDS`). Section 3 says how the code breaks the properties otherwise.
  The inductive invariant is `IInv == Good(State)`. It is stated on a whole state, also in the middle of an action, where
  events wait in the queue (`Sound`): the best and the active receiver are heard, or the event that gives them
  up still waits (`BestOK`, `ActiveOK`); only the first event may be that of a squelch that opens (`QueueOK`); a receiver
  that is muted is silent, and it is muted as the voter wants it unless it is being enabled or disabled (`ReceiversOK`);
  what each state of the machine wants of the receivers (`WantsOK`), also of one that is disabled; and the last report that
  waits agrees with the state (`Reported`). `VoterSound` alone is not inductive: a receiver that is disabled keeps what the voter
  wants of it and gets it when it is enabled, and the report of the squelch is a deferred task.
  Each event makes the queue and the open squelches together smaller (`Weight`), so the bounds of the loops in the model are enough
  for every queue (`DispatchFact`). The lemmas go from one receiver (`Only`) over the loops on
  receivers (`Calm`) to leaving and entering a state (`Leaves`, `Enters`) and to one event; each action has a lemma that ends
  in `Fine`, and `NextStep` collects them. For the audio that is kept, the lemmas also follow who
  becomes active and what it has buffered (`Tracked`).

Only model-checked: `NobodyWaitsInVain` and `ParrotHeard` of `LogicAudio`, whose stages call each other by recursive operators,
which the provers cannot use, and every liveness property (TLAPS does not handle fairness and ENABLED here).

## 5. Not modelled, and the plan

Not modelled by intent: codecs, filters, devices, hardware, Tcl scripts, user
interfaces, file and OpenSSL work, message serialisation, vendored code.

Of the modelled components these parts are left out: QSY by the reflector (random groups,
commands), certificates and their renewal beyond their outcome, state events, signal strength and
transmitter status, choice of codec, ident nag, roger beep, the relays of
sounds and commands between linked logics, the detectors behind a squelch, the parser of SQL_COMBINE, what the voter buffers
besides audio, its audio selector, static SRV records and the lengths of back-off times.

Next, in this order:

1. `Qsy`: `nextRandomQsyTg` and `requestQsy`, composed with `NodeTalkGroups`.
2. `LocalRx` as the receiver under the voter.
3. The mixer and the jitter FIFO, added to `LogicAudio`; the session of `ReflectorV2Logic`.
4. Remote transceivers, EchoLink.

Theorem to follow: `NobodyWaitsInVain` of `LogicAudio`, once its stages are written without recursive operators.
