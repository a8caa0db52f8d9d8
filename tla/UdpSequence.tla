---------------------------- MODULE UdpSequence ----------------------------
(***************************************************************************)
(* The sequence numbers of the UDP datagrams between a node and the        *)
(* reflector (Reflector.cpp, ReflectorClient.cpp, ReflectorLogic.cpp and   *)
(* ReflectorV2Logic.cpp).  Version 2 of the protocol compares numbers of   *)
(* 16 bits by a difference that wraps around; version 3 has a counter of   *)
(* 32 bits, which is taken not to wrap, and keeps the number 0 of a node   *)
(* for the datagram that registers its address.                            *)
(*                                                                         *)
(* tx counts the datagrams of a direction; what is sent is SeqNo of that.  *)
(* UDP may lose, delay, duplicate and reorder them.  So nothing is kept of *)
(* the datagrams under way: any that was sent may arrive, now, later,      *)
(* again or never, until MAX_DELAY newer ones have been sent.              *)
(***************************************************************************)
EXTENDS Integers

CONSTANTS
    HALF,           \* half the range of the numbers of version 2, 2^15
    RX_CNT_RESET,   \* UDP_HEARTBEAT_RX_CNT_RESET of the receiver, per direction
    RATE,           \* datagrams sent in a second at most
    MAX_DELAY,      \* newer datagrams that may overtake a datagram
    MAX_SENT        \* bound of the model

Directions == {"up", "down"}    \* to the reflector, to the node

RANGE == 2 * HALF

\* What is sent while a receiver waits for its time-out, and what is late, together is
\* less than half the range.
ASSUME UdpAssumption ==
    /\ HALF \in Nat \ {0} /\ RATE \in Nat \ {0} /\ MAX_DELAY \in Nat /\ MAX_SENT \in Nat
    /\ RX_CNT_RESET \in [Directions -> Nat \ {0}]
    /\ \A d \in Directions : MAX_DELAY + RATE * RX_CNT_RESET[d] < HALF

VARIABLES
    ver,        \* the version of the protocol
    loggedIn,   \* the node has the state CONNECTED
    known,      \* the reflector knows the UDP source of the node
    registers,  \* the node has sent a registration
    tx,         \* m_udp_cipher_iv_cntr, m_next_udp_tx_seq of the sender
    next,       \* m_next_udp_rx_seq of the receiver
    cnt,        \* m_udp_heartbeat_rx_cnt of the receiver
    burst,      \* datagrams sent since the last second of the receiver
    top         \* the newest datagram handled since the last registration, or -1

udpVars == <<ver, loggedIn, known, registers, tx, next, cnt, burst, top>>

\* The first number that a sender counts.
First(v) == [d \in Directions |-> IF v = 3 /\ d = "up" THEN 1 ELSE 0]

Zero == [d \in Directions |-> 0]

\* A node of version 2 is logged in before any UDP is sent.
UdpInit ==
    /\ ver \in {2, 3} /\ loggedIn = (ver = 2) /\ known = FALSE /\ registers = FALSE
    /\ tx = First(ver) /\ next = Zero /\ cnt = RX_CNT_RESET /\ burst = Zero
    /\ top = [d \in Directions |-> -1]

\* The next connection has keys, an identity and counters of its own.
NewConnection ==
    /\ ver' \in {2, 3} /\ loggedIn' = (ver' = 2) /\ known' = FALSE /\ registers' = FALSE
    /\ tx' = First(ver') /\ next' = Zero /\ cnt' = RX_CNT_RESET /\ burst' = Zero
    /\ top' = [d \in Directions |-> -1]

\* The number that a datagram bears, of 16 bits in version 2.
SeqNo(k) == IF ver = 2 THEN k % RANGE ELSE k

Difference(k, expected) == (SeqNo(k) - expected) % RANGE

\* Is the datagram in sequence?
\* Mutant: the difference is not taken modulo the range.
InSequencePlain(k, expected) ==
    IF ver = 2 THEN SeqNo(k) - expected >= 0 ELSE k >= expected

InSequence(k, expected) ==
    IF ver = 2 THEN Difference(k, expected) < HALF ELSE k >= expected

After(k) == IF ver = 2 THEN (SeqNo(k) + 1) % RANGE ELSE k + 1

\* The datagrams of a direction that may arrive.
InFlight(d) ==
    {k \in First(ver)[d] .. tx[d] - 1 : k >= tx[d] - MAX_DELAY}

\* The receiver handles datagram k, or drops it.
Receive(d, k, expected) ==
    IF InSequence(k, expected)
    THEN /\ next' = [next EXCEPT ![d] = After(k)]
         /\ cnt' = [cnt EXCEPT ![d] = RX_CNT_RESET[d]]
         /\ top' = [top EXCEPT ![d] = k]
    ELSE next' = [next EXCEPT ![d] = expected] /\ UNCHANGED <<cnt, top>>

Count(d) == /\ tx' = [tx EXCEPT ![d] = @ + 1]
            /\ burst' = [burst EXCEPT ![d] = @ + 1]

----------------------------------------------------------------------------
\* While the node waits for a heartbeat by UDP it registers, again and again.
SendUdpRegisterMsg ==
    /\ ver = 3 /\ ~loggedIn
    /\ registers' = TRUE
    /\ UNCHANGED <<ver, loggedIn, known, tx, next, cnt, burst, top>>

\* Audio, a flush or a heartbeat.
SendUdpMsg(d) ==
    /\ burst[d] < RATE /\ tx[d] < MAX_SENT
    /\ d = "up" => loggedIn
    /\ d = "down" => known
    /\ Count(d)
    /\ UNCHANGED <<ver, loggedIn, known, registers, next, cnt, top>>

\* setRemoteUdpSource at the first datagram, which is answered by a heartbeat.
SetRemoteUdpSource ==
    /\ known' = TRUE
    /\ IF known THEN UNCHANGED <<tx, burst>> ELSE Count("down")

ReflectorReceives(k) ==
    /\ ver = 3 => known     \* by its source
    /\ SetRemoteUdpSource
    /\ Receive("up", k, next["up"])
    /\ UNCHANGED <<ver, loggedIn, registers>>

\* The registration sets the expected number to its own.
ReflectorRegisters ==
    /\ registers
    /\ SetRemoteUdpSource
    /\ Receive("up", 0, 0)
    /\ UNCHANGED <<ver, loggedIn, registers>>

\* The first heartbeat that the node handles completes the login.
NodeReceives(k) ==
    /\ ver = 2 => loggedIn
    /\ Receive("down", k, next["down"])
    /\ \E heartbeat \in BOOLEAN :
        /\ k = 0 => heartbeat
        /\ loggedIn' = (loggedIn \/ (heartbeat /\ InSequence(k, next["down"])))
    /\ UNCHANGED <<ver, known, registers, tx, burst>>

\* A second of the receiver.  When it runs out the connection ends, and a new one begins.
Tick(d) ==
    IF cnt[d] = 1 THEN NewConnection
    ELSE /\ cnt' = [cnt EXCEPT ![d] = @ - 1]
         /\ burst' = [burst EXCEPT ![d] = 0]
         /\ UNCHANGED <<ver, loggedIn, known, registers, tx, next, top>>

UdpNext ==
    \/ SendUdpRegisterMsg \/ ReflectorRegisters
    \/ \E k \in InFlight("up") : ReflectorReceives(k)
    \/ \E k \in InFlight("down") : NodeReceives(k)
    \/ \E d \in Directions : SendUdpMsg(d) \/ Tick(d)

UdpSpec == UdpInit /\ [][UdpNext]_udpVars

----------------------------------------------------------------------------
\* Whatever is lost, late or repeated, a datagram is handled if and only if it is newer
\* than all that were handled since the last registration arrived: none is handled twice
\* or out of order, and neither side becomes deaf to what is sent next, although the
\* numbers of version 2 wrap around.
WindowExact ==
    \A d \in Directions : \A k \in InFlight(d) \cup {tx[d]} :
        InSequence(k, next[d]) <=> k > top[d]
=============================================================================
