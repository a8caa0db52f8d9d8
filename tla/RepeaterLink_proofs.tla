------------------------ MODULE RepeaterLink_proofs ------------------------
(***************************************************************************)
(* For any logics, links and configuration: audio is passed between        *)
(* exactly the logics that chains of links join, the time-outs of the      *)
(* links run exactly when they are due, and the repeater is supervised.    *)
(*                                                                         *)
(* First comes what LinkManager::wantedConnections computes, by induction  *)
(* on its passes, then what the functions of LinkManager.tla preserve,     *)
(* then the repeater.                                                      *)
(***************************************************************************)
EXTENDS RepeaterLink, FiniteSetTheorems, WellFoundedInduction, TLAPS

\* The fields of a link manager.  The connections follow from the others.
Managers(m) ==
    /\ m = [idle |-> m.idle, props |-> m.props, active |-> m.active,
            muted |-> m.muted, cons |-> m.cons, timer |-> m.timer]
    /\ m.idle \in [Logics -> BOOLEAN]
    /\ m.props \in [Links -> SUBSET Logics]
    /\ m.active \subseteq Links
    /\ m.muted \subseteq Logics

Due(m) == {l \in TimeoutLinks : AllLogicsIdle(m, l) /\ ~AtDefault(m, l)}

\* The time-outs run when they are due, but for those of the links ls.
TimedBut(m, ls) == \A l : l \notin ls => (l \in m.timer <=> l \in Due(m))

ManagerOK(m) == Managers(m) /\ TimedBut(m, {}) /\ ConnectedIffLinkedIn(m)

\* Two managers with the same logics and idle states.
SameLogics(m, k) == k.idle = m.idle /\ k.props = m.props /\ k.muted = m.muted

----------------------------------------------------------------------------
(* Some set of a family of subsets of a finite set has no smaller one in the family. *)
LEMMA SmallestSet ==
    ASSUME NEW S, IsFiniteSet(S), NEW F, F \subseteq SUBSET S, F # {}
    PROVE  \E T \in F : \A U \in F : U \subseteq T => U = T
<1>1. IsWellFoundedOn(StrictSubsetOrdering(S), SUBSET S)
  BY FS_StrictSubsetOrderingWellFounded, FS_FiniteSubsetsOfFinite
<1>2. PICK T \in F : \A U \in F : <<U, T>> \notin StrictSubsetOrdering(S)
  BY <1>1, WFMin
<1> QED  BY <1>2 DEF StrictSubsetOrdering

(* Induction up to n, for a set T of numbers: the smallest of the intervals that *)
(* reach a number outside T would reach a smaller one.                           *)
LEMMA InductUpTo ==
    ASSUME NEW n \in Nat, NEW T, 0 \in T, \A k \in 0 .. n - 1 : k \in T => k + 1 \in T
    PROVE  0 .. n \subseteq T
<1> DEFINE S == 0 .. n
           F == {0 .. k : k \in S \ T}
<1>1. SUFFICES ASSUME NEW j \in S \ T PROVE FALSE
  OBVIOUS
<1>2. IsFiniteSet(S) /\ F \subseteq SUBSET S /\ F # {}
  <2>1. IsFiniteSet(S)
    BY FS_Interval
  <2>2. \A k \in S : 0 .. k \subseteq S
    OBVIOUS
  <2> HIDE DEF S
  <2> QED  BY <2>1, <2>2
<1>3. PICK U \in F : \A V \in F : V \subseteq U => V = U
  <2> HIDE DEF S, F
  <2> QED  BY <1>2, SmallestSet
<1>4. PICK k \in S \ T : U = 0 .. k
  BY <1>3
<1>5. k # 0 /\ k - 1 \in 0 .. n - 1 /\ k - 1 \in S \ T
  BY <1>4
<1>6. 0 .. k - 1 \in F /\ 0 .. k - 1 \subseteq U /\ k \in U /\ k \notin 0 .. k - 1
  BY <1>4, <1>5
<1> QED  BY <1>3, <1>6

\* No active link leads out of S.
Sealed(m, S) ==
    \A l \in m.active : \/ (m.props[l] \ m.muted) \cap S = {}
                        \/ (m.props[l] \ m.muted) \subseteq S

(* A set is sealed exactly if no explicit connection leads out of it. *)
LEMMA SealedByPairs ==
    ASSUME NEW m, Managers(m), NEW S, S \subseteq Logics
    PROVE  Sealed(m, S) <=> \A c \in Explicit(m) : c[1] \in S => c[2] \in S
<1>1. ASSUME Sealed(m, S), NEW c \in Explicit(m), c[1] \in S PROVE c[2] \in S
  BY <1>1 DEF Sealed, Explicit
<1>2. ASSUME \A c \in Explicit(m) : c[1] \in S => c[2] \in S,
             NEW l \in m.active, NEW x \in (m.props[l] \ m.muted) \cap S,
             NEW y \in m.props[l] \ m.muted
      PROVE  y \in S
  <2>1. x \in Logics /\ y \in Logics
    BY DEF Managers
  <2>2. CASE x # y
    <3>1. <<x, y>> \in Explicit(m)
      BY <2>1, <2>2 DEF Explicit
    <3> QED  BY <1>2, <3>1
  <2> QED  BY <1>2, <2>2
<1> QED  BY <1>1, <1>2 DEF Sealed

(* Linked, in terms of sealed sets. *)
LEMMA LinkedBySealed ==
    ASSUME NEW m, NEW x, NEW y
    PROVE  Linked(m, x, y) <=> \A S \in SUBSET Logics : x \in S /\ Sealed(m, S) => y \in S
BY DEF Linked, Sealed

(* There is a function that counts the passes. *)
LEMMA PassesExist ==
    ASSUME NEW E, NEW n \in Nat
    PROVE  \E f : f = [k \in 0 .. n |-> IF k = 0 THEN E ELSE Implied(f[k - 1])]
<1> DEFINE P(j) == \E f : f = [k \in 0 .. j |-> IF k = 0 THEN E ELSE Implied(f[k - 1])]
           T == {j \in 0 .. n : P(j)}
<1>1. P(0)
  <2> DEFINE f == [k \in 0 .. 0 |-> E]
  <2>1. f = [k \in 0 .. 0 |-> IF k = 0 THEN E ELSE Implied(f[k - 1])]
    OBVIOUS
  <2> QED  BY <2>1
<1>2. ASSUME NEW j \in 0 .. n - 1, P(j) PROVE P(j + 1)
  <2>1. PICK f : f = [k \in 0 .. j |-> IF k = 0 THEN E ELSE Implied(f[k - 1])]
    BY <1>2
  <2> DEFINE g == [k \in 0 .. j + 1 |-> IF k = j + 1 THEN Implied(f[j]) ELSE f[k]]
  <2>2. \A k \in 0 .. j : g[k] = f[k] /\ f[k] = IF k = 0 THEN E ELSE Implied(f[k - 1])
    BY <2>1
  <2>3. g[j + 1] = Implied(g[j])
    BY <2>2
  <2>4. \A k \in 0 .. j + 1 : g[k] = IF k = 0 THEN E ELSE Implied(g[k - 1])
    <3> SUFFICES ASSUME NEW k \in 0 .. j + 1
                 PROVE  g[k] = IF k = 0 THEN E ELSE Implied(g[k - 1])
      OBVIOUS
    <3>1. CASE k = j + 1
      BY <2>3, <3>1
    <3>2. CASE k \in 0 .. j /\ k = 0
      BY <2>2, <3>2
    <3>3. CASE k \in 0 .. j /\ k # 0
      <4>1. k - 1 \in 0 .. j
        BY <3>3
      <4> HIDE DEF g
      <4> QED  BY <2>2, <3>3, <4>1
    <3> QED  BY <3>1, <3>2, <3>3
  <2>5. g = [k \in 0 .. j + 1 |-> g[k]]
    OBVIOUS
  <2> HIDE DEF g
  <2>6. g = [k \in 0 .. j + 1 |-> IF k = 0 THEN E ELSE Implied(g[k - 1])]
    BY <2>4, <2>5
  <2> QED  BY <2>6
<1>3. 0 \in T /\ \A j \in 0 .. n - 1 : j \in T => j + 1 \in T
  BY <1>1, <1>2
<1> HIDE DEF P
<1>4. 0 .. n \subseteq T
  <2> HIDE DEF T
  <2> QED  BY <1>3, InductUpTo
<1> QED  BY <1>4 DEF P

(* The connections that are wanted are those of the last pass. *)
LEMMA Passes ==
    ASSUME NEW m
    PROVE  \E f : /\ WantedConnections(m) = f[Cardinality(Logics)]
                  /\ f = [k \in 0 .. Cardinality(Logics) |->
                            IF k = 0 THEN Explicit(m) ELSE Implied(f[k - 1])]
<1> DEFINE n == Cardinality(Logics)
           E == Explicit(m)
           f == CHOOSE want : want = [k \in 0 .. n |-> IF k = 0 THEN E ELSE Implied(want[k - 1])]
<1>1. n \in Nat
  BY FS_CardinalityType, LinkAssumption
<1>2. WantedConnections(m) = f[n]
  BY DEF WantedConnections
<1>3. f = [k \in 0 .. n |-> IF k = 0 THEN E ELSE Implied(f[k - 1])]
  <2> HIDE DEF n, E
  <2> QED  BY <1>1, PassesExist
<1> HIDE DEF f
<1> QED  BY <1>2, <1>3

\* The logics that x is connected with by a set of connections, and x.
From(want, x) == {x} \cup {y \in Logics : <<x, y>> \in want}

\* Two logics are connected only if they are linked.
Sound(m, want) ==
    want \subseteq {c \in Logics \X Logics : c[1] # c[2] /\ Linked(m, c[1], c[2])}

(* Explicit connections join linked logics. *)
LEMMA ExplicitSound == ASSUME NEW m, Managers(m) PROVE Sound(m, Explicit(m))
<1> SUFFICES ASSUME NEW c \in Explicit(m), NEW S \in SUBSET Logics, c[1] \in S, Sealed(m, S)
             PROVE  c[2] \in S
  BY LinkedBySealed DEF Sound, Explicit
<1> QED  BY SealedByPairs

(* So do those that a pass adds. *)
LEMMA ImpliedSound ==
    ASSUME NEW m, NEW want, Sound(m, want)
    PROVE  Sound(m, Implied(want))
<1> SUFFICES ASSUME NEW a \in Logics, NEW b \in Logics, NEW x \in Logics,
                    <<a, x>> \in want, <<x, b>> \in want
             PROVE  Linked(m, a, b)
  BY DEF Sound, Implied
<1>1. Linked(m, a, x) /\ Linked(m, x, b)
  BY DEF Sound
<1> QED  BY <1>1, LinkedBySealed

\* Every pass adds a logic to those that x is connected with, until they are closed.
Grown(m, want, k) ==
    /\ Explicit(m) \subseteq want /\ Sound(m, want)
    /\ \A x \in Logics : Sealed(m, From(want, x)) \/ Cardinality(From(want, x)) > k

(* They are some of all logics, of which there are finitely many. *)
LEMMA FromFinite ==
    ASSUME NEW want, NEW x \in Logics
    PROVE  /\ From(want, x) \subseteq Logics /\ x \in From(want, x)
           /\ IsFiniteSet(From(want, x))
           /\ Cardinality(From(want, x)) \in 1 .. Cardinality(Logics)
<1> DEFINE S == From(want, x)
<1>1. S \subseteq Logics /\ x \in S
  BY DEF From
<1> HIDE DEF S
<1>2. /\ IsFiniteSet(S) /\ Cardinality(S) <= Cardinality(Logics)
      /\ Cardinality(S) \in Nat /\ Cardinality(Logics) \in Nat /\ Cardinality(S) # 0
  BY <1>1, FS_Subset, FS_CardinalityType, FS_EmptySet, LinkAssumption
<1> QED  BY <1>1, <1>2 DEF S

(* Before the first pass every logic is connected with itself. *)
LEMMA ExplicitGrown == ASSUME NEW m, Managers(m) PROVE Grown(m, Explicit(m), 0)
BY ExplicitSound, FromFinite DEF Grown

(* The next pass: if the logics that x is connected with are closed, nothing is added;  *)
(* otherwise an explicit connection leads out of them, and the pass follows it.          *)
LEMMA PassGrows ==
    ASSUME NEW m, Managers(m), NEW want, NEW k \in Nat, Grown(m, want, k)
    PROVE  Grown(m, Implied(want), k + 1)
<1> DEFINE next == Implied(want)
<1>1. Explicit(m) \subseteq next /\ Sound(m, next) /\ want \subseteq next
  BY ImpliedSound DEF Grown, Implied
<1>2. ASSUME NEW x \in Logics PROVE Sealed(m, From(next, x)) \/ Cardinality(From(next, x)) > k + 1
  <2> DEFINE S == From(want, x)
             R == From(next, x)
  <2>1. S \subseteq R /\ R \subseteq Logics /\ x \in S
    BY <1>1, FromFinite DEF From
  <2>2. CASE Sealed(m, S)
    <3>1. ASSUME NEW y \in R PROVE y \in S
      <4>1. y = x \/ Linked(m, x, y)
        BY <1>1 DEF From, Sound
      <4> HIDE DEF S, R
      <4> QED  BY <2>1, <2>2, <4>1, LinkedBySealed
    <3> HIDE DEF S, R
    <3>2. R = S
      BY <2>1, <3>1
    <3> QED  BY <2>2, <3>2 DEF R
  <2>3. CASE ~Sealed(m, S)
    <3>1. PICK c \in Explicit(m) : c[1] \in S /\ c[2] \notin S
      <4> HIDE DEF S, R
      <4> QED  BY <2>1, <2>3, SealedByPairs
    <3>2. c[2] \in R
      <4>1. c = <<c[1], c[2]>> /\ c[1] \in Logics /\ c[2] \in Logics /\ c \in want
        BY <3>1 DEF Explicit, Grown
      <4>2. CASE c[1] = x
        BY <1>1, <4>1, <4>2 DEF From
      <4>3. CASE c[1] # x
        BY <2>1, <3>1, <4>1, <4>3 DEF From, Implied
      <4> QED  BY <4>2, <4>3
    <3>3. Cardinality(S) > k
      BY <2>3 DEF Grown
    <3>4. /\ IsFiniteSet(S) /\ Cardinality(S) \in Nat
          /\ IsFiniteSet(R) /\ Cardinality(R) \in Nat
      BY FromFinite, FS_CardinalityType, LinkAssumption
    <3> HIDE DEF S, R
    <3>5. Cardinality(S \cup {c[2]}) = Cardinality(S) + 1
      BY <3>1, <3>4, FS_AddElement
    <3>6. Cardinality(S \cup {c[2]}) <= Cardinality(R)
      BY <2>1, <3>2, <3>4, FS_Subset
    <3> QED  BY <3>3, <3>4, <3>5, <3>6 DEF R
  <2> QED  BY <2>2, <2>3
<1> QED  BY <1>1, <1>2 DEF Grown

(* As many passes as there are logics find all logics that are linked, and no others. *)
LEMMA WantedAreLinked ==
    ASSUME NEW m, Managers(m)
    PROVE  WantedConnections(m) =
               {c \in Logics \X Logics : c[1] # c[2] /\ Linked(m, c[1], c[2])}
<1> DEFINE n == Cardinality(Logics)
<1>1. n \in Nat
  BY FS_CardinalityType, LinkAssumption
<1>2. PICK f : /\ WantedConnections(m) = f[n]
               /\ f = [k \in 0 .. n |-> IF k = 0 THEN Explicit(m) ELSE Implied(f[k - 1])]
  BY Passes
<1> HIDE DEF n
<1>3. Grown(m, f[n], n)
  <2> DEFINE T == {k \in 0 .. n : Grown(m, f[k], k)}
  <2>1. f[0] = Explicit(m) /\ 0 \in 0 .. n
    BY <1>1, <1>2
  <2>2. ASSUME NEW k \in 0 .. n - 1, Grown(m, f[k], k) PROVE Grown(m, f[k + 1], k + 1)
    <3>1. k + 1 \in 0 .. n /\ k + 1 # 0 /\ (k + 1) - 1 = k /\ k \in Nat
      BY <1>1
    <3>2. f[k + 1] = Implied(f[k])
      BY <1>2, <3>1
    <3> QED  BY <2>2, <3>1, <3>2, PassGrows
  <2>3. \A k \in 0 .. n - 1 : k \in T => k + 1 \in T
    BY <1>1, <2>2
  <2>4. 0 \in T
    BY <2>1, ExplicitGrown
  <2>5. 0 .. n \subseteq T
    <3> HIDE DEF T
    <3> QED  BY <1>1, <2>3, <2>4, InductUpTo
  <2> QED  BY <1>1, <2>5
<1>4. ASSUME NEW x \in Logics, NEW y \in Logics, x # y, Linked(m, x, y)
      PROVE  <<x, y>> \in f[n]
  <2>1. Sealed(m, From(f[n], x))
    <3>1. Cardinality(From(f[n], x)) \in 1 .. n
      BY FromFinite DEF n
    <3> QED  BY <1>1, <1>3, <3>1 DEF Grown
  <2>2. y \in From(f[n], x)
    BY <1>4, <2>1, FromFinite, LinkedBySealed
  <2> QED  BY <1>4, <2>2 DEF From
<1>5. f[n] \subseteq {c \in Logics \X Logics : c[1] # c[2] /\ Linked(m, c[1], c[2])}
  BY <1>3 DEF Grown, Sound
<1> QED  BY <1>2, <1>4, <1>5

(* Connections are right as long as the links and the muted logics are the same. *)
LEMMA ConnectedSame ==
    ASSUME NEW m, NEW k, k.cons = m.cons, k.active = m.active, k.muted = m.muted,
           k.props = m.props, ConnectedIffLinkedIn(m)
    PROVE  ConnectedIffLinkedIn(k)
BY DEF ConnectedIffLinkedIn, Linked

----------------------------------------------------------------------------
(* updateConnections makes the connections right and changes nothing else. *)
LEMMA UpdateConnectionsOK ==
    ASSUME NEW m, Managers(m)
    PROVE  LET u == UpdateConnections(m)
           IN  /\ Managers(u) /\ SameLogics(m, u)
               /\ u.active = m.active /\ u.timer = m.timer
               /\ ConnectedIffLinkedIn(u)
<1> DEFINE c == WantedConnections(m)
           u == UpdateConnections(m)
<1>1. u = [m EXCEPT !.cons = c]
  BY DEF UpdateConnections, Managers
<1>2. c = {p \in Logics \X Logics : p[1] # p[2] /\ Linked(m, p[1], p[2])}
  BY WantedAreLinked
<1> HIDE DEF c, u
<1>3. /\ Managers(u) /\ SameLogics(m, u) /\ u.cons = c
      /\ u.active = m.active /\ u.timer = m.timer
  BY <1>1 DEF Managers, SameLogics
<1>4. ConnectedIffLinkedIn(u)
  BY <1>2, <1>3 DEF ConnectedIffLinkedIn, Linked, SameLogics
<1> QED  BY <1>3, <1>4 DEF u

(* A time-out is due by the state of the logics and of its own link. *)
LEMMA DueSame ==
    ASSUME NEW m, NEW k, SameLogics(m, k), NEW l, l \in k.active <=> l \in m.active
    PROVE  l \in Due(k) <=> l \in Due(m)
BY DEF SameLogics, Due, AllLogicsIdle, AtDefault

(* checkTimeoutTimer makes the time-outs of its links run when they are due. *)
LEMMA CheckTimeoutTimerOK ==
    ASSUME NEW m, Managers(m), NEW W, NEW ls, TimedBut(m, W)
    PROVE  LET c == CheckTimeoutTimer(m, ls)
           IN  /\ Managers(c) /\ SameLogics(m, c) /\ c.active = m.active
               /\ TimedBut(c, W \ ls)
               /\ ConnectedIffLinkedIn(m) => ConnectedIffLinkedIn(c)
<1> DEFINE t == (m.timer \ ls) \cup {l \in ls \cap TimeoutLinks :
                                        AllLogicsIdle(m, l) /\ ~AtDefault(m, l)}
           c == CheckTimeoutTimer(m, ls)
<1>1. c = [m EXCEPT !.timer = t]
  BY DEF CheckTimeoutTimer
<1>2. \A l : l \notin W \ ls => (l \in t <=> l \in Due(m))
  BY DEF TimedBut, Due
<1> HIDE DEF t, c
<1>3. /\ Managers(c) /\ SameLogics(m, c) /\ c.active = m.active /\ c.timer = t
      /\ c.cons = m.cons
  BY <1>1 DEF Managers, SameLogics
<1>4. \A l : l \in Due(c) <=> l \in Due(m)
  BY <1>3, DueSame
<1>5. TimedBut(c, W \ ls)
  BY <1>2, <1>3, <1>4 DEF TimedBut
<1>6. ConnectedIffLinkedIn(m) => ConnectedIffLinkedIn(c)
  BY <1>3, ConnectedSame DEF SameLogics
<1> QED  BY <1>3, <1>5, <1>6 DEF c

(* activateLink, for some links at once. *)
LEMMA ActivateLinksOK ==
    ASSUME NEW m, Managers(m), ConnectedIffLinkedIn(m),
           NEW W, TimedBut(m, W), NEW ls, ls \subseteq Links
    PROVE  LET a == ActivateLinks(m, ls)
           IN  /\ Managers(a) /\ SameLogics(m, a) /\ TimedBut(a, W \ (ls \ m.active))
               /\ ConnectedIffLinkedIn(a)
<1> DEFINE new == ls \ m.active
           n == [m EXCEPT !.active = @ \cup new]
           u == UpdateConnections(n)
<1>1. CASE new = {}
  BY <1>1 DEF ActivateLinks, SameLogics, TimedBut
<1>2. CASE new # {}
  <2>0. new \subseteq Links
    OBVIOUS
  <2> HIDE DEF new
  <2>1. Managers(n) /\ SameLogics(m, n) /\ n.timer = m.timer /\ n.active = m.active \cup new
    BY <2>0 DEF Managers, SameLogics
  <2> HIDE DEF n
  <2>2. /\ Managers(u) /\ SameLogics(n, u)
        /\ u.active = n.active /\ u.timer = n.timer /\ ConnectedIffLinkedIn(u)
    BY <2>1, UpdateConnectionsOK
  <2> HIDE DEF u
  <2>3. TimedBut(u, W \cup new)
    <3> SUFFICES ASSUME NEW l, l \notin W \cup new
                 PROVE  l \in u.timer <=> l \in Due(u)
      BY DEF TimedBut
    <3>1. SameLogics(m, u)
      BY <2>1, <2>2 DEF SameLogics
    <3>2. l \in Due(u) <=> l \in Due(m)
      BY <2>1, <2>2, <3>1, DueSame
    <3> QED  BY <2>1, <2>2, <3>2 DEF TimedBut
  <2> DEFINE a == CheckTimeoutTimer(u, new)
  <2>4. /\ Managers(a) /\ SameLogics(u, a) /\ a.active = u.active
        /\ TimedBut(a, (W \cup new) \ new) /\ ConnectedIffLinkedIn(a)
    BY <2>2, <2>3, CheckTimeoutTimerOK
  <2>5. TimedBut(a, W \ new)
    <3> HIDE DEF a
    <3> QED  BY <2>4 DEF TimedBut
  <2>6. ActivateLinks(m, ls) = a
    BY <1>2 DEF ActivateLinks, new, n, u
  <2> HIDE DEF a
  <2> QED  BY <2>1, <2>2, <2>4, <2>5, <2>6 DEF SameLogics, new
<1> QED  BY <1>1, <1>2

(* deactivateLink. *)
LEMMA DeactivateLinkOK ==
    ASSUME NEW m, ManagerOK(m), NEW l
    PROVE  LET d == DeactivateLink(m, l) IN ManagerOK(d) /\ SameLogics(m, d)
<1> DEFINE to == m.active \ {l}
           n == [m EXCEPT !.active = to]
           u == UpdateConnections(n)
           c == CheckTimeoutTimer(u, {l})
<1>1. CASE l \notin m.active
  BY <1>1 DEF DeactivateLink, SameLogics
<1>2. CASE l \in m.active
  <2>0. DeactivateLink(m, l) = c
    BY <1>2 DEF DeactivateLink
  <2>1. to \subseteq Links
    BY DEF ManagerOK, Managers
  <2>2. to = m.active \ {l}
    OBVIOUS
  <2> HIDE DEF to
  <2>3. Managers(n) /\ SameLogics(m, n) /\ n.timer = m.timer /\ n.active = to
    BY <2>1 DEF ManagerOK, Managers, SameLogics
  <2> HIDE DEF n
  <2>4. /\ Managers(u) /\ SameLogics(n, u)
        /\ u.active = n.active /\ u.timer = n.timer /\ ConnectedIffLinkedIn(u)
    BY <2>3, UpdateConnectionsOK
  <2> HIDE DEF u
  <2>5. SameLogics(m, u) /\ u.timer = m.timer /\ u.active = m.active \ {l}
    BY <2>2, <2>3, <2>4 DEF SameLogics
  <2>6. \A k : k # l => (k \in Due(u) <=> k \in Due(m))
    BY <2>5, DueSame
  <2>7. TimedBut(u, {l})
    BY <2>5, <2>6 DEF ManagerOK, TimedBut
  <2>8. Managers(c) /\ SameLogics(u, c) /\ TimedBut(c, {l} \ {l}) /\ ConnectedIffLinkedIn(c)
    BY <2>4, <2>7, CheckTimeoutTimerOK
  <2> HIDE DEF c
  <2> QED  BY <2>0, <2>5, <2>8 DEF ManagerOK, TimedBut, SameLogics
<1> QED  BY <1>1, <1>2

(* logicIdleStateChanged, called when the idle state of x is no longer the one that the *)
(* time-outs of its links were computed with.                                           *)
LEMMA LogicIdleStateChangedOK ==
    ASSUME NEW m, NEW x, Managers(m), TimedBut(m, LinkNames(m, x)), ConnectedIffLinkedIn(m)
    PROVE  LET i == LogicIdleStateChanged(m, x) IN ManagerOK(i) /\ SameLogics(m, i)
<1> DEFINE ls   == LinkNames(m, x)
           wake == IF m.idle[x] THEN {} ELSE {l \in ls : x \in OnActivity[l]}
           a    == ActivateLinks(m, wake)
           c    == CheckTimeoutTimer(a, ls)
<1>1. wake \subseteq Links
  BY DEF LinkNames
<1> HIDE DEF wake
<1>2. /\ Managers(a) /\ SameLogics(m, a) /\ TimedBut(a, ls \ (wake \ m.active))
      /\ ConnectedIffLinkedIn(a)
  BY <1>1, ActivateLinksOK
<1> HIDE DEF a
<1>3. /\ Managers(c) /\ SameLogics(a, c) /\ TimedBut(c, (ls \ (wake \ m.active)) \ ls)
      /\ ConnectedIffLinkedIn(c)
  BY <1>2, CheckTimeoutTimerOK
<1>4. LogicIdleStateChanged(m, x) = c
  BY DEF LogicIdleStateChanged, a, wake
<1> HIDE DEF c
<1> QED  BY <1>2, <1>3, <1>4 DEF ManagerOK, TimedBut, SameLogics

(* onReceivedTgUpdated. *)
LEMMA OnReceivedTgUpdatedOK ==
    ASSUME NEW m, ManagerOK(m), NEW x, NEW tg
    PROVE  LET o == OnReceivedTgUpdated(m, x, tg) IN ManagerOK(o) /\ SameLogics(m, o)
<1> DEFINE ls == {l \in Links : <<x, tg>> \in OnTg[l]}
           a  == ActivateLinks(m, ls)
<1>1. ls \subseteq Links
  OBVIOUS
<1>2. a = OnReceivedTgUpdated(m, x, tg)
  BY DEF OnReceivedTgUpdated
<1> HIDE DEF ls
<1>3. /\ Managers(a) /\ SameLogics(m, a) /\ TimedBut(a, {} \ (ls \ m.active))
      /\ ConnectedIffLinkedIn(a)
  BY <1>1, ActivateLinksOK DEF ManagerOK
<1> HIDE DEF a
<1> QED  BY <1>2, <1>3 DEF ManagerOK, TimedBut

(* setLogicMute. *)
LEMMA SetLogicMuteOK ==
    ASSUME NEW m, ManagerOK(m), NEW x \in Logics, NEW mute \in BOOLEAN
    PROVE  LET k == SetLogicMute(m, x, mute)
           IN  /\ ManagerOK(k) /\ k.idle = m.idle /\ k.props = m.props
<1> DEFINE to == IF mute THEN m.muted \cup {x} ELSE m.muted \ {x}
           n  == [m EXCEPT !.muted = to]
           u  == UpdateConnections(n)
           ls == LinkNames(m, x)
           c  == CheckTimeoutTimer(u, ls)
<1>1. CASE mute = (x \in m.muted)
  BY <1>1 DEF SetLogicMute
<1>2. CASE mute # (x \in m.muted)
  <2>1. to \subseteq Logics /\ \A y : y # x => (y \in to <=> y \in m.muted)
    BY DEF ManagerOK, Managers
  <2>2. SetLogicMute(m, x, mute) = c
    BY <1>2 DEF SetLogicMute
  <2> HIDE DEF to
  <2>3. /\ Managers(n) /\ n.idle = m.idle /\ n.props = m.props /\ n.muted = to
        /\ n.timer = m.timer /\ n.active = m.active
    BY <2>1 DEF ManagerOK, Managers
  <2> HIDE DEF n
  <2>4. /\ Managers(u) /\ SameLogics(n, u)
        /\ u.active = n.active /\ u.timer = n.timer /\ ConnectedIffLinkedIn(u)
    BY <2>3, UpdateConnectionsOK
  <2> HIDE DEF u
  <2>5. TimedBut(u, ls)
    <3> SUFFICES ASSUME NEW l, l \notin ls PROVE l \in u.timer <=> l \in Due(u)
      BY DEF TimedBut
    <3>1. l \in Links => x \notin m.props[l]
      BY DEF LinkNames
    <3>2. l \in Due(u) <=> l \in Due(m)
      BY <2>1, <2>3, <2>4, <3>1, LinkAssumption
      DEF Due, AllLogicsIdle, AtDefault, SameLogics
    <3> QED  BY <2>3, <2>4, <3>2 DEF ManagerOK, TimedBut
  <2>6. Managers(c) /\ SameLogics(u, c) /\ TimedBut(c, ls \ ls) /\ ConnectedIffLinkedIn(c)
    BY <2>4, <2>5, CheckTimeoutTimerOK
  <2> HIDE DEF c
  <2> QED  BY <2>2, <2>3, <2>4, <2>6 DEF ManagerOK, TimedBut, SameLogics
<1> QED  BY <1>1, <1>2

(* Commands and time-outs. *)
LEMMA CmdReceivedOK ==
    ASSUME NEW m, ManagerOK(m), NEW l \in Links, NEW connect \in BOOLEAN
    PROVE  LET c == CmdReceived(m, l, connect) IN ManagerOK(c) /\ SameLogics(m, c)
<1> DEFINE a == ActivateLinks(m, {l})
<1>1. /\ Managers(a) /\ SameLogics(m, a) /\ TimedBut(a, {} \ ({l} \ m.active))
      /\ ConnectedIffLinkedIn(a)
  BY ActivateLinksOK DEF ManagerOK
<1>2. ManagerOK(a)
  BY <1>1 DEF ManagerOK, TimedBut
<1> QED  BY <1>1, <1>2, DeactivateLinkOK DEF CmdReceived

(* The end of a time-out puts its link back to its default, and stops. *)
LEMMA LinkTimeoutOK ==
    ASSUME NEW m, ManagerOK(m), NEW l \in Links
    PROVE  LET t == LinkTimeout(m, l) IN ManagerOK(t) /\ SameLogics(m, t)
BY CmdReceivedOK DEF LinkTimeout, CmdReceived

(* Only the links that are active by default are away from it before they are started. *)
LEMMA AllLogicsStartedOK ==
    ASSUME NEW present \in SUBSET Logics, NEW idle \in [Logics -> BOOLEAN]
    PROVE  LET s == AllLogicsStarted(present, idle) IN ManagerOK(s) /\ s.idle = idle
<1> DEFINE m == [idle |-> idle, active |-> {}, muted |-> {}, cons |-> {}, timer |-> {},
                 props |-> [l \in Links |-> ConnectLogics[l] \cap present]]
           a == ActivateLinks(m, DefaultActive)
<1>1. Managers(m)
  BY LinkAssumption DEF Managers
<1>2. TimedBut(m, DefaultActive)
  BY LinkAssumption DEF TimedBut, Due, AtDefault
<1>3. m.idle = idle /\ m.active = {} /\ m.cons = {}
  OBVIOUS
<1>4. AllLogicsStarted(present, idle) = a
  BY DEF AllLogicsStarted
<1> HIDE DEF m
<1>6. ConnectedIffLinkedIn(m)
  <2>1. \A x \in Logics, y \in Logics : x # y => ~Linked(m, x, y)
    <3> SUFFICES ASSUME NEW x \in Logics, NEW y \in Logics, x # y PROVE ~Linked(m, x, y)
      OBVIOUS
    <3>1. {x} \in SUBSET Logics /\ Sealed(m, {x})
      BY <1>3 DEF Sealed
    <3> QED  BY <3>1, LinkedBySealed
  <2> QED  BY <1>3, <2>1 DEF ConnectedIffLinkedIn
<1>5. /\ Managers(a) /\ SameLogics(m, a)
      /\ TimedBut(a, DefaultActive \ (DefaultActive \ m.active)) /\ ConnectedIffLinkedIn(a)
  BY <1>1, <1>2, <1>6, ActivateLinksOK, LinkAssumption
<1> HIDE DEF a
<1> QED  BY <1>3, <1>4, <1>5 DEF ManagerOK, TimedBut, SameLogics

----------------------------------------------------------------------------
\* A whole state s, as the operators of RepeaterLink take and return it.
StateOK(s) ==
    /\ s = [lm |-> s.lm, r |-> s.r, rx |-> s.rx, tx |-> s.tx]
    /\ ManagerOK(s.lm)
    /\ s.r \in Repeaters
    /\ s.rx \subseteq Logics /\ s.tx \subseteq Logics

\* A repeater that is up knows its idle state, and its timer runs by it.
Known(s) ==
    s.r.up => /\ s.lm.idle[Repeater] <=> GetIdleState(s, Repeater)
              /\ s.r.upTimer <=> s.lm.idle[Repeater]

\* One that is down has no timer and has given its transmitter back.
Resting(s) == ~s.r.up => ~s.r.upTimer /\ (s.r.txOn => s.r.msg # "none")

SupervisedOK(s) == StateOK(s) /\ Known(s) /\ Resting(s)

----------------------------------------------------------------------------
(* A change of r alone. *)
LEMMA ChangeR ==
    ASSUME NEW s, StateOK(s), NEW q \in Repeaters
    PROVE  LET t == [s EXCEPT !.r = q]
           IN  /\ StateOK(t)
               /\ t.r = q /\ t.lm = s.lm /\ t.rx = s.rx /\ t.tx = s.tx
BY DEF StateOK

(* A change of lm alone. *)
LEMMA ChangeLM ==
    ASSUME NEW s, StateOK(s), NEW m, ManagerOK(m)
    PROVE  LET t == [s EXCEPT !.lm = m]
           IN  /\ StateOK(t)
               /\ t.lm = m /\ t.r = s.r /\ t.rx = s.rx /\ t.tx = s.tx
BY DEF StateOK

(* getIdleState answers yes or no. *)
LEMMA IdleStateBoolean == \A s, x : GetIdleState(s, x) \in BOOLEAN
BY DEF GetIdleState

(* checkIdle of the logic x. *)
LEMMA CheckIdleOK ==
    ASSUME NEW s, StateOK(s), NEW x \in Logics
    PROVE  LET c == CheckIdle(s, x)
               b == GetIdleState(s, x)
           IN  /\ StateOK(c) /\ c.rx = s.rx /\ c.tx = s.tx
               /\ c.lm.idle[x] = b
               /\ \A y \in Logics : y # x => c.lm.idle[y] = s.lm.idle[y]
               /\ c.r.up = s.r.up /\ c.r.txOn = s.r.txOn /\ c.r.msg = s.r.msg
               /\ c.r.delayed = s.r.delayed
               /\ c.r.upTimer = IF x = Repeater /\ s.r.up /\ b # s.lm.idle[x]
                                THEN b ELSE s.r.upTimer
<1> DEFINE b == GetIdleState(s, x)
           c == CheckIdle(s, x)
           m == [s.lm EXCEPT !.idle[x] = b]
           i == LogicIdleStateChanged(m, x)
           t == IF x = Repeater /\ s.r.up THEN b ELSE s.r.upTimer
           q == [s.r EXCEPT !.upTimer = t]
           e == [s EXCEPT !.lm = i]
<1>0. b \in BOOLEAN
  BY IdleStateBoolean
<1>1. CASE b = s.lm.idle[x]
  <2>1. c = s
    BY <1>1 DEF CheckIdle
  <2> QED  BY <1>1, <2>1
<1>2. CASE b # s.lm.idle[x]
  <2>1. c = [s EXCEPT !.lm = i, !.r.upTimer = t]
    BY <1>2 DEF CheckIdle
  <2> HIDE DEF b
  <2>2. /\ Managers(m) /\ m.props = s.lm.props /\ m.muted = s.lm.muted
        /\ m.active = s.lm.active /\ m.timer = s.lm.timer /\ m.cons = s.lm.cons
        /\ m.idle = [s.lm.idle EXCEPT ![x] = b]
    BY <1>0 DEF StateOK, ManagerOK, Managers
  <2> HIDE DEF m
  <2>3. TimedBut(m, LinkNames(m, x))
    <3> SUFFICES ASSUME NEW l, l \notin LinkNames(m, x)
                 PROVE  l \in m.timer <=> l \in Due(m)
      BY DEF TimedBut
    <3>1. l \in Links => x \notin m.props[l]
      BY DEF LinkNames
    <3>2. \A y \in Logics : y # x => m.idle[y] = s.lm.idle[y]
      BY <2>2 DEF StateOK, ManagerOK, Managers
    <3>3. l \in Links => m.props[l] \subseteq Logics
      BY <2>2 DEF Managers
    <3>4. l \in Due(m) <=> l \in Due(s.lm)
      BY <2>2, <3>1, <3>2, <3>3, LinkAssumption DEF Due, AllLogicsIdle, AtDefault
    <3> QED  BY <2>2, <3>4 DEF StateOK, ManagerOK, TimedBut
  <2>13. ConnectedIffLinkedIn(m)
    BY <2>2, ConnectedSame DEF StateOK, ManagerOK
  <2>4. ManagerOK(i) /\ SameLogics(m, i)
    BY <2>2, <2>3, <2>13, LogicIdleStateChangedOK
  <2> HIDE DEF i
  <2>5. t \in BOOLEAN
    BY <1>0 DEF StateOK, Repeaters
  <2>6. t = IF x = Repeater /\ s.r.up /\ b # s.lm.idle[x] THEN b ELSE s.r.upTimer
    BY <1>2
  <2> HIDE DEF t
  <2>7. /\ q \in Repeaters /\ q.upTimer = t /\ q.up = s.r.up /\ q.txOn = s.r.txOn
        /\ q.msg = s.r.msg /\ q.delayed = s.r.delayed
    BY <2>5 DEF StateOK, Repeaters
  <2>8. c = [e EXCEPT !.r = q]
    BY <2>1 DEF StateOK
  <2> HIDE DEF q, c
  <2>9. StateOK(e) /\ e.r = s.r /\ e.lm = i /\ e.rx = s.rx /\ e.tx = s.tx
    BY <2>4, ChangeLM
  <2> HIDE DEF e
  <2>10. StateOK(c) /\ c.r = q /\ c.lm = i /\ c.rx = s.rx /\ c.tx = s.tx
    BY <2>7, <2>8, <2>9, ChangeR
  <2>11. i.idle = [s.lm.idle EXCEPT ![x] = b] /\ s.lm.idle \in [Logics -> BOOLEAN]
    BY <2>2, <2>4 DEF SameLogics, StateOK, ManagerOK, Managers
  <2>12. c.lm.idle[x] = b /\ \A y \in Logics : y # x => c.lm.idle[y] = s.lm.idle[y]
    BY <2>10, <2>11
  <2> QED  BY <2>6, <2>7, <2>10, <2>12 DEF b, c
<1> QED  BY <1>1, <1>2

(* The idle state of a logic is that of its squelch, its transmitter and its messages. *)
LEMMA IdleStateSame ==
    ASSUME NEW s, NEW t, t.rx = s.rx, t.tx = s.tx, t.r.msg = s.r.msg, NEW x
    PROVE  GetIdleState(t, x) = GetIdleState(s, x)
BY DEF GetIdleState

(* The idle state of another logic does not matter to the repeater, and its own is known *)
(* again when its timer ran by it.                                                       *)
LEMMA CheckIdleSupervised ==
    ASSUME NEW s, StateOK(s), NEW x \in Logics, Resting(s),
           s.r.up => /\ s.r.upTimer <=> s.lm.idle[Repeater]
                     /\ x = Repeater \/ (s.lm.idle[Repeater] <=> GetIdleState(s, Repeater))
    PROVE  SupervisedOK(CheckIdle(s, x))
<1> DEFINE c == CheckIdle(s, x)
           b == GetIdleState(s, x)
<1>1. /\ StateOK(c) /\ c.rx = s.rx /\ c.tx = s.tx
      /\ c.lm.idle[x] = b
      /\ \A y \in Logics : y # x => c.lm.idle[y] = s.lm.idle[y]
      /\ c.r.up = s.r.up /\ c.r.txOn = s.r.txOn /\ c.r.msg = s.r.msg
      /\ c.r.upTimer = IF x = Repeater /\ s.r.up /\ b # s.lm.idle[x]
                       THEN b ELSE s.r.upTimer
  BY CheckIdleOK
<1> HIDE DEF c
<1>2. GetIdleState(c, Repeater) = GetIdleState(s, Repeater)
  BY <1>1, IdleStateSame
<1>3. Resting(c)
  BY <1>1 DEF Resting
<1>4. s.r.up \in BOOLEAN /\ s.r.upTimer \in BOOLEAN /\ b \in BOOLEAN
      /\ s.lm.idle[Repeater] \in BOOLEAN
  BY IdleStateBoolean, RepeaterAssumption
  DEF StateOK, ManagerOK, Managers, Repeaters
<1>5. Known(c)
  <2> SUFFICES ASSUME c.r.up
               PROVE  /\ c.lm.idle[Repeater] <=> GetIdleState(c, Repeater)
                      /\ c.r.upTimer <=> c.lm.idle[Repeater]
    BY DEF Known
  <2>1. CASE x = Repeater
    BY <1>1, <1>2, <1>4, <2>1
  <2>2. CASE x # Repeater
    BY <1>1, <1>2, <1>4, <2>2, RepeaterAssumption
  <2> QED  BY <2>1, <2>2
<1>6. SupervisedOK(c)
  BY <1>1, <1>3, <1>5 DEF SupervisedOK
<1> QED  BY <1>6 DEF c

(* A message of an event script. *)
LEMMA PlayOK ==
    ASSUME NEW s, StateOK(s), NEW m \in Msgs
    PROVE  LET p == Play(s, m)
           IN  /\ StateOK(p) /\ p.rx = s.rx /\ p.tx = s.tx
               /\ p.r.up = s.r.up /\ p.r.txOn = s.r.txOn /\ p.r.delayed = s.r.delayed
               /\ ~s.r.up => p.r.upTimer = s.r.upTimer
<1> DEFINE q == [s.r EXCEPT !.msg = IF @ = "heard" THEN @ ELSE m]
           t == [s EXCEPT !.r = q]
           p == CheckIdle(t, Repeater)
<1>1. CASE m = "none"
  BY <1>1 DEF Play
<1>2. CASE m # "none"
  <2>1. Play(s, m) = p
    BY <1>2 DEF Play, StateOK
  <2>2. /\ q \in Repeaters /\ q.up = s.r.up /\ q.txOn = s.r.txOn
        /\ q.delayed = s.r.delayed /\ q.upTimer = s.r.upTimer
    BY DEF StateOK, Repeaters, Msgs
  <2> HIDE DEF q
  <2>3. /\ StateOK(t) /\ t.r = q /\ t.lm = s.lm /\ t.rx = s.rx /\ t.tx = s.tx
    BY <2>2, ChangeR
  <2> HIDE DEF t
  <2>4. /\ StateOK(p) /\ p.rx = t.rx /\ p.tx = t.tx
        /\ p.r.up = t.r.up /\ p.r.txOn = t.r.txOn /\ p.r.delayed = t.r.delayed
        /\ ~t.r.up => p.r.upTimer = t.r.upTimer
    BY <2>3, CheckIdleOK, RepeaterAssumption
  <2> HIDE DEF p
  <2> QED  BY <2>1, <2>2, <2>3, <2>4
<1> QED  BY <1>1, <1>2

(* A message in a supervised repeater. *)
LEMMA PlaySupervised ==
    ASSUME NEW s, SupervisedOK(s), NEW m \in Msgs
    PROVE  SupervisedOK(Play(s, m))
<1> DEFINE q == [s.r EXCEPT !.msg = IF @ = "heard" THEN @ ELSE m]
           t == [s EXCEPT !.r = q]
<1>1. CASE m = "none"
  BY <1>1 DEF Play
<1>2. CASE m # "none"
  <2>1. Play(s, m) = CheckIdle(t, Repeater)
    BY <1>2 DEF Play, SupervisedOK, StateOK
  <2>2. /\ q \in Repeaters /\ q.up = s.r.up /\ q.txOn = s.r.txOn
        /\ q.upTimer = s.r.upTimer /\ q.msg # "none"
    BY <1>2 DEF SupervisedOK, StateOK, Repeaters, Msgs
  <2> HIDE DEF q
  <2>3. /\ StateOK(t) /\ t.r = q /\ t.lm = s.lm
    BY <2>2, ChangeR DEF SupervisedOK
  <2> HIDE DEF t
  <2>4. Resting(t) /\ (t.r.up => (t.r.upTimer <=> t.lm.idle[Repeater]))
    BY <2>2, <2>3 DEF SupervisedOK, Known, Resting
  <2> QED  BY <2>1, <2>3, <2>4, CheckIdleSupervised, RepeaterAssumption
<1> QED  BY <1>1, <1>2

(* The link manager is called with the state of the logics as it is. *)
LEMMA ManagerCalled ==
    ASSUME NEW s, SupervisedOK(s), NEW m, ManagerOK(m), m.idle = s.lm.idle
    PROVE  SupervisedOK([s EXCEPT !.lm = m])
<1> DEFINE t == [s EXCEPT !.lm = m]
<1>1. StateOK(t) /\ t.lm = m /\ t.r = s.r /\ t.rx = s.rx /\ t.tx = s.tx
  BY ChangeLM DEF SupervisedOK
<1> HIDE DEF t
<1>2. GetIdleState(t, Repeater) = GetIdleState(s, Repeater)
  BY <1>1, IdleStateSame
<1>3. SupervisedOK(t)
  BY <1>1, <1>2 DEF SupervisedOK, Known, Resting
<1> QED  BY <1>3 DEF t

(* A change of the members of the repeater that its supervision does not look at. *)
LEMMA OtherMembers ==
    ASSUME NEW s, SupervisedOK(s), NEW q \in Repeaters,
           q.up = s.r.up, q.upTimer = s.r.upTimer, q.txOn = s.r.txOn, q.msg = s.r.msg
    PROVE  SupervisedOK([s EXCEPT !.r = q])
<1> DEFINE t == [s EXCEPT !.r = q]
<1>1. StateOK(t) /\ t.lm = s.lm /\ t.r = q /\ t.rx = s.rx /\ t.tx = s.tx
  BY ChangeR DEF SupervisedOK
<1> HIDE DEF t
<1>2. GetIdleState(t, Repeater) = GetIdleState(s, Repeater)
  BY <1>1, IdleStateSame
<1>3. SupervisedOK(t)
  BY <1>1, <1>2 DEF SupervisedOK, Known, Resting
<1> QED  BY <1>3 DEF t

----------------------------------------------------------------------------
(* setUp(true): whatever the timer and the idle state were, they agree afterwards. *)
LEMMA OpenedOK ==
    ASSUME NEW s, StateOK(s), NEW m \in Msgs
    PROVE  LET o == Opened(s, m)
           IN  SupervisedOK(o) /\ o.r.up /\ o.rx = s.rx /\ o.tx = s.tx
<1> DEFINE q1   == [s.r EXCEPT !.up = TRUE, !.short = 0]
           up   == [s EXCEPT !.r = q1]
           p    == Play(up, m)
           q2   == [p.r EXCEPT !.txOn = TRUE, !.upTimer = FALSE]
           on   == [p EXCEPT !.r = q2]
           idle == CheckIdle(on, Repeater)
           q3   == [idle.r EXCEPT !.upTimer = idle.lm.idle[Repeater]]
           open == [idle EXCEPT !.r = q3]
           lm2  == OnReceivedTgUpdated(open.lm, Repeater, s.r.delayed)
           q4   == [open.r EXCEPT !.delayed = TG_RESET]
           told == [open EXCEPT !.lm = lm2]
           last == [told EXCEPT !.r = q4]
<1>1. /\ up = [s EXCEPT !.r.up = TRUE, !.r.short = 0]
      /\ on = [p EXCEPT !.r.txOn = TRUE, !.r.upTimer = FALSE]
      /\ open = [idle EXCEPT !.r.upTimer = idle.lm.idle[Repeater]]
  OBVIOUS
<1>2. Opened(s, m) = IF s.r.delayed = TG_RESET THEN open
                     ELSE [open EXCEPT !.lm = OnReceivedTgUpdated(@, Repeater, s.r.delayed),
                                       !.r.delayed = TG_RESET]
  <2>1. p = Play(up, m) /\ idle = CheckIdle(on, Repeater)
    OBVIOUS
  <2> HIDE DEF up, p, on, idle, open
  <2> QED  BY <1>1, <2>1 DEF Opened
<1>3. q1 \in Repeaters /\ q1.up
  <2>1. 0 \in 0..SQL_FLAP_SUP_MAX_COUNT
    BY RepeaterAssumption
  <2> QED  BY <2>1 DEF StateOK, Repeaters
<1> HIDE DEF q1
<1>4. StateOK(up) /\ up.r = q1 /\ up.rx = s.rx /\ up.tx = s.tx
  BY <1>3, ChangeR
<1> HIDE DEF up
<1>5. StateOK(p) /\ p.rx = s.rx /\ p.tx = s.tx /\ p.r.up
  BY <1>3, <1>4, PlayOK
<1> HIDE DEF p
<1>6. q2 \in Repeaters /\ q2.up
  BY <1>5 DEF StateOK, Repeaters
<1> HIDE DEF q2
<1>7. StateOK(on) /\ on.r = q2 /\ on.rx = s.rx /\ on.tx = s.tx
  BY <1>5, <1>6, ChangeR
<1> HIDE DEF on
<1>8. /\ StateOK(idle) /\ idle.rx = s.rx /\ idle.tx = s.tx /\ idle.r.up
      /\ idle.r.msg = on.r.msg
      /\ idle.lm.idle[Repeater] = GetIdleState(on, Repeater)
  BY <1>6, <1>7, CheckIdleOK, RepeaterAssumption
<1> HIDE DEF idle
<1>9. GetIdleState(on, Repeater) = GetIdleState(idle, Repeater)
  BY <1>7, <1>8, IdleStateSame
<1>10. /\ q3 \in Repeaters /\ q3.up /\ q3.upTimer = idle.lm.idle[Repeater]
       /\ q3.msg = idle.r.msg /\ q3.delayed = idle.r.delayed
  BY <1>8, <1>9, IdleStateBoolean DEF StateOK, Repeaters
<1> HIDE DEF q3
<1>11. StateOK(open) /\ open.r = q3 /\ open.lm = idle.lm /\ open.rx = s.rx /\ open.tx = s.tx
  BY <1>8, <1>10, ChangeR
<1> HIDE DEF open
<1>12. GetIdleState(open, Repeater) = GetIdleState(idle, Repeater)
  BY <1>8, <1>10, <1>11, IdleStateSame
<1>13. SupervisedOK(open) /\ open.r.up
  BY <1>8, <1>9, <1>10, <1>11, <1>12 DEF SupervisedOK, Known, Resting
<1>14. CASE s.r.delayed = TG_RESET
  BY <1>2, <1>11, <1>13, <1>14
<1>15. CASE s.r.delayed # TG_RESET
  <2>1. ManagerOK(lm2) /\ lm2.idle = open.lm.idle
    BY <1>11, OnReceivedTgUpdatedOK DEF StateOK, SameLogics
  <2>2. Opened(s, m) = last
    BY <1>2, <1>11, <1>15 DEF StateOK
  <2> HIDE DEF lm2
  <2>3. SupervisedOK(told) /\ told.r = open.r /\ told.rx = open.rx /\ told.tx = open.tx
    BY <1>11, <1>13, <2>1, ManagerCalled, ChangeLM
  <2>4. /\ q4 \in Repeaters /\ q4.up = open.r.up /\ q4.upTimer = open.r.upTimer
        /\ q4.txOn = open.r.txOn /\ q4.msg = open.r.msg
    BY <1>11, RepeaterAssumption DEF StateOK, Repeaters
  <2> HIDE DEF told, q4
  <2>5. SupervisedOK(last) /\ last.r = q4 /\ last.rx = told.rx /\ last.tx = told.tx
    BY <2>3, <2>4, OtherMembers, ChangeR DEF SupervisedOK
  <2> HIDE DEF last
  <2> QED  BY <1>11, <1>13, <2>2, <2>3, <2>4, <2>5
<1> QED  BY <1>14, <1>15

(* setUp(false), and the same for a flapping squelch. *)
LEMMA ClosedOK ==
    ASSUME NEW s, StateOK(s), NEW m \in Msgs, NEW flapping \in BOOLEAN
    PROVE  LET c == Closed(s, m, flapping)
           IN  SupervisedOK(c) /\ ~c.r.up /\ c.rx = s.rx /\ c.tx = s.tx
<1> DEFINE q1   == [s.r EXCEPT !.recent = ~flapping, !.up = FALSE, !.upTimer = FALSE]
           down == [s EXCEPT !.r = q1]
           p    == Play(down, m)
           q2   == [p.r EXCEPT !.txOn = @ /\ p.r.msg # "none"]
           c    == [p EXCEPT !.r = q2]
<1>1. down = [s EXCEPT !.r.recent = ~flapping, !.r.up = FALSE, !.r.upTimer = FALSE]
  OBVIOUS
<1>2. Closed(s, m, flapping) = [p EXCEPT !.r.txOn = @ /\ p.r.msg # "none"]
  BY <1>1 DEF Closed
<1>3. q1 \in Repeaters /\ ~q1.up /\ ~q1.upTimer
  BY DEF StateOK, Repeaters
<1> HIDE DEF q1
<1>4. StateOK(down) /\ down.r = q1 /\ down.rx = s.rx /\ down.tx = s.tx
  BY <1>3, ChangeR
<1> HIDE DEF down
<1>5. StateOK(p) /\ p.rx = s.rx /\ p.tx = s.tx /\ ~p.r.up /\ ~p.r.upTimer
  BY <1>3, <1>4, PlayOK
<1> HIDE DEF p
<1>6. q2 \in Repeaters /\ ~q2.up /\ ~q2.upTimer /\ (q2.txOn => q2.msg # "none")
  BY <1>5 DEF StateOK, Repeaters
<1>7. Closed(s, m, flapping) = c
  BY <1>2, <1>5 DEF StateOK
<1> HIDE DEF q2
<1>8. StateOK(c) /\ c.r = q2 /\ c.rx = s.rx /\ c.tx = s.tx
  BY <1>5, <1>6, ChangeR
<1> HIDE DEF c
<1> QED  BY <1>6, <1>7, <1>8 DEF SupervisedOK, Known, Resting

(* setUp leaves a supervised repeater, whichever way it goes. *)
LEMMA SetUpOK ==
    ASSUME NEW s, SupervisedOK(s), NEW m \in Msgs, NEW up \in BOOLEAN
    PROVE  LET t == SetUp(s, up, m)
           IN  SupervisedOK(t) /\ (t.r.up <=> up) /\ t.rx = s.rx /\ t.tx = s.tx
<1>1. s.r.up \in BOOLEAN
  BY DEF SupervisedOK, StateOK, Repeaters
<1>2. CASE up = s.r.up
  BY <1>2 DEF SetUp
<1>3. CASE up /\ ~s.r.up
  <2>1. SetUp(s, up, m) = Opened(s, m)
    BY <1>1, <1>3 DEF SetUp
  <2> DEFINE o == Opened(s, m)
  <2>2. SupervisedOK(o) /\ o.r.up /\ o.rx = s.rx /\ o.tx = s.tx
    BY OpenedOK DEF SupervisedOK
  <2> HIDE DEF o
  <2>3. SetUp(s, up, m) = o
    BY <2>1 DEF o
  <2> QED  BY <1>3, <2>2, <2>3
<1>4. CASE ~up /\ s.r.up
  <2>1. SetUp(s, up, m) = Closed(s, m, FALSE)
    BY <1>1, <1>4 DEF SetUp
  <2>2. FALSE \in BOOLEAN /\ StateOK(s)
    BY DEF SupervisedOK
  <2>3. \A f \in BOOLEAN : /\ SupervisedOK(Closed(s, m, f)) /\ ~Closed(s, m, f).r.up
                            /\ Closed(s, m, f).rx = s.rx /\ Closed(s, m, f).tx = s.tx
    BY <2>2, ClosedOK
  <2> DEFINE c == Closed(s, m, FALSE)
  <2>4. SupervisedOK(c) /\ ~c.r.up /\ c.rx = s.rx /\ c.tx = s.tx
    BY <2>3
  <2> HIDE DEF c
  <2>5. SetUp(s, up, m) = c
    BY <2>1 DEF c
  <2> QED  BY <1>4, <2>4, <2>5
<1> QED  BY <1>1, <1>2, <1>3, <1>4

(* A squelch that opens, or is found open, in a repeater that is up. *)
LEMMA HeardWhileUpOK ==
    ASSUME NEW s, StateOK(s), s.r.up, Repeater \in s.rx
    PROVE  SupervisedOK(HeardWhileUp(s))
<1> DEFINE q == [s.r EXCEPT !.upTimer = FALSE]
           t == [s EXCEPT !.r = q]
           c == CheckIdle(t, Repeater)
<1>1. HeardWhileUp(s) = c
  BY DEF HeardWhileUp, StateOK
<1>2. q \in Repeaters /\ q.up /\ ~q.upTimer
  BY DEF StateOK, Repeaters
<1> HIDE DEF q
<1>3. StateOK(t) /\ t.r = q /\ t.lm = s.lm /\ t.rx = s.rx /\ t.tx = s.tx
  BY <1>2, ChangeR
<1> HIDE DEF t
<1>4. ~GetIdleState(t, Repeater)
  BY <1>3 DEF GetIdleState
<1>5. /\ StateOK(c) /\ c.rx = t.rx /\ c.tx = t.tx /\ c.r.msg = t.r.msg
      /\ c.lm.idle[Repeater] = GetIdleState(t, Repeater) /\ c.r.up = t.r.up
      /\ ~c.r.upTimer
  BY <1>2, <1>3, <1>4, CheckIdleOK, RepeaterAssumption
<1> HIDE DEF c
<1>6. GetIdleState(c, Repeater) = GetIdleState(t, Repeater)
  BY <1>5, IdleStateSame
<1> QED  BY <1>1, <1>2, <1>3, <1>4, <1>5, <1>6 DEF SupervisedOK, Known, Resting

(* activateOnOpenOrClose, with what the squelch did before it came to the call. *)
LEMMA ActivateOnOpenOrCloseOK ==
    ASSUME NEW s, SupervisedOK(s), NEW m \in Msgs, NEW flank
    PROVE  SupervisedOK(ActivateOnOpenOrClose(s, flank, m))
<1> DEFINE up == SetUp(s, TRUE, m)
           q  == [s.r EXCEPT !.armed = TRUE]
<1>1. SupervisedOK(up) /\ up.r.up /\ up.rx = s.rx
  BY SetUpOK
<1>2. Repeater \in s.rx => SupervisedOK(HeardWhileUp(up))
  BY <1>1, HeardWhileUpOK DEF SupervisedOK
<1>3. SupervisedOK([s EXCEPT !.r = q])
  <2>1. /\ q \in Repeaters /\ q.up = s.r.up /\ q.upTimer = s.r.upTimer
        /\ q.txOn = s.r.txOn /\ q.msg = s.r.msg
    BY DEF SupervisedOK, StateOK, Repeaters
  <2> HIDE DEF q
  <2> QED  BY <2>1, OtherMembers
<1>4. [s EXCEPT !.r.armed = TRUE] = [s EXCEPT !.r = q]
  OBVIOUS
<1> QED  BY <1>1, <1>2, <1>3, <1>4 DEF ActivateOnOpenOrClose

----------------------------------------------------------------------------
(* The invariant, the start, and the actions. *)
IInv == SupervisedOK(State)

(* A step that ends in a supervised state keeps the invariant. *)
LEMMA StepOK ==
    ASSUME NEW s, SupervisedOK(s), Step(s)
    PROVE  IInv'
<1>1. s = [lm |-> lm', r |-> r', rx |-> rx', tx |-> tx']
  BY DEF Step, SupervisedOK, StateOK
<1> QED  BY <1>1 DEF IInv, State

(* The state holds the four variables. *)
LEMMA StateFields ==
    State.lm = lm /\ State.r = r /\ State.rx = rx /\ State.tx = tx
BY DEF State

(* The invariant holds when all logics have started. *)
LEMMA InitOK == Init => IInv
<1> SUFFICES ASSUME Init PROVE IInv
  OBVIOUS
<1>1. PICK present \in Starts, m \in Announcements :
        /\ rx = {} /\ tx = {}
        /\ r = [up |-> FALSE, upTimer |-> FALSE, armed |-> FALSE, openers |-> {},
                recent |-> FALSE, short |-> 0, delayed |-> TG_RESET, msg |-> m,
                txOn |-> FALSE]
        /\ lm = AllLogicsStarted(present, [x \in Logics |-> x = Repeater => m # "heard"])
  BY DEF Init
<1>2. ManagerOK(lm)
  <2>1. [x \in Logics |-> x = Repeater => m # "heard"] \in [Logics -> BOOLEAN]
    OBVIOUS
  <2>2. present \in SUBSET Logics
    BY RepeaterAssumption
  <2> QED  BY <1>1, <2>1, <2>2, AllLogicsStartedOK
<1>3. r \in Repeaters /\ ~r.up /\ ~r.upTimer /\ ~r.txOn
  <2>1. 0 \in 0..SQL_FLAP_SUP_MAX_COUNT
    BY RepeaterAssumption
  <2> QED  BY <1>1, <2>1 DEF Repeaters, Announcements, Msgs
<1>4. StateOK(State)
  BY <1>1, <1>2, <1>3 DEF StateOK, State
<1> QED  BY <1>3, <1>4, StateFields DEF IInv, SupervisedOK, Known, Resting

(* A squelch that opens while the repeater is down only changes rx and, perhaps, r. *)
LEMMA SquelchOpensOK == IInv /\ SquelchOpens => IInv'
<1> SUFFICES ASSUME IInv, SquelchOpens PROVE IInv'
  OBVIOUS
<1> DEFINE s == [State EXCEPT !.rx = @ \cup {Repeater}]
           o == IF OPEN_ON_SQL THEN s.r.openers \cup {"SQL"} ELSE s.r.openers
           q == [s.r EXCEPT !.openers = o]
           t == [s EXCEPT !.r = q]
           t0 == [s EXCEPT !.r.openers = IF OPEN_ON_SQL THEN @ \cup {"SQL"} ELSE @]
<1>1. StateOK(s) /\ s.r = r /\ s.lm = lm /\ Repeater \in s.rx
  <2>1. s = [lm |-> lm, r |-> r, rx |-> rx \cup {Repeater}, tx |-> tx]
    BY DEF State
  <2>2. StateOK(State)
    BY DEF IInv, SupervisedOK
  <2> HIDE DEF s
  <2> QED  BY <2>1, <2>2, StateFields, RepeaterAssumption DEF StateOK
<1>2. r.up \in BOOLEAN /\ Resting(s)
  BY <1>1, StateFields DEF IInv, SupervisedOK, StateOK, Repeaters, Resting
<1>3. \/ r.up /\ Step(HeardWhileUp(s))
      \/ ~r.up /\ \E m \in Announcements : Step(ActivateOnOpenOrClose(t, "OPEN", m))
      \/ ~r.up /\ Step(t)
  <2>1. \/ r.up /\ Step(HeardWhileUp(s))
        \/ ~r.up /\ \E m \in Announcements : Step(ActivateOnOpenOrClose(t0, "OPEN", m))
        \/ ~r.up /\ Step(t0)
    BY DEF SquelchOpens
  <2> HIDE DEF s
  <2>2. t0 = t
    BY <1>1 DEF StateOK
  <2> QED  BY <2>1, <2>2
<1> HIDE DEF s
<1>4. CASE r.up /\ Step(HeardWhileUp(s))
  BY <1>1, <1>4, HeardWhileUpOK, StepOK
<1>5. CASE ~r.up
  <2>1. SupervisedOK(s)
    BY <1>1, <1>2, <1>5 DEF SupervisedOK, Known
  <2>2. /\ q \in Repeaters /\ q.up = s.r.up /\ q.upTimer = s.r.upTimer
        /\ q.txOn = s.r.txOn /\ q.msg = s.r.msg
    BY <2>1 DEF SupervisedOK, StateOK, Repeaters
  <2> HIDE DEF q
  <2>3. SupervisedOK(t)
    BY <2>1, <2>2, OtherMembers
  <2> HIDE DEF t
  <2>4. \A m \in Announcements : SupervisedOK(ActivateOnOpenOrClose(t, "OPEN", m))
    BY <2>3, ActivateOnOpenOrCloseOK DEF Announcements, Msgs
  <2> QED  BY <1>3, <1>5, <2>3, <2>4, StepOK
<1> QED  BY <1>2, <1>3, <1>4, <1>5

(* The state when receivers and transmitters have changed. *)
LEMMA Activity ==
    ASSUME IInv, NEW rx2, rx2 \subseteq Logics, NEW tx2, tx2 \subseteq Logics
    PROVE  LET s == [lm |-> lm, r |-> r, rx |-> rx2, tx |-> tx2]
           IN  /\ StateOK(s) /\ Resting(s)
               /\ s.r.up => (s.r.upTimer <=> s.lm.idle[Repeater])
               /\ (Repeater \in rx2 \cup tx2 <=> Repeater \in rx \cup tx)
                    => SupervisedOK(s)
<1> DEFINE s == [lm |-> lm, r |-> r, rx |-> rx2, tx |-> tx2]
<1>1. s.lm = lm /\ s.r = r /\ s.rx = rx2 /\ s.tx = tx2
  OBVIOUS
<1>2. s = [lm |-> s.lm, r |-> s.r, rx |-> s.rx, tx |-> s.tx]
  OBVIOUS
<1> HIDE DEF s
<1>3. StateOK(s)
  BY <1>1, <1>2, StateFields DEF IInv, SupervisedOK, StateOK
<1>4. Resting(s) /\ (s.r.up => (s.r.upTimer <=> s.lm.idle[Repeater]))
  BY <1>1, StateFields DEF IInv, SupervisedOK, Known, Resting
<1>5. ASSUME Repeater \in rx2 \cup tx2 <=> Repeater \in rx \cup tx
      PROVE  SupervisedOK(s)
  <2>1. GetIdleState(s, Repeater) = GetIdleState(State, Repeater)
    BY <1>1, <1>5, StateFields DEF GetIdleState
  <2> QED  BY <1>1, <1>3, <1>4, <2>1, StateFields DEF IInv, SupervisedOK, Known
<1> QED  BY <1>3, <1>4, <1>5 DEF s

(* A squelch that closes while the repeater is up may close the repeater. *)
LEMMA SquelchClosesUpOK ==
    ASSUME IInv, r.up, NEW brief \in BOOLEAN, NEW m \in Msgs
    PROVE  SupervisedOK(SquelchClosesUp(brief, m))
<1> DEFINE s == [lm |-> lm, r |-> r, rx |-> rx \ {Repeater}, tx |-> tx]
           n == IF brief THEN r.short + 1 ELSE 0
           q == [s.r EXCEPT !.short = n]
           t == [s EXCEPT !.r = q]
           q0 == [s.r EXCEPT !.short = 0]
           t0 == [s EXCEPT !.r = q0]
           c == Closed(t0, m, TRUE)
<1>1. State.rx \subseteq Logics /\ State.tx \subseteq Logics /\ r \in Repeaters
  BY StateFields DEF IInv, SupervisedOK, StateOK
<1>2. /\ StateOK(s) /\ Resting(s)
      /\ s.r.up => (s.r.upTimer <=> s.lm.idle[Repeater])
  <2>1. rx \ {Repeater} \subseteq Logics /\ tx \subseteq Logics
    BY <1>1, StateFields
  <2> HIDE DEF s
  <2> QED  BY <2>1, Activity DEF s
<1>3. SquelchClosesUp(brief, m) =
        IF SQL_FLAP_SUP_MAX_COUNT = 0 THEN CheckIdle(s, Repeater)
        ELSE IF n < SQL_FLAP_SUP_MAX_COUNT THEN CheckIdle(t, Repeater)
             ELSE CheckIdle(c, Repeater)
  <2>1. /\ s = [State EXCEPT !.rx = @ \ {Repeater}]
        /\ t = [s EXCEPT !.r.short = n] /\ t0 = [s EXCEPT !.r.short = 0]
        /\ c = Closed(t0, m, TRUE)
    BY DEF State
  <2> HIDE DEF s, t, t0, c
  <2> QED  BY <2>1 DEF SquelchClosesUp
<1>4. s.r = r
  OBVIOUS
<1> HIDE DEF s
<1>5. CASE SQL_FLAP_SUP_MAX_COUNT = 0
  BY <1>2, <1>3, <1>5, CheckIdleSupervised, RepeaterAssumption
<1>6. CASE SQL_FLAP_SUP_MAX_COUNT # 0 /\ n < SQL_FLAP_SUP_MAX_COUNT
  <2>1. n \in 0..SQL_FLAP_SUP_MAX_COUNT
    BY <1>1, <1>6, RepeaterAssumption DEF Repeaters
  <2> HIDE DEF n
  <2>2. /\ q \in Repeaters /\ q.up = r.up /\ q.txOn = r.txOn
        /\ q.upTimer = r.upTimer /\ q.msg = r.msg
    BY <1>1, <1>4, <2>1 DEF Repeaters
  <2> HIDE DEF q
  <2>3. StateOK(t) /\ t.r = q /\ t.lm = s.lm
    BY <1>2, <2>2, ChangeR
  <2> HIDE DEF t
  <2>4. Resting(t) /\ (t.r.up => (t.r.upTimer <=> t.lm.idle[Repeater]))
    BY <1>2, <1>4, <2>2, <2>3 DEF Resting
  <2>5. SupervisedOK(CheckIdle(t, Repeater))
    BY <2>3, <2>4, CheckIdleSupervised, RepeaterAssumption
  <2> QED  BY <1>3, <1>6, <2>5
<1>7. CASE SQL_FLAP_SUP_MAX_COUNT # 0 /\ ~(n < SQL_FLAP_SUP_MAX_COUNT)
  <2>1. 0 \in 0..SQL_FLAP_SUP_MAX_COUNT
    BY RepeaterAssumption
  <2>2. q0 \in Repeaters
    BY <1>1, <1>4, <2>1 DEF Repeaters
  <2> HIDE DEF q0
  <2>3. StateOK(t0)
    BY <1>2, <2>2, ChangeR
  <2> HIDE DEF t0
  <2>4. SupervisedOK(c) /\ ~c.r.up
    BY <2>3, ClosedOK
  <2> HIDE DEF c
  <2>5. SupervisedOK(CheckIdle(c, Repeater))
    BY <2>4, CheckIdleSupervised, RepeaterAssumption DEF SupervisedOK
  <2> QED  BY <1>3, <1>7, <2>5
<1> QED  BY <1>5, <1>6, <1>7

(* A squelch that closes while the repeater is down may open it. *)
LEMMA SquelchClosesDownOK ==
    ASSUME IInv, ~r.up, NEW m \in Msgs
    PROVE  SupervisedOK(SquelchClosesDown(m))
<1> DEFINE s0 == [lm |-> lm, r |-> r, rx |-> rx \ {Repeater}, tx |-> tx]
           q1 == [r EXCEPT !.openers = {}]
           s  == [s0 EXCEPT !.r = q1]
           q2 == [s.r EXCEPT !.armed = FALSE]
           u  == [s EXCEPT !.r = q2]
           t  == CheckIdle(Opened(u, m), Repeater)
           v  == IF r.armed THEN t ELSE s
           q3 == [v.r EXCEPT !.delayed = TG_RESET]
<1>1. State.rx \subseteq Logics /\ State.tx \subseteq Logics /\ r \in Repeaters
  BY StateFields DEF IInv, SupervisedOK, StateOK
<1>2. StateOK(s0) /\ Resting(s0) /\ s0.r = r
  <2>1. rx \ {Repeater} \subseteq Logics /\ tx \subseteq Logics
    BY <1>1, StateFields
  <2>2. s0.r = r
    OBVIOUS
  <2> HIDE DEF s0
  <2> QED  BY <2>1, <2>2, Activity DEF s0
<1>3. SquelchClosesDown(m) = [v EXCEPT !.r.delayed = TG_RESET]
  <2>1. s = [State EXCEPT !.rx = @ \ {Repeater}, !.r.openers = {}]
    <3>1. s0 = [State EXCEPT !.rx = @ \ {Repeater}]
      BY DEF State
    <3> QED  BY <3>1
  <2> HIDE DEF s
  <2>2. /\ u = [s EXCEPT !.r.armed = FALSE]
        /\ t = CheckIdle(Opened(u, m), Repeater)
        /\ v = IF r.armed THEN t ELSE s
    OBVIOUS
  <2> HIDE DEF u, t, v
  <2> QED  BY <2>1, <2>2 DEF SquelchClosesDown
<1>4. SupervisedOK(s0)
  BY <1>2 DEF SupervisedOK, Known
<1> HIDE DEF s0
<1>5. /\ q1 \in Repeaters /\ q1.up = r.up /\ q1.txOn = r.txOn
      /\ q1.upTimer = r.upTimer /\ q1.msg = r.msg
  BY <1>1 DEF Repeaters
<1> HIDE DEF q1
<1>6. SupervisedOK(s)
  BY <1>2, <1>4, <1>5, OtherMembers
<1> HIDE DEF s
<1>7. SupervisedOK(t)
  <2>1. q2 \in Repeaters
    BY <1>6 DEF SupervisedOK, StateOK, Repeaters
  <2> HIDE DEF q2
  <2>2. StateOK(u)
    BY <1>6, <2>1, ChangeR DEF SupervisedOK
  <2> HIDE DEF u
  <2>3. SupervisedOK(Opened(u, m))
    BY <2>2, OpenedOK
  <2> QED  BY <2>3, CheckIdleSupervised, RepeaterAssumption DEF SupervisedOK, Known
<1> HIDE DEF t
<1>8. SupervisedOK(v)
  BY <1>6, <1>7
<1> HIDE DEF v
<1>9. /\ q3 \in Repeaters /\ q3.up = v.r.up /\ q3.txOn = v.r.txOn
      /\ q3.upTimer = v.r.upTimer /\ q3.msg = v.r.msg
  BY <1>8 DEF SupervisedOK, StateOK, Repeaters
<1>10. [v EXCEPT !.r.delayed = TG_RESET] = [v EXCEPT !.r = q3]
  OBVIOUS
<1> HIDE DEF q3
<1> QED  BY <1>3, <1>8, <1>9, <1>10, OtherMembers

(* A squelch that closes, in either state. *)
LEMMA SquelchClosesOK == IInv /\ SquelchCloses => IInv'
<1> SUFFICES ASSUME IInv, SquelchCloses PROVE IInv'
  OBVIOUS
<1>1. PICK m \in Announcements :
        \/ r.up /\ \E brief \in BOOLEAN : Step(SquelchClosesUp(brief, m))
        \/ ~r.up /\ Step(SquelchClosesDown(m))
  BY DEF SquelchCloses
<1>2. m \in Msgs
  BY DEF Announcements, Msgs
<1> QED  BY <1>1, <1>2, SquelchClosesUpOK, SquelchClosesDownOK, StepOK

(* Members of the repeater that its supervision does not look at. *)
LEMMA MembersChange ==
    ASSUME IInv, NEW q \in Repeaters,
           q.up = r.up, q.upTimer = r.upTimer, q.txOn = r.txOn, q.msg = r.msg
    PROVE  SupervisedOK([State EXCEPT !.r = q])
BY OtherMembers, StateFields DEF IInv

(* A call of the link manager that leaves the idle states alone. *)
LEMMA ManagerStep ==
    ASSUME IInv, NEW m, ManagerOK(m), m.idle = lm.idle, Step([State EXCEPT !.lm = m])
    PROVE  IInv'
<1>1. SupervisedOK([State EXCEPT !.lm = m])
  BY ManagerCalled, StateFields DEF IInv
<1> QED  BY <1>1, StepOK

(* What the invariant says of each variable. *)
LEMMA MembersOK == IInv => r \in Repeaters /\ ManagerOK(lm) /\ rx \subseteq Logics /\ tx \subseteq Logics
BY StateFields DEF IInv, SupervisedOK, StateOK

(* What is announced is a message. *)
LEMMA AnnouncementsAreMsgs == Announcements \subseteq Msgs
BY DEF Announcements, Msgs

(* A squelch or tone that has lasted long enough may open the repeater. *)
LEMMA OpenTimerExpiredOK ==
    ASSUME IInv, NEW t, OpenTimerExpired(t) PROVE IInv'
<1> DEFINE q == [r EXCEPT !.openers = @ \ {t}]
           s == [State EXCEPT !.r = q]
<1>1. q \in Repeaters /\ q.up = r.up /\ q.upTimer = r.upTimer /\ q.txOn = r.txOn /\ q.msg = r.msg
  BY MembersOK DEF Repeaters
<1>2. s = [State EXCEPT !.r.openers = @ \ {t}]
  BY DEF State
<1> HIDE DEF q
<1>3. SupervisedOK(s)
  BY <1>1, MembersChange
<1> HIDE DEF s
<1>4. PICK m \in Announcements : Step(ActivateOnOpenOrClose(s, OPEN_SQL_FLANK, m))
  BY <1>2 DEF OpenTimerExpired
<1> QED  BY <1>3, <1>4, ActivateOnOpenOrCloseOK, StepOK, AnnouncementsAreMsgs

(* OPEN_ON_CTCSS: the tone that opens the repeater begins. *)
LEMMA CtcssDetectedOK ==
    ASSUME IInv, CtcssDetected PROVE IInv'
<1> DEFINE q == [r EXCEPT !.openers = @ \cup {"CTCSS"}]
           s == [State EXCEPT !.r = q]
<1>1. q \in Repeaters /\ q.up = r.up /\ q.upTimer = r.upTimer /\ q.txOn = r.txOn /\ q.msg = r.msg
  BY MembersOK DEF Repeaters
<1>2. s = [State EXCEPT !.r.openers = @ \cup {"CTCSS"}]
  BY DEF State
<1> HIDE DEF q
<1> QED  BY <1>1, <1>2, MembersChange, StepOK DEF CtcssDetected

(* The tone call or a command opens the repeater. *)
LEMMA CalledOK ==
    ASSUME IInv, Called PROVE IInv'
<1>1. PICK m \in Announcements : Step(ActivateOnOpenOrClose(State, "CLOSE", m))
  BY DEF Called
<1> QED  BY <1>1, ActivateOnOpenOrCloseOK, StepOK, AnnouncementsAreMsgs DEF IInv

(* Everything that calls setUp and nothing else. *)
LEMMA SetUpStep ==
    ASSUME IInv, NEW up \in BOOLEAN, \E m \in Announcements : Step(SetUp(State, up, m))
    PROVE  IInv'
<1>1. PICK m \in Announcements : Step(SetUp(State, up, m))
  OBVIOUS
<1>2. SupervisedOK(SetUp(State, up, m))
  BY SetUpOK, AnnouncementsAreMsgs DEF IInv
<1> QED  BY <1>1, <1>2, StepOK

(* The actions that only call setUp. *)
LEMMA SetUpActionsOK ==
    ASSUME IInv, ClosedBySel5 \/ UpTimerExpired \/ DtmfCtrlPtyCmdReceived
    PROVE  IInv'
BY SetUpStep DEF ClosedBySel5, UpTimerExpired, DtmfCtrlPtyCmdReceived

(* A module that is activated opens the repeater and mutes its links. *)
LEMMA ActivateModuleOK ==
    ASSUME IInv, ActivateModule PROVE IInv'
<1>1. PICK m \in Announcements :
        LET up == SetUp(State, TRUE, m)
        IN  Step([up EXCEPT !.lm = SetLogicMute(@, Repeater, TRUE)])
  BY DEF ActivateModule
<1> DEFINE up == SetUp(State, TRUE, m)
           k  == SetLogicMute(up.lm, Repeater, TRUE)
<1>2. SupervisedOK(up)
  BY SetUpOK, AnnouncementsAreMsgs DEF IInv
<1> HIDE DEF up
<1>3. ManagerOK(k) /\ k.idle = up.lm.idle
  BY <1>2, SetLogicMuteOK, RepeaterAssumption DEF SupervisedOK, StateOK
<1>4. Step([up EXCEPT !.lm = k])
  BY <1>1 DEF up
<1> HIDE DEF k
<1>5. SupervisedOK([up EXCEPT !.lm = k])
  BY <1>2, <1>3, ManagerCalled
<1> QED  BY <1>4, <1>5, StepOK

(* A module that is deactivated ends the mute of the links of its logic. *)
LEMMA DeactivateModuleOK ==
    ASSUME IInv, DeactivateModule PROVE IInv'
<1> DEFINE k == SetLogicMute(lm, Repeater, FALSE)
<1>1. ManagerOK(k) /\ k.idle = lm.idle
  BY MembersOK, SetLogicMuteOK, RepeaterAssumption
<1>2. Step([State EXCEPT !.lm = k])
  BY StateFields DEF DeactivateModule
<1> HIDE DEF k
<1> QED  BY <1>1, <1>2, ManagerStep

(* setOnline: going offline closes the repeater. *)
LEMMA SetOfflineOK ==
    ASSUME IInv, SetOffline PROVE IInv'
<1> DEFINE k == SetLogicMute(lm, Repeater, FALSE)
           s == [State EXCEPT !.lm = k]
<1>1. ManagerOK(k) /\ k.idle = lm.idle
  BY MembersOK, SetLogicMuteOK, RepeaterAssumption
<1>2. PICK m \in Announcements : Step(SetUp(s, FALSE, m))
  BY StateFields DEF SetOffline
<1> HIDE DEF k
<1>3. SupervisedOK(s)
  BY <1>1, ManagerCalled, StateFields DEF IInv
<1> HIDE DEF s
<1>4. SupervisedOK(SetUp(s, FALSE, m))
  BY <1>3, SetUpOK, AnnouncementsAreMsgs
<1> QED  BY <1>2, <1>4, StepOK

(* setReceivedTg is passed on, or kept until the repeater is up. *)
LEMMA SetReceivedTgOK ==
    ASSUME IInv, NEW tg \in TGs, SetReceivedTg(tg) PROVE IInv'
<1> DEFINE k == OnReceivedTgUpdated(lm, Repeater, tg)
           q == [r EXCEPT !.delayed = tg]
<1>1. CASE r.up
  <2>1. ManagerOK(k) /\ k.idle = lm.idle
    BY MembersOK, OnReceivedTgUpdatedOK DEF SameLogics
  <2>2. Step([State EXCEPT !.lm = k])
    BY <1>1, StateFields DEF SetReceivedTg
  <2> HIDE DEF k
  <2> QED  BY <2>1, <2>2, ManagerStep
<1>2. CASE ~r.up
  <2>1. q \in Repeaters /\ q.up = r.up /\ q.upTimer = r.upTimer /\ q.txOn = r.txOn /\ q.msg = r.msg
    BY MembersOK DEF Repeaters
  <2>2. Step([State EXCEPT !.r = q])
    BY <1>2, StateFields DEF SetReceivedTg
  <2> HIDE DEF q
  <2> QED  BY <2>1, <2>2, MembersChange, StepOK
<1> QED  BY <1>1, <1>2

(* A close that is long past is forgotten. *)
LEMMA CloseIsOldOK ==
    ASSUME IInv, CloseIsOld PROVE IInv'
<1> DEFINE q == [r EXCEPT !.recent = FALSE]
<1>1. q \in Repeaters /\ q.up = r.up /\ q.upTimer = r.upTimer /\ q.txOn = r.txOn /\ q.msg = r.msg
  BY MembersOK DEF Repeaters
<1>2. Step([State EXCEPT !.r = q])
  BY StateFields DEF CloseIsOld
<1> HIDE DEF q
<1> QED  BY <1>1, <1>2, MembersChange, StepOK

(* An announcement of an event script. *)
LEMMA PlayMessageOK ==
    ASSUME IInv, PlayMessage PROVE IInv'
<1>1. PICK m \in {"quiet", "heard"} : Step(Play(State, m))
  BY DEF PlayMessage
<1>2. m \in Msgs
  BY DEF Msgs
<1> QED  BY <1>1, <1>2, PlaySupervised, StepOK DEF IInv

(* The last message ends: the transmitter is given back when the repeater is down. *)
LEMMA AllMsgsWrittenOK ==
    ASSUME IInv, AllMsgsWritten PROVE IInv'
<1> DEFINE q == [r EXCEPT !.msg = "none"]
           s == [State EXCEPT !.r = q]
           c == CheckIdle(s, Repeater)
           p == [c.r EXCEPT !.txOn = @ /\ c.r.up]
           e == [c EXCEPT !.r = p]
<1>1. /\ q \in Repeaters /\ q.up = r.up /\ q.upTimer = r.upTimer
  BY MembersOK DEF Repeaters, Msgs
<1>2. s = [State EXCEPT !.r.msg = "none"]
  BY DEF State
<1> HIDE DEF q
<1>3. StateOK(s) /\ s.r = q /\ s.lm = lm /\ s.rx = rx /\ s.tx = tx
  BY <1>1, ChangeR, StateFields DEF IInv, SupervisedOK
<1> HIDE DEF s
<1>4. Step([c EXCEPT !.r.txOn = @ /\ c.r.up])
  BY <1>2 DEF AllMsgsWritten
<1>5. /\ StateOK(c) /\ c.rx = s.rx /\ c.tx = s.tx
      /\ c.lm.idle[Repeater] = GetIdleState(s, Repeater)
      /\ c.r.up = s.r.up /\ c.r.msg = s.r.msg
      /\ c.r.upTimer = IF s.r.up /\ GetIdleState(s, Repeater) # s.lm.idle[Repeater]
                       THEN GetIdleState(s, Repeater) ELSE s.r.upTimer
  BY <1>3, CheckIdleOK, RepeaterAssumption
<1> HIDE DEF c
<1>6. GetIdleState(c, Repeater) = GetIdleState(s, Repeater)
  BY <1>5, IdleStateSame
<1>7. /\ p \in Repeaters /\ p.up = c.r.up /\ p.upTimer = c.r.upTimer /\ p.msg = c.r.msg
      /\ p.txOn => c.r.up
  BY <1>5 DEF StateOK, Repeaters
<1>8. e = [c EXCEPT !.r.txOn = @ /\ c.r.up]
  OBVIOUS
<1> HIDE DEF p
<1>9. StateOK(e) /\ e.r = p /\ e.lm = c.lm /\ e.rx = c.rx /\ e.tx = c.tx
  BY <1>5, <1>7, ChangeR
<1> HIDE DEF e
<1>10. GetIdleState(e, Repeater) = GetIdleState(c, Repeater)
  BY <1>7, <1>9, IdleStateSame
<1>11. /\ r.up => (r.upTimer <=> lm.idle[Repeater])
       /\ ~r.up => ~r.upTimer
  BY StateFields DEF IInv, SupervisedOK, Known, Resting
<1>12. Known(e) /\ Resting(e)
  BY <1>1, <1>3, <1>5, <1>6, <1>7, <1>9, <1>10, <1>11 DEF Known, Resting
<1> QED  BY <1>4, <1>8, <1>9, <1>12, StepOK DEF SupervisedOK

(* Audio of a link begins, and opens the repeater if it is down. *)
LEMMA AudioBeginsOK ==
    ASSUME IInv, NEW x \in Logics, AudioBegins(x) PROVE IInv'
<1> DEFINE t == tx \cup {x}
           s == [lm |-> lm, r |-> r, rx |-> rx, tx |-> t]
<1>1. t \subseteq Logics /\ rx \subseteq Logics /\ r \in Repeaters
  BY MembersOK
<1>2. Repeater \notin {x} => (Repeater \in rx \cup t <=> Repeater \in rx \cup tx)
  OBVIOUS
<1>3. s = [State EXCEPT !.tx = @ \cup {x}]
  BY DEF State
<1>4. s.r = r
  OBVIOUS
<1> HIDE DEF t
<1>5. /\ StateOK(s) /\ Resting(s)
      /\ s.r.up => (s.r.upTimer <=> s.lm.idle[Repeater])
      /\ x # Repeater => SupervisedOK(s)
  BY <1>1, <1>2, Activity
<1> HIDE DEF s
<1>6. \/ x = Repeater /\ ~r.up
         /\ \E m \in Announcements : Step(CheckIdle(SetUp(s, TRUE, m), x))
      \/ (x # Repeater \/ r.up) /\ Step(CheckIdle(s, x))
  BY <1>3 DEF AudioBegins
<1>7. CASE ~r.up
  <2>1. SupervisedOK(s)
    BY <1>4, <1>5, <1>7 DEF SupervisedOK, Known
  <2>2. \A m \in Announcements : SupervisedOK(SetUp(s, TRUE, m))
    BY <2>1, SetUpOK, AnnouncementsAreMsgs
  <2>3. \A m \in Announcements : SupervisedOK(CheckIdle(SetUp(s, TRUE, m), x))
    BY <2>2, CheckIdleSupervised DEF SupervisedOK, Known
  <2>4. SupervisedOK(CheckIdle(s, x))
    BY <2>1, CheckIdleSupervised DEF SupervisedOK, Known
  <2> QED  BY <1>6, <2>3, <2>4, StepOK
<1>8. CASE r.up
  <2>1. SupervisedOK(CheckIdle(s, x))
    BY <1>5, CheckIdleSupervised DEF SupervisedOK, Known
  <2> QED  BY <1>6, <1>8, <2>1, StepOK
<1> QED  BY <1>1, <1>7, <1>8 DEF Repeaters

(* Audio of a link ends. *)
LEMMA AudioEndsOK ==
    ASSUME IInv, NEW x \in Logics, AudioEnds(x) PROVE IInv'
<1> DEFINE t == tx \ {x}
           s == [lm |-> lm, r |-> r, rx |-> rx, tx |-> t]
<1>1. t \subseteq Logics /\ rx \subseteq Logics
  BY MembersOK
<1>2. x # Repeater => (Repeater \in rx \cup t <=> Repeater \in rx \cup tx)
  OBVIOUS
<1>3. s = [State EXCEPT !.tx = @ \ {x}]
  BY DEF State
<1> HIDE DEF t
<1>4. /\ StateOK(s) /\ Resting(s)
      /\ s.r.up => (s.r.upTimer <=> s.lm.idle[Repeater])
      /\ x # Repeater => SupervisedOK(s)
  BY <1>1, <1>2, Activity
<1> HIDE DEF s
<1>5. SupervisedOK(CheckIdle(s, x))
  BY <1>4, CheckIdleSupervised DEF SupervisedOK, Known
<1> QED  BY <1>3, <1>5, StepOK DEF AudioEnds

(* The receiver of another logic. *)
LEMMA ReceiverChangesOK ==
    ASSUME IInv, NEW x \in Logics, ReceiverChanges(x) PROVE IInv'
<1> DEFINE t == IF x \in rx THEN rx \ {x} ELSE rx \cup {x}
           s == [lm |-> lm, r |-> r, rx |-> t, tx |-> tx]
<1>1. t \subseteq Logics /\ tx \subseteq Logics
  BY MembersOK
<1>2. x # Repeater
  BY DEF ReceiverChanges
<1>3. Repeater \in t \cup tx <=> Repeater \in rx \cup tx
  BY <1>2
<1>4. s = [State EXCEPT !.rx = IF x \in rx THEN @ \ {x} ELSE @ \cup {x}]
  BY DEF State
<1> HIDE DEF t
<1>5. SupervisedOK(s)
  BY <1>1, <1>3, Activity
<1> HIDE DEF s
<1>6. SupervisedOK(CheckIdle(s, x))
  BY <1>5, CheckIdleSupervised DEF SupervisedOK, Known
<1> QED  BY <1>4, <1>6, StepOK DEF ReceiverChanges

(* The calls of the link manager by other logics, by users and by its own timers. *)
LEMMA TgReceivedOK ==
    ASSUME IInv, NEW x, NEW tg, TgReceived(x, tg) PROVE IInv'
<1> DEFINE k == OnReceivedTgUpdated(lm, x, tg)
<1>1. ManagerOK(k) /\ k.idle = lm.idle
  BY MembersOK, OnReceivedTgUpdatedOK DEF SameLogics
<1>2. Step([State EXCEPT !.lm = k])
  BY StateFields DEF TgReceived
<1> HIDE DEF k
<1> QED  BY <1>1, <1>2, ManagerStep

(* A user connects or disconnects a link. *)
LEMMA LinkCommandOK ==
    ASSUME IInv, NEW l \in Links, NEW x, LinkCommand(l, x) PROVE IInv'
<1> DEFINE k == CmdReceived(lm, l, l \notin lm.active)
<1>1. ManagerOK(k) /\ k.idle = lm.idle
  BY MembersOK, CmdReceivedOK DEF SameLogics
<1>2. Step([State EXCEPT !.lm = k])
  BY StateFields DEF LinkCommand
<1> HIDE DEF k
<1> QED  BY <1>1, <1>2, ManagerStep

(* The time-out of a link expires. *)
LEMMA LinkTimedOutOK ==
    ASSUME IInv, NEW l \in Links, LinkTimedOut(l) PROVE IInv'
<1> DEFINE k == LinkTimeout(lm, l)
<1>1. ManagerOK(k) /\ k.idle = lm.idle
  BY MembersOK, LinkTimeoutOK DEF SameLogics
<1>2. Step([State EXCEPT !.lm = k])
  BY StateFields DEF LinkTimedOut
<1> HIDE DEF k
<1> QED  BY <1>1, <1>2, ManagerStep

----------------------------------------------------------------------------
(* The invariant holds always. *)
LEMMA NextOK == IInv /\ [Next]_vars => IInv'
<1> SUFFICES ASSUME IInv, [Next]_vars PROVE IInv'
  OBVIOUS
<1>1. CASE Timers
  BY <1>1, SetUpActionsOK, AllMsgsWrittenOK, OpenTimerExpiredOK, LinkTimedOutOK,
     AudioBeginsOK, AudioEndsOK DEF Timers
<1>2. CASE SquelchOpens \/ SquelchCloses
  BY <1>2, SquelchOpensOK, SquelchClosesOK
<1>3. CASE \/ CtcssDetected \/ Called \/ ClosedBySel5 \/ DtmfCtrlPtyCmdReceived
           \/ ActivateModule \/ DeactivateModule \/ SetOffline
  BY <1>3, CtcssDetectedOK, CalledOK, SetUpActionsOK, ActivateModuleOK,
     DeactivateModuleOK, SetOfflineOK
<1>4. CASE CloseIsOld \/ PlayMessage
  BY <1>4, CloseIsOldOK, PlayMessageOK
<1>5. CASE \E tg \in TGs : SetReceivedTg(tg) \/ \E x \in Logics : TgReceived(x, tg)
  BY <1>5, SetReceivedTgOK, TgReceivedOK
<1>6. CASE \E x \in Logics : ReceiverChanges(x)
  BY <1>6, ReceiverChangesOK
<1>7. CASE \E l \in Links, x \in Logics : LinkCommand(l, x)
  BY <1>7, LinkCommandOK
<1>8. CASE UNCHANGED vars
  BY <1>8 DEF vars, IInv, State
<1> QED  BY <1>1, <1>2, <1>3, <1>4, <1>5, <1>6, <1>7, <1>8 DEF Next

(* The inductive invariant holds in every behaviour. *)
LEMMA AlwaysSupervised == Spec => []IInv
<1> QED  BY InitOK, NextOK, PTL DEF Spec

(* The time-out of a link runs if and only if it has one, the link is not as it is by     *)
(* default and its logics say they are idle or are muted, in any interleaving of          *)
(* squelch, timers, messages, commands and audio (LinkManager::checkTimeoutTimer).        *)
THEOREM TimeoutsRunWhenDue == Spec => []TimeoutRunsWhenDue
<1>1. IInv => TimeoutRunsWhenDue
  BY StateFields
  DEF IInv, SupervisedOK, StateOK, ManagerOK, TimedBut, Due, TimeoutRunsWhenDue,
      TimeoutRunsWhenDueIn
<1> QED  BY <1>1, AlwaysSupervised, PTL

(* A repeater that is up knows whether it is idle and its closing timer runs if and only  *)
(* if it is; one that is down and says nothing has given its transmitter back             *)
(* (RepeaterLogic::setIdle, setUp, allMsgsWritten).                                       *)
THEOREM RepeaterAlwaysSupervised == Spec => []RepeaterSupervised
<1>1. IInv => RepeaterSupervised
  <2> SUFFICES ASSUME IInv PROVE RepeaterSupervised
    OBVIOUS
  <2>1. r.up \in BOOLEAN /\ r.upTimer \in BOOLEAN /\ lm.idle[Repeater] \in BOOLEAN
    BY MembersOK, RepeaterAssumption DEF Repeaters, ManagerOK, Managers
  <2>2. GetIdleState(State, Repeater) \in BOOLEAN
    BY IdleStateBoolean
  <2> QED  BY <2>1, <2>2, StateFields
           DEF IInv, SupervisedOK, Known, Resting, RepeaterSupervised
<1> QED  BY <1>1, AlwaysSupervised, PTL

(* Audio is passed between exactly the logics that chains of active links join, without  *)
(* those that are muted, after any sequence of commands, time-outs, mutes and automatic  *)
(* activations (LinkManager::wantedConnections, updateConnections).                      *)
THEOREM ConnectionsFollowLinks == Spec => []ConnectedIffLinked
<1>1. IInv => ConnectedIffLinked
  BY StateFields DEF IInv, SupervisedOK, StateOK, ManagerOK, ConnectedIffLinked
<1> QED  BY <1>1, AlwaysSupervised, PTL
=============================================================================
