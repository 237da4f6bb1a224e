--------------------- MODULE SessionControllers_proofs ---------------------
(***************************************************************************)
(* What the two controllers behind the sessions promise, for any vertices, *)
(* times and limits.                                                       *)
(***************************************************************************)
EXTENDS SessionControllers, FiniteSetTheorems, WellFoundedInduction, TLAPS

-----------------------------------------------------------------------------
(* The sum over the vertices.  It is a recursion over their subsets, so    *)
(* what it adds up to needs an induction: a set of numbers that has 0 and, *)
(* with each of its members, the next one, has them all, because what it   *)
(* lacks would have a least element.                                       *)

LEMMA LeastElement ==
    ASSUME NEW T \in SUBSET Nat, T # {} PROVE \E m \in T : \A k \in T : m <= k
<1> DEFINE R == {ss \in Nat \X Nat : ss[1] < ss[2]}
<1> HIDE DEF R
<1>1. IsWellFoundedOn(R, Nat)
  BY NatLessThanWellFounded DEF OpToRel, R
<1>2. PICK m \in T : \A y \in T : ~(<<y, m>> \in R)
  BY <1>1, WFMin, Zenon
<1>3. ASSUME NEW k \in T PROVE m <= k
  <2>1. m \in Nat /\ k \in Nat OBVIOUS
  <2>2. ~(k < m) BY <1>2, <2>1 DEF R
  <2>3. QED BY <2>1, <2>2
<1>4. QED BY <1>3

LEMMA InductionOnSets ==
    ASSUME NEW P \in SUBSET Nat, 0 \in P, \A n \in P : n + 1 \in P PROVE P = Nat
<1>1. SUFFICES ASSUME Nat \ P # {} PROVE FALSE OBVIOUS
<1>2. PICK m \in Nat \ P : \A k \in Nat \ P : m <= k BY <1>1, LeastElement
<1>3. m # 0 /\ m - 1 \in Nat BY <1>2
<1>4. m - 1 \in P BY <1>2, <1>3
<1>5. QED BY <1>2, <1>3, <1>4

Pick(D) == CHOOSE d \in D : TRUE

IsSum(S, f, n) ==
    \A D \in SUBSET DOMAIN f :
       Cardinality(D) <= n => S[D] = IF D = {} THEN 0 ELSE f[Pick(D)] + S[D \ {Pick(D)}]

LEMMA PickFacts ==
    ASSUME NEW V, IsFiniteSet(V), NEW D \in SUBSET V, D # {}
    PROVE  /\ Pick(D) \in D
           /\ D \ {Pick(D)} \in SUBSET V
           /\ Cardinality(D) \in Nat
           /\ Cardinality(D \ {Pick(D)}) = Cardinality(D) - 1
<1>1. Pick(D) \in D BY DEF Pick
<1>2. IsFiniteSet(D) BY FS_Subset
<1>3. QED BY <1>1, <1>2, FS_RemoveElement, FS_CardinalityType

LEMMA SubsetInduction ==
    ASSUME NEW V, IsFiniteSet(V), NEW Q \in SUBSET SUBSET V, {} \in Q,
           \A D \in SUBSET V : D # {} /\ D \ {Pick(D)} \in Q => D \in Q
    PROVE  Q = SUBSET V
<1> DEFINE P == {n \in Nat : \A D \in SUBSET V : Cardinality(D) <= n => D \in Q}
<1>1. 0 \in P
  <2>1. ASSUME NEW D \in SUBSET V, Cardinality(D) <= 0 PROVE D = {}
    <3>1. IsFiniteSet(D) BY FS_Subset
    <3>2. QED BY <2>1, <3>1, FS_EmptySet, FS_CardinalityType
  <2>2. QED BY <2>1
<1>2. ASSUME NEW n \in P PROVE n + 1 \in P
  <2>1. ASSUME NEW D \in SUBSET V, Cardinality(D) <= n + 1 PROVE D \in Q
    <3>1. CASE D = {} BY <3>1
    <3>2. CASE D # {}
      <4>1. D \ {Pick(D)} \in SUBSET V /\ Cardinality(D) \in Nat
            /\ Cardinality(D \ {Pick(D)}) = Cardinality(D) - 1
        BY <3>2, PickFacts, Zenon
      <4>2. Cardinality(D \ {Pick(D)}) <= n BY <2>1, <4>1
      <4>3. QED BY <3>2, <4>1, <4>2
    <3>3. QED BY <3>1, <3>2
  <2>2. QED BY <2>1
<1>3. P = Nat
  <2> HIDE DEF P
  <2>1. P \subseteq Nat BY DEF P
  <2>2. QED BY <1>1, <1>2, <2>1, InductionOnSets
<1>4. ASSUME NEW D \in SUBSET V PROVE D \in Q
  <2>1. IsFiniteSet(D) BY FS_Subset
  <2>2. Cardinality(D) \in P BY <1>3, <2>1, FS_CardinalityType
  <2>3. QED BY <2>2
<1>5. QED BY <1>4

LEMMA SumExists ==
    ASSUME NEW V, IsFiniteSet(V), NEW f \in [V -> Nat], NEW n \in Nat
    PROVE  \E S \in [SUBSET V -> Nat] : IsSum(S, f, n)
<1> DEFINE P == {m \in Nat : \E S \in [SUBSET V -> Nat] : IsSum(S, f, m)}
<1>0. DOMAIN f = V OBVIOUS
<1>1. 0 \in P
  <2> DEFINE S == [D \in SUBSET V |-> 0]
  <2>1. ASSUME NEW D \in SUBSET V, Cardinality(D) <= 0 PROVE D = {}
    <3>1. IsFiniteSet(D) BY FS_Subset
    <3>2. QED BY <2>1, <3>1, FS_EmptySet, FS_CardinalityType
  <2>2. IsSum(S, f, 0) BY <1>0, <2>1 DEF IsSum
  <2>3. QED BY <2>2
<1>2. ASSUME NEW m \in P PROVE m + 1 \in P
  <2>1. PICK S \in [SUBSET V -> Nat] : IsSum(S, f, m) OBVIOUS
  <2> DEFINE T == [D \in SUBSET V |-> IF Cardinality(D) <= m \/ D = {} THEN S[D]
                                     ELSE f[Pick(D)] + S[D \ {Pick(D)}]]
  <2>2. T \in [SUBSET V -> Nat]
    <3>1. ASSUME NEW D \in SUBSET V, D # {} PROVE f[Pick(D)] + S[D \ {Pick(D)}] \in Nat
      <4>1. Pick(D) \in V /\ D \ {Pick(D)} \in SUBSET V BY <3>1, PickFacts, Zenon
      <4>2. QED BY <4>1
    <3>2. QED BY <3>1
  <2>3. ASSUME NEW D \in SUBSET V, Cardinality(D) <= m + 1
        PROVE  T[D] = IF D = {} THEN 0 ELSE f[Pick(D)] + T[D \ {Pick(D)}]
    <3>1. CASE D = {}
      <4>1. Cardinality(D) = 0 BY <3>1, FS_EmptySet
      <4>2. S[D] = 0 BY <2>1, <1>0, <3>1, <4>1 DEF IsSum
      <4>3. QED BY <3>1, <4>2
    <3>2. CASE D # {}
      <4> DEFINE E == D \ {Pick(D)}
      <4>1. E \in SUBSET V /\ Cardinality(E) = Cardinality(D) - 1 /\ Cardinality(D) \in Nat
        BY <3>2, PickFacts
      <4>2. Cardinality(E) <= m BY <2>3, <4>1
      <4>3. T[E] = S[E] BY <4>1, <4>2
      <4>4. CASE Cardinality(D) <= m
        <5>1. S[D] = f[Pick(D)] + S[E] BY <2>1, <1>0, <3>2, <4>4 DEF IsSum
        <5>2. QED BY <3>2, <4>3, <4>4, <5>1
      <4>5. CASE ~(Cardinality(D) <= m)
        BY <3>2, <4>3, <4>5
      <4>6. QED BY <4>4, <4>5
    <3>3. QED BY <3>1, <3>2
  <2>4. IsSum(T, f, m + 1) BY <1>0, <2>3 DEF IsSum
  <2> HIDE DEF T
  <2>5. m + 1 \in Nat OBVIOUS
  <2>6. QED BY <2>2, <2>4, <2>5
<1>3. P = Nat
  <2> HIDE DEF P
  <2>1. P \subseteq Nat BY DEF P
  <2>2. QED BY <1>1, <1>2, <2>1, InductionOnSets
<1>4. QED BY <1>3

LEMMA SumIs ==
    ASSUME NEW V, IsFiniteSet(V), NEW f \in [V -> Nat]
    PROVE  \E S \in [SUBSET V -> Nat] : Sum(f) = S[V] /\ IsSum(S, f, Cardinality(V))
<1> DEFINE Body(S) == [D \in SUBSET DOMAIN f |->
                         IF D = {} THEN 0 ELSE LET d == CHOOSE d \in D : TRUE IN f[d] + S[D \ {d}]]
<1>0. DOMAIN f = V OBVIOUS
<1>1. \E S : S = Body(S)
  <2>1. Cardinality(V) \in Nat BY FS_CardinalityType
  <2>2. PICK S \in [SUBSET V -> Nat] : IsSum(S, f, Cardinality(V)) BY <2>1, SumExists
  <2>3. ASSUME NEW D \in SUBSET V PROVE Cardinality(D) <= Cardinality(V)
    BY FS_Subset
  <2>4. ASSUME NEW D \in SUBSET V PROVE S[D] = Body(S)[D]
    BY <1>0, <2>2, <2>3 DEF IsSum, Pick
  <2>5. S = Body(S) BY <1>0, <2>4
  <2>6. QED BY <2>5
<1>2. PICK S : S = Body(S) /\ Sum(f) = S[DOMAIN f]
  BY <1>1 DEF Sum
<1>3. S = Body(S) BY <1>2
<1>4. ASSUME NEW D \in SUBSET V
      PROVE  S[D] = IF D = {} THEN 0 ELSE f[Pick(D)] + S[D \ {Pick(D)}]
  BY <1>0, <1>3 DEF Pick
<1>5. IsSum(S, f, Cardinality(V)) BY <1>0, <1>4 DEF IsSum
<1>6. S \in [SUBSET V -> Nat]
  <2> DEFINE Q == {D \in SUBSET V : S[D] \in Nat}
  <2>1. {} \in Q
    <3>1. {} \in SUBSET V OBVIOUS
    <3>2. S[{}] = 0 BY <1>4, <3>1
    <3>3. QED BY <3>1, <3>2
  <2>2. ASSUME NEW D \in SUBSET V, D # {}, D \ {Pick(D)} \in Q PROVE D \in Q
    <3>1. Pick(D) \in V BY <2>2, PickFacts, Zenon
    <3>2. QED BY <1>4, <2>2, <3>1
  <2>3. Q = SUBSET V
    <3> HIDE DEF Q
    <3>1. Q \in SUBSET SUBSET V BY DEF Q
    <3>2. QED BY <2>1, <2>2, <3>1, SubsetInduction
  <2>4. QED BY <1>0, <1>3, <2>3
<1>7. QED BY <1>0, <1>2, <1>5, <1>6

LEMMA SumFacts ==
    ASSUME NEW V, IsFiniteSet(V), NEW f \in [V -> Nat]
    PROVE  /\ Sum(f) \in Nat
           /\ (\A v \in V : f[v] = 0) => Sum(f) = 0
           /\ \A v \in V : f[v] <= Sum(f)
<1>1. PICK S \in [SUBSET V -> Nat] : Sum(f) = S[V] /\ IsSum(S, f, Cardinality(V))
  BY SumIs
<1>2. ASSUME NEW D \in SUBSET V
      PROVE  S[D] = IF D = {} THEN 0 ELSE f[Pick(D)] + S[D \ {Pick(D)}]
  <2>1. Cardinality(D) <= Cardinality(V) BY FS_Subset
  <2>2. QED BY <1>1, <2>1 DEF IsSum
<1>3. Sum(f) \in Nat BY <1>1
<1>4. ASSUME \A v \in V : f[v] = 0 PROVE Sum(f) = 0
  <2> DEFINE Q == {D \in SUBSET V : S[D] = 0}
  <2>1. {} \in Q BY <1>2
  <2>2. ASSUME NEW D \in SUBSET V, D # {}, D \ {Pick(D)} \in Q PROVE D \in Q
    <3>1. Pick(D) \in V BY <2>2, PickFacts, Zenon
    <3>2. QED BY <1>2, <1>4, <2>2, <3>1
  <2>3. Q = SUBSET V
    <3> HIDE DEF Q
    <3>1. Q \in SUBSET SUBSET V BY DEF Q
    <3>2. QED BY <2>1, <2>2, <3>1, SubsetInduction
  <2>4. QED BY <1>1, <2>3
<1>5. ASSUME NEW v \in V PROVE f[v] <= Sum(f)
  <2> DEFINE Q == {D \in SUBSET V : v \in D => f[v] <= S[D]}
  <2>1. {} \in Q OBVIOUS
  <2>2. ASSUME NEW D \in SUBSET V, D # {}, D \ {Pick(D)} \in Q PROVE D \in Q
    <3>1. Pick(D) \in V /\ D \ {Pick(D)} \in SUBSET V BY <2>2, PickFacts, Zenon
    <3>2. S[D] = f[Pick(D)] + S[D \ {Pick(D)}] BY <1>2, <2>2
    <3>3. f[Pick(D)] \in Nat /\ S[D \ {Pick(D)}] \in Nat /\ f[v] \in Nat BY <3>1
    <3>4. CASE v = Pick(D) BY <3>2, <3>3, <3>4
    <3>5. CASE v # Pick(D)
      <4>1. v \in D => f[v] <= S[D \ {Pick(D)}] BY <2>2, <3>5
      <4>2. QED BY <3>2, <3>3, <4>1
    <3>6. QED BY <3>4, <3>5
  <2>3. Q = SUBSET V
    <3> HIDE DEF Q
    <3>1. Q \in SUBSET SUBSET V BY DEF Q
    <3>2. QED BY <2>1, <2>2, <3>1, SubsetInduction
  <2>4. QED BY <1>1, <2>3
<1>6. QED BY <1>3, <1>4, <1>5

LEMMA SumOfBump ==
    ASSUME NEW V, IsFiniteSet(V), NEW f \in [V -> Nat], NEW v \in V
    PROVE  Sum([f EXCEPT ![v] = @ + 1]) = Sum(f) + 1
<1> DEFINE g == [f EXCEPT ![v] = @ + 1]
<1>1. g \in [V -> Nat] /\ g[v] = f[v] + 1 /\ \A u \in V \ {v} : g[u] = f[u] OBVIOUS
<1> HIDE DEF g
<1>2. PICK S \in [SUBSET V -> Nat] : Sum(f) = S[V] /\ IsSum(S, f, Cardinality(V))
  BY SumIs
<1>3. PICK T \in [SUBSET V -> Nat] : Sum(g) = T[V] /\ IsSum(T, g, Cardinality(V))
  BY <1>1, SumIs
<1>4. ASSUME NEW D \in SUBSET V
      PROVE  /\ S[D] = IF D = {} THEN 0 ELSE f[Pick(D)] + S[D \ {Pick(D)}]
             /\ T[D] = IF D = {} THEN 0 ELSE g[Pick(D)] + T[D \ {Pick(D)}]
  <2>1. Cardinality(D) <= Cardinality(V) BY FS_Subset
  <2>2. QED BY <1>1, <1>2, <1>3, <2>1 DEF IsSum
<1> DEFINE Q == {D \in SUBSET V : T[D] = S[D] + IF v \in D THEN 1 ELSE 0}
<1>5. {} \in Q
  <2>1. {} \in SUBSET V OBVIOUS
  <2>2. S[{}] = 0 /\ T[{}] = 0 BY <1>4, <2>1
  <2>3. QED BY <2>1, <2>2
<1>6. ASSUME NEW D \in SUBSET V, D # {}, D \ {Pick(D)} \in Q PROVE D \in Q
  <2> DEFINE d == Pick(D)
             E == D \ {d}
  <2>1. d \in D /\ E \in SUBSET V BY <1>6, PickFacts, Zenon
  <2>2. S[D] = f[d] + S[E] /\ T[D] = g[d] + T[E] BY <1>4, <1>6
  <2>3. f[d] \in Nat /\ g[d] \in Nat /\ S[E] \in Nat /\ T[E] \in Nat BY <1>1, <2>1
  <2>4. T[E] = S[E] + IF v \in E THEN 1 ELSE 0 BY <1>6
  <2>5. CASE d = v
    <3>1. v \notin E /\ v \in D /\ g[d] = f[d] + 1 BY <1>1, <2>1, <2>5
    <3>2. T[E] = S[E] BY <2>4, <3>1
    <3> HIDE DEF d, E
    <3>3. T[D] = S[D] + 1 BY <2>2, <2>3, <3>1, <3>2
    <3>4. QED BY <3>1, <3>3
  <2>6. CASE d # v
    <3>1. (v \in E <=> v \in D) /\ g[d] = f[d] BY <1>1, <2>1, <2>6
    <3> HIDE DEF d, E
    <3>2. T[D] = S[D] + IF v \in D THEN 1 ELSE 0 BY <2>2, <2>3, <2>4, <3>1
    <3>3. QED BY <3>2
  <2>7. QED BY <2>5, <2>6
<1>7. Q = SUBSET V
  <2> HIDE DEF Q
  <2>1. Q \in SUBSET SUBSET V BY DEF Q
  <2>2. QED BY <1>5, <1>6, <2>1, SubsetInduction
<1>8. T[V] = S[V] + 1 BY <1>7
<1>9. QED BY <1>2, <1>3, <1>8 DEF g

-----------------------------------------------------------------------------
(* Swing identification: the schedule of excitations and the recovery.     *)

\* The probes completed at a vertex, by excitation, follow from their number.
Booked(v) ==
    /\ probed[v][-1] = (counts[v] + 2) \div 3
    /\ probed[v][1] = (counts[v] + 1) \div 3
    /\ probed[v][0] = counts[v] \div 3

Recoveries == [vertex : Vertices \cup {NoVertex}, turned : BOOLEAN, left : BOOLEAN]

SwingTyped ==
    /\ counts \in [Vertices -> Nat]
    /\ probed \in [Vertices -> [Signs -> Nat]]
    /\ probe \in [vertex : Vertices \cup {NoVertex}, age : Nat, run : Nat]
    /\ recovered \in Recoveries
    /\ halfCycles \in Nat /\ rearmStart \in Nat

\* A probe runs at a vertex, on the level that vertex is due.
ProbeIsDue ==
    mode = "probe" =>
        /\ probe.vertex \in Vertices
        /\ command.level = ScheduledProbe(counts[probe.vertex])

\* The pump runs after a recovery.  A recovery is one from the last probe, and if
\* it counted a turn it has seen it.
RecoveryKept ==
    /\ mode = "pump" => recovered.turned /\ recovered.left
    /\ mode = "rearm" => recovered.vertex = probe.vertex
    /\ mode = "rearm" /\ halfCycles > rearmStart => recovered.turned

SwingInv ==
    /\ SwingTyped /\ ProbeIsDue /\ RecoveryKept
    /\ \A v \in Vertices : Booked(v)

LEMMA Thirds ==
    ASSUME NEW c \in Nat
    PROVE  /\ c % 3 = 0 => /\ (c + 1 + 2) \div 3 = (c + 2) \div 3 + 1
                           /\ (c + 1 + 1) \div 3 = (c + 1) \div 3
                           /\ (c + 1) \div 3 = c \div 3
           /\ c % 3 = 1 => /\ (c + 1 + 2) \div 3 = (c + 2) \div 3
                           /\ (c + 1 + 1) \div 3 = (c + 1) \div 3 + 1
                           /\ (c + 1) \div 3 = c \div 3
           /\ c % 3 \notin {0, 1} =>
                           /\ (c + 1 + 2) \div 3 = (c + 2) \div 3
                           /\ (c + 1 + 1) \div 3 = (c + 1) \div 3
                           /\ (c + 1) \div 3 = c \div 3 + 1
           /\ (c + 2) \div 3 >= (c + 1) \div 3
           /\ (c + 1) \div 3 >= c \div 3
           /\ c \div 3 + 1 >= (c + 2) \div 3
  OBVIOUS

LEMMA SwingInitInv == SwingInit => SwingInv
<1> SUFFICES ASSUME SwingInit PROVE SwingInv OBVIOUS
<1>1. SwingTyped BY DEF SwingInit, SwingTyped, NothingProbed, Signs, Recoveries
<1>2. ProbeIsDue /\ RecoveryKept BY DEF SwingInit, ProbeIsDue, RecoveryKept
<1>3. ASSUME NEW v \in Vertices PROVE Booked(v)
  <2>1. counts[v] = 0 /\ probed[v][-1] = 0 /\ probed[v][1] = 0 /\ probed[v][0] = 0
    BY DEF SwingInit, NothingProbed, Signs
  <2> QED BY <2>1 DEF Booked
<1> QED BY <1>1, <1>2, <1>3 DEF SwingInv

\* What an update of the pump leaves of the half cycles, the probe and the recovery.
LEMMA PumpFacts ==
    ASSUME SwingTyped, NEW dt \in SwingSteps, NEW in \in Inputs,
           UpdatePumpHalfCycle(dt, in), Recover(in)
    PROVE  /\ halfCycles' \in Nat
           /\ recovered' \in Recoveries /\ recovered'.vertex = recovered.vertex
           /\ recovered.turned => recovered'.turned
           /\ recovered.left => recovered'.left
           /\ halfCycles' # halfCycles => recovered'.turned
           /\ BandTo(recovered.vertex, in) \in Away => recovered'.left
<1>1. \/ halfCycles' = halfCycles
      \/ halfCycles' = halfCycles + 1
  BY DEF UpdatePumpHalfCycle
<1>2. halfCycles \in Nat /\ recovered \in Recoveries BY DEF SwingTyped
<1>3. recovered.turned \in BOOLEAN /\ recovered.left \in BOOLEAN BY <1>2 DEF Recoveries
<1>4. PICK t \in BOOLEAN, l \in BOOLEAN :
         /\ t = (recovered.turned \/ halfCycles' # halfCycles)
         /\ l = (recovered.left \/ BandTo(recovered.vertex, in) \in Away)
  BY <1>3, Zenon
<1>5. recovered' = [recovered EXCEPT !.turned = t, !.left = l] BY <1>4, Zenon DEF Recover
<1>6. /\ recovered' \in Recoveries /\ recovered'.vertex = recovered.vertex
      /\ recovered'.turned = t /\ recovered'.left = l
  BY <1>2, <1>5 DEF Recoveries
<1>7. halfCycles' \in Nat BY <1>1, <1>2
<1>8. /\ recovered.turned => recovered'.turned
      /\ recovered.left => recovered'.left
      /\ halfCycles' # halfCycles => recovered'.turned
      /\ BandTo(recovered.vertex, in) \in Away => recovered'.left
  BY <1>4, <1>6, Zenon
<1> QED BY <1>6, <1>7, <1>8

LEMMA OlderFacts ==
    ASSUME SwingTyped, NEW dt \in SwingSteps
    PROVE  /\ Older(dt) \in [vertex : Vertices \cup {NoVertex}, age : Nat, run : Nat]
           /\ Older(dt).vertex = probe.vertex
<1>1. dt \in Nat /\ ProbeTime \in Nat BY SwingAssumption
<1>2. /\ probe.run \in Nat /\ probe.age \in Nat /\ probe.vertex \in Vertices \cup {NoVertex}
      /\ probe \in [vertex : Vertices \cup {NoVertex}, age : Nat, run : Nat]
  BY DEF SwingTyped
<1>3. AtMost(ProbeTime, probe.age + dt) \in Nat /\ probe.run + dt \in Nat
  BY <1>1, <1>2 DEF AtMost
<1>4. PICK a \in Nat, b \in Nat :
        a = AtMost(ProbeTime, probe.age + dt) /\ b = probe.run + dt
  BY <1>3
<1>5. Older(dt) = [probe EXCEPT !.run = b, !.age = a] BY <1>4 DEF Older
<1> QED BY <1>2, <1>5

LEMMA SwingStepInv == SwingInv /\ SwingSession => SwingInv'
<1>0. SUFFICES ASSUME SwingInv, SwingSession PROVE SwingInv'
  OBVIOUS
<1>a. SwingTyped BY <1>0 DEF SwingInv
<1>b. ProbeIsDue BY <1>0 DEF SwingInv
<1>c. RecoveryKept BY <1>0 DEF SwingInv
<1>d. \A v \in Vertices : Booked(v) BY <1>0 DEF SwingInv
<1>1. CASE AbortSwing
  <2>1. SwingTyped' BY <1>a, <1>1 DEF AbortSwing, StopSwing, SwingTyped
  <2>2. ProbeIsDue' /\ RecoveryKept'
    BY <1>b, <1>c, <1>1 DEF AbortSwing, StopSwing, ProbeIsDue, RecoveryKept
  <2>3. \A v \in Vertices : Booked(v)' BY <1>d, <1>1 DEF AbortSwing, Booked
  <2> QED BY <2>1, <2>2, <2>3 DEF SwingInv
<1>2. CASE \E in \in Inputs : StartSwing(in)
  <2>0. PICK in \in Inputs : StartSwing(in) BY <1>2
  <2>1. SwingTyped'
    <3>1. /\ counts' = [v \in Vertices |-> 0] /\ probed' = NothingProbed
          /\ probe' = [vertex |-> NoVertex, age |-> 0, run |-> 0]
          /\ recovered' = [vertex |-> NoVertex, turned |-> TRUE, left |-> TRUE]
          /\ halfCycles' = 0 /\ rearmStart' = 0
      BY <2>0 DEF StartSwing
    <3> QED BY <3>1 DEF SwingTyped, NothingProbed, Signs, Recoveries
  <2>2. ProbeIsDue' /\ RecoveryKept' BY <2>0 DEF StartSwing, ProbeIsDue, RecoveryKept
  <2>3. ASSUME NEW v \in Vertices PROVE Booked(v)'
    <3>1. /\ counts'[v] = 0 /\ probed'[v][-1] = 0
          /\ probed'[v][1] = 0 /\ probed'[v][0] = 0
      BY <2>0 DEF StartSwing, NothingProbed, Signs
    <3> QED BY <3>1 DEF Booked
  <2> QED BY <2>1, <2>2, <2>3 DEF SwingInv
<1>3. ASSUME NEW dt \in SwingSteps, NEW in \in Inputs, PumpOn(dt, in) PROVE SwingInv'
  <2> USE <1>3 DEF PumpOn
  <2>1. /\ mode = "pump" /\ UpdatePumpHalfCycle(dt, in) /\ Recover(in)
        /\ UNCHANGED <<rearmStart, counts, probed>>
    OBVIOUS
  <2>2. recovered'.turned /\ recovered'.left /\ halfCycles' \in Nat
        /\ recovered' \in Recoveries
    BY <1>c, <1>a, <2>1, PumpFacts DEF RecoveryKept
  <2>3. \A v \in Vertices : Booked(v)' BY <1>d, <2>1 DEF Booked
  <2>4. CASE in.band = "capture"
    <3>1. /\ mode' = "probe" /\ probe' = [vertex |-> in.vertex, age |-> 0, run |-> probe.run + dt]
          /\ command' = Probing(ScheduledProbe(counts[in.vertex]))
      BY <2>4
    <3>2. in.vertex \in Vertices /\ probe.run + dt \in Nat
      BY <1>a, SwingAssumption DEF Inputs, SwingTyped
    <3>3. SwingTyped' BY <1>a, <2>1, <2>2, <3>1, <3>2 DEF SwingTyped
    <3>4. ProbeIsDue' BY <1>b, <2>1, <3>1, <3>2 DEF ProbeIsDue, Probing
    <3>5. RecoveryKept' BY <1>c, <3>1 DEF RecoveryKept
    <3> QED BY <2>3, <3>3, <3>4, <3>5 DEF SwingInv
  <2>5. CASE in.band # "capture"
    <3>1. mode' = "pump" /\ probe' = Older(dt) BY <2>1, <2>5
    <3>2. SwingTyped' BY <1>a, <2>1, <2>2, <3>1, OlderFacts DEF SwingTyped
    <3>3. ProbeIsDue' /\ RecoveryKept' BY <1>b, <1>c, <2>2, <3>1 DEF ProbeIsDue, RecoveryKept
    <3> QED BY <2>3, <3>2, <3>3 DEF SwingInv
  <2> QED BY <2>4, <2>5
<1>4. ASSUME NEW dt \in SwingSteps, NEW in \in Inputs, HoldProbe(dt, in) PROVE SwingInv'
  <2>1. /\ mode = "probe" /\ probe' = Older(dt)
        /\ UNCHANGED <<mode, halfCycles, rearmStart, counts, command, probed, recovered>>
    BY <1>4 DEF HoldProbe
  <2>2. SwingTyped' BY <1>a, <2>1, OlderFacts DEF SwingTyped
  <2>3. ProbeIsDue' BY <1>b, <1>a, <2>1, OlderFacts DEF ProbeIsDue
  <2>4. RecoveryKept' /\ \A v \in Vertices : Booked(v)' BY <1>c, <1>d, <2>1 DEF RecoveryKept, Booked
  <2> QED BY <2>2, <2>3, <2>4 DEF SwingInv
<1>5. ASSUME NEW dt \in SwingSteps, NEW in \in Inputs, FinishProbe(dt, in) PROVE SwingInv'
  <2>0. PICK v0 \in Vertices : v0 = probe.vertex BY <1>b, <1>5 DEF FinishProbe, ProbeIsDue
  <2> DEFINE c == counts[v0]
  <2>1. /\ v0 \in Vertices /\ c \in Nat
        /\ command.level = ScheduledProbe(c)
    BY <1>a, <1>b, <1>5, <2>0 DEF FinishProbe, ProbeIsDue, SwingTyped
  <2>2. command.level \in Signs BY <2>1 DEF ScheduledProbe, Signs
  <2>3. /\ counts' = [counts EXCEPT ![v0] = @ + 1]
        /\ probed' = [probed EXCEPT ![v0][command.level] = @ + 1]
        /\ halfCycles' = halfCycles
    BY <1>5, <2>0 DEF FinishProbe, CountedVertex
  <2>4. /\ counts' \in [Vertices -> Nat] /\ counts'[v0] = c + 1
        /\ \A v \in Vertices \ {v0} : counts'[v] = counts[v]
    BY <1>a, <2>1, <2>3 DEF SwingTyped
  <2>5. /\ probed' \in [Vertices -> [Signs -> Nat]]
        /\ \A s \in Signs : probed'[v0][s] = IF s = command.level THEN probed[v0][s] + 1
                                             ELSE probed[v0][s]
        /\ \A v \in Vertices \ {v0} : probed'[v] = probed[v]
    BY <1>a, <2>1, <2>2, <2>3 DEF SwingTyped
  <2>6. Booked(v0)'
    <3>1. /\ probed[v0][-1] = (c + 2) \div 3 /\ probed[v0][1] = (c + 1) \div 3
          /\ probed[v0][0] = c \div 3
      BY <1>d, <2>1 DEF Booked
    <3>2. -1 \in Signs /\ 1 \in Signs /\ 0 \in Signs BY DEF Signs
    <3>0. c \in Nat BY <2>1
    <3> HIDE DEF c
    <3>3. /\ probed'[v0][-1] = IF -1 = command.level THEN (c + 2) \div 3 + 1 ELSE (c + 2) \div 3
          /\ probed'[v0][1] = IF 1 = command.level THEN (c + 1) \div 3 + 1 ELSE (c + 1) \div 3
          /\ probed'[v0][0] = IF 0 = command.level THEN c \div 3 + 1 ELSE c \div 3
      BY <2>5, <3>1, <3>2
    <3>t. counts'[v0] = c + 1 BY <2>4
    <3>4. CASE c % 3 = 0
      <4>1. command.level = -1 BY <2>1, <3>4 DEF ScheduledProbe
      <4>8. /\ probed'[v0][-1] = (c + 1 + 2) \div 3 /\ probed'[v0][1] = (c + 1 + 1) \div 3
            /\ probed'[v0][0] = (c + 1) \div 3
        BY <3>0, <3>3, <3>4, <4>1, Thirds
      <4> QED BY <3>t, <4>8 DEF Booked
    <3>5. CASE c % 3 = 1
      <4>1. command.level = 1 BY <2>1, <3>5 DEF ScheduledProbe
      <4>8. /\ probed'[v0][-1] = (c + 1 + 2) \div 3 /\ probed'[v0][1] = (c + 1 + 1) \div 3
            /\ probed'[v0][0] = (c + 1) \div 3
        BY <3>0, <3>3, <3>5, <4>1, Thirds
      <4> QED BY <3>t, <4>8 DEF Booked
    <3>6. CASE c % 3 \notin {0, 1}
      <4>1. c % 3 # 0 /\ c % 3 # 1 BY <3>6
      <4>2. command.level = 0 BY <2>1, <4>1 DEF ScheduledProbe
      <4>8. /\ probed'[v0][-1] = (c + 1 + 2) \div 3 /\ probed'[v0][1] = (c + 1 + 1) \div 3
            /\ probed'[v0][0] = (c + 1) \div 3
        BY <3>0, <3>3, <3>6, <4>2, Thirds
      <4> QED BY <3>t, <4>8 DEF Booked
    <3> QED BY <3>4, <3>5, <3>6
  <2>7. \A v \in Vertices \ {v0} : Booked(v)' BY <1>d, <2>4, <2>5 DEF Booked
  <2>11. \A v \in Vertices : Booked(v)'
    BY <2>6, <2>7
  <2>8. /\ mode' \in {"complete", "rearm"} /\ rearmStart' \in {rearmStart, halfCycles}
        /\ mode' = "rearm" => rearmStart' = halfCycles
        /\ \/ recovered' = recovered
           \/ recovered' = [vertex |-> probe.vertex, turned |-> FALSE, left |-> FALSE]
        /\ probe' \in {[probe EXCEPT !.vertex = NoVertex], Older(dt)}
    BY <1>5 DEF FinishProbe, StopSwing, RearmStartAtProbeEnd
  <2>12. mode' = "rearm" => recovered'.vertex = probe'.vertex
    <3>1. SUFFICES ASSUME mode' = "rearm" PROVE recovered'.vertex = probe'.vertex OBVIOUS
    <3>2. /\ recovered' = [vertex |-> probe.vertex, turned |-> FALSE, left |-> FALSE]
          /\ probe' = Older(dt)
      BY <1>5, <3>1 DEF FinishProbe, StopSwing
    <3>3. Older(dt).vertex = probe.vertex BY <1>a, OlderFacts
    <3> QED BY <3>2, <3>3
  <2>9. SwingTyped'
    <3>1. probe' \in [vertex : Vertices \cup {NoVertex}, age : Nat, run : Nat]
      BY <1>a, <2>8, OlderFacts DEF SwingTyped
    <3>2. rearmStart \in Nat /\ halfCycles \in Nat /\ recovered \in Recoveries
          /\ probe.vertex \in Vertices \cup {NoVertex}
      BY <1>a DEF SwingTyped
    <3>3. rearmStart' \in Nat BY <2>8, <3>2
    <3>4. recovered' \in Recoveries
      <4>1. [vertex |-> probe.vertex, turned |-> FALSE, left |-> FALSE] \in Recoveries
        BY <3>2 DEF Recoveries
      <4> QED BY <2>8, <3>2, <4>1
    <3>5. halfCycles' \in Nat BY <2>3, <3>2
    <3> QED BY <1>a, <2>4, <2>5, <3>1, <3>3, <3>4, <3>5 DEF SwingTyped
  <2>10. ProbeIsDue' /\ RecoveryKept'
    BY <1>a, <1>b, <1>c, <2>3, <2>8, <2>12 DEF ProbeIsDue, RecoveryKept, SwingTyped
  <2> QED BY <2>9, <2>10, <2>11 DEF SwingInv
<1>6. ASSUME NEW dt \in SwingSteps, NEW in \in Inputs, Rearm(dt, in) PROVE SwingInv'
  <2>1. /\ mode = "rearm" /\ UpdatePumpHalfCycle(dt, in) /\ Recover(in)
        /\ UNCHANGED <<rearmStart, counts, probed>>
    BY <1>6 DEF Rearm
  <2>2. /\ halfCycles' \in Nat /\ recovered' \in Recoveries
        /\ recovered'.vertex = recovered.vertex
        /\ recovered.turned => recovered'.turned
        /\ halfCycles' # halfCycles => recovered'.turned
        /\ BandTo(recovered.vertex, in) \in Away => recovered'.left
    BY <1>a, <2>1, PumpFacts
\* The runner and the history look at the same vertex.
  <2>7. recovered.vertex = probe.vertex /\ (FarFromProbe(in) => recovered'.left)
    BY <1>c, <2>1, <2>2 DEF RecoveryKept, FarFromProbe, ProbeBand
  <2>3. halfCycles' > rearmStart' => recovered'.turned
    BY <1>a, <1>c, <2>1, <2>2 DEF RecoveryKept, SwingTyped
  <2>4. \A v \in Vertices : Booked(v)' BY <1>d, <2>1 DEF Booked
  <2>5. CASE FarFromProbe(in) /\ halfCycles' - rearmStart >= 1
    <3>1. mode' = "pump" /\ probe' = [Older(dt) EXCEPT !.vertex = NoVertex]
      BY <1>6, <2>5 DEF Rearm
    <3>2. halfCycles' > rearmStart'
      <4>1. rearmStart' = rearmStart /\ rearmStart \in Nat BY <1>a, <2>1 DEF SwingTyped
      <4>2. halfCycles' \in Nat /\ halfCycles' - rearmStart >= 1 BY <2>2, <2>5
      <4>3. \A a, b \in Nat : b - a >= 1 => b > a OBVIOUS
      <4>4. halfCycles' > rearmStart BY <4>1, <4>2, <4>3
      <4> QED BY <4>1, <4>4
    <3> DEFINE o == Older(dt)
    <3>3. o \in [vertex : Vertices \cup {NoVertex}, age : Nat, run : Nat]
      BY <1>a, OlderFacts
    <3> HIDE DEF o
    <3>4. probe' \in [vertex : Vertices \cup {NoVertex}, age : Nat, run : Nat]
      BY <3>1, <3>3 DEF o
    <3>5. SwingTyped' BY <1>a, <2>1, <2>2, <3>4 DEF SwingTyped
    <3>6. ProbeIsDue' /\ RecoveryKept'
      BY <1>b, <1>c, <2>2, <2>3, <2>5, <2>7, <3>1, <3>2 DEF ProbeIsDue, RecoveryKept
    <3> QED BY <2>4, <3>5, <3>6 DEF SwingInv
  <2>6. CASE ~(FarFromProbe(in) /\ halfCycles' - rearmStart >= 1)
    <3>1. mode' = "rearm" /\ probe' = Older(dt) BY <1>6, <2>1, <2>6 DEF Rearm
    <3>2. SwingTyped' BY <1>a, <2>1, <2>2, <3>1, OlderFacts DEF SwingTyped
    <3>3. recovered'.vertex = probe'.vertex BY <1>a, <2>2, <2>7, <3>1, OlderFacts
    <3>4. ProbeIsDue' /\ RecoveryKept'
      BY <1>b, <1>c, <2>3, <3>1, <3>3 DEF ProbeIsDue, RecoveryKept
    <3> QED BY <2>4, <3>2, <3>4 DEF SwingInv
  <2> QED BY <2>5, <2>6
<1>7. CASE SwingUpdate
  <2> PICK dt \in SwingSteps :
        \/ Timeout(dt)
        \/ \E in \in Inputs : PumpOn(dt, in) \/ HoldProbe(dt, in) \/ FinishProbe(dt, in) \/ Rearm(dt, in)
    BY <1>7 DEF SwingUpdate
  <2>1. CASE Timeout(dt) BY <1>1, <2>1 DEF Timeout
  <2>2. CASE \E in \in Inputs : PumpOn(dt, in) \/ HoldProbe(dt, in) \/ FinishProbe(dt, in) \/ Rearm(dt, in)
    BY <1>3, <1>4, <1>5, <1>6, <2>2
  <2> QED BY <2>1, <2>2
<1> QED BY <1>0, <1>1, <1>2, <1>7 DEF SwingSession

\* Whatever the thirds are, each excitation was probed as often as the next
\* in the schedule, or once more.
LEMMA BookedIsBalanced ==
    ASSUME SwingInv
    PROVE  ScheduleIsBalanced
<1> SUFFICES ASSUME NEW v \in Vertices
             PROVE  /\ probed[v][-1] >= probed[v][1]
                    /\ probed[v][1] >= probed[v][0]
                    /\ probed[v][0] + 1 >= probed[v][-1]
  BY DEF ScheduleIsBalanced
<1>1. counts[v] \in Nat BY DEF SwingInv, SwingTyped
<1>2. Booked(v) BY DEF SwingInv
<1> DEFINE c == counts[v]
<1>3. (c + 2) \div 3 >= (c + 1) \div 3 /\ (c + 1) \div 3 >= c \div 3
      /\ c \div 3 + 1 >= (c + 2) \div 3
  BY <1>1, Thirds
<1> QED BY <1>2, <1>3 DEF Booked

\* Only the pump starts a probe, with the recovery of the last one complete.
LEMMA ProbeStartsRecovered ==
    ASSUME SwingInv, SwingSession, mode # "probe", mode' = "probe"
    PROVE  recovered'.turned /\ recovered'.left
<1>1. CASE AbortSwing \/ \E in \in Inputs : StartSwing(in)
  BY <1>1 DEF AbortSwing, StopSwing, StartSwing
<1>2. CASE SwingUpdate
  <2> PICK dt \in SwingSteps :
        \/ Timeout(dt)
        \/ \E in \in Inputs : PumpOn(dt, in) \/ HoldProbe(dt, in) \/ FinishProbe(dt, in) \/ Rearm(dt, in)
    BY <1>2 DEF SwingUpdate
  <2>1. ~Timeout(dt) BY DEF Timeout, AbortSwing, StopSwing
  <2>2. ASSUME NEW in \in Inputs PROVE ~HoldProbe(dt, in) /\ ~FinishProbe(dt, in)
    BY DEF HoldProbe, FinishProbe
  <2>3. ASSUME NEW in \in Inputs PROVE ~Rearm(dt, in) BY DEF Rearm
  <2>4. PICK in \in Inputs : PumpOn(dt, in) BY <2>1, <2>2, <2>3
  <2>5. mode = "pump" /\ UpdatePumpHalfCycle(dt, in) /\ Recover(in) BY <2>4 DEF PumpOn
  <2>6. recovered.turned /\ recovered.left BY <2>5 DEF SwingInv, RecoveryKept
  <2> QED BY <2>5, <2>6, PumpFacts DEF SwingInv
<1> QED BY <1>1, <1>2 DEF SwingSession

-----------------------------------------------------------------------------
(* Standup: what a hold owes to the updates since it began.                *)

StandupTyped ==
    /\ balancing \in BOOLEAN /\ settling \in BOOLEAN /\ stable \in BOOLEAN
    /\ lastSign \in Sign
    /\ unstableAge \in 0..StableDelay
    /\ vq \in -VqLimit..VqLimit
    /\ hold \in [entry : Sign, upright : BOOLEAN, age : 0..VqLimit]

\* The clock of the status is the time the body was held; a hold that has not
\* been upright is still on the side it began on.
HoldKept ==
    /\ unstableAge = steady
    /\ standing => (phase = "balance" <=> balancing)
    /\ standing /\ balancing /\ ~hold.upright => lastSign = hold.entry

StandupInv == StandupTyped /\ HoldKept /\ StatusIsEarned /\ CommandIsRamped

LEMMA RampAdds ==
    /\ VqLimit <= Ramp * VqLimit /\ Ramp * 0 = 0
    /\ \A a, b \in Nat : Ramp * (a + b) = Ramp * a + Ramp * b
  BY StandupAssumption

LEMMA WithinLimit ==
    ASSUME NEW n \in Nat, NEW m \in Int, n <= m, NEW x \in -n..n
    PROVE  x <= m /\ -x <= m
  OBVIOUS

LEMMA StandupInitInv == StandupInit => StandupInv
<1> SUFFICES ASSUME StandupInit PROVE StandupInv OBVIOUS
<1>1. StandupTyped
  <2>1. VqLimit \in Nat /\ StableDelay \in Nat BY StandupAssumption
  <2>2. 0 \in -VqLimit..VqLimit /\ 0 \in 0..StableDelay /\ 0 \in 0..VqLimit BY <2>1
  <2>3. NoHold \in [entry : Sign, upright : BOOLEAN, age : 0..VqLimit] BY <2>2 DEF NoHold, Sign
  <2> QED BY <2>2, <2>3 DEF StandupInit, StandupTyped, Sign
<1>2. HoldKept /\ StatusIsEarned /\ CommandIsRamped
  BY DEF StandupInit, HoldKept, StatusIsEarned, StableIsEarned, SettlingIsEarned,
         CommandIsRamped
<1> QED BY <1>1, <1>2 DEF StandupInv

LEMMA InputFacts ==
    ASSUME NEW in \in ValidInputs
    PROVE  in.sign \in Sign /\ in.zone \in Zones /\ in.rate \in -2..2
  BY DEF ValidInputs

\* What the history of the hold says after an update, entering or not.
LEMMA HoldFacts ==
    ASSUME NEW entering \in BOOLEAN, NEW in \in ValidInputs, NEW dt \in Nat,
           hold \in [entry : Sign, upright : BOOLEAN, age : 0..VqLimit]
    PROVE  /\ NextHold(entering, in, dt) \in [entry : Sign, upright : BOOLEAN, age : 0..VqLimit]
           /\ in.zone \in StableZones => NextHold(entering, in, dt).upright
           /\ ~NextHold(entering, in, dt).upright => in.sign = NextHold(entering, in, dt).entry
           /\ ~entering /\ hold.upright => NextHold(entering, in, dt).upright
           /\ ~entering => NextHold(entering, in, dt).entry = hold.entry
           /\ NextHold(entering, in, dt).age =
                 IF dt > 0 /\ dt < LongGap
                 THEN Capped(VqLimit, (IF entering THEN 0 ELSE hold.age) + dt) ELSE VqLimit
<1> DEFINE last == IF entering THEN [NoHold EXCEPT !.entry = in.sign] ELSE hold
           n == NextHold(entering, in, dt)
           up == last.upright \/ in.zone \in StableZones \/ in.sign # last.entry
           age == IF dt > 0 /\ dt < LongGap THEN Capped(VqLimit, last.age + dt) ELSE VqLimit
<1>1. in.sign \in Sign BY InputFacts
<1>2. /\ last \in [entry : Sign, upright : BOOLEAN, age : 0..VqLimit]
      /\ entering => last.age = 0 /\ last.entry = in.sign /\ last.upright = FALSE
      /\ ~entering => last = hold
  <2>1. CASE entering
    <3>1. last = [entry |-> in.sign, upright |-> FALSE, age |-> 0] BY <2>1 DEF NoHold
    <3>2. 0 \in 0..VqLimit BY StandupAssumption
    <3> HIDE DEF last
    <3> QED BY <1>1, <2>1, <3>1, <3>2
  <2>2. CASE ~entering BY <2>2
  <2> QED BY <2>1, <2>2
<1>3. age \in 0..VqLimit BY <1>2, StandupAssumption DEF Capped
<1> HIDE DEF last, age
<1>4. n = [last EXCEPT !.upright = up, !.age = age]
  BY DEF NextHold, last, age
<1>5. up \in BOOLEAN BY <1>2
<1> HIDE DEF up
<1>6. /\ n \in [entry : Sign, upright : BOOLEAN, age : 0..VqLimit]
      /\ n.entry = last.entry /\ n.upright = up /\ n.age = age
  <2> HIDE DEF n
  <2> QED BY <1>2, <1>3, <1>4, <1>5
<1> HIDE DEF n
<1>7. /\ in.zone \in StableZones => n.upright
      /\ ~n.upright => in.sign = n.entry
      /\ ~entering /\ hold.upright => n.upright
      /\ ~entering => n.entry = hold.entry
  BY <1>2, <1>6 DEF up
<1>8. n.age = IF dt > 0 /\ dt < LongGap
              THEN Capped(VqLimit, (IF entering THEN 0 ELSE hold.age) + dt) ELSE VqLimit
  <2>1. last.age = IF entering THEN 0 ELSE hold.age BY <1>2
  <2> QED BY <1>6, <2>1 DEF age
<1> QED BY <1>6, <1>7, <1>8 DEF n

LEMMA SwingUpInv ==
    ASSUME StandupInv, NEW in \in ValidInputs, NEW sign, SwingUp(in, sign), standing' = standing
    PROVE  StandupInv'
<1>1. /\ phase' \in {"swing_low", "swing_high"} /\ balancing' = FALSE
      /\ settling' = FALSE /\ stable' = FALSE /\ lastSign' = 0
      /\ unstableAge' = 0 /\ steady' = 0 /\ hold' = NoHold /\ vq' = vq
  BY DEF SwingUp
<1>2. StandupTyped'
  <2>1. 0 \in 0..StableDelay /\ 0 \in 0..VqLimit BY StandupAssumption
  <2>2. NoHold \in [entry : Sign, upright : BOOLEAN, age : 0..VqLimit] BY <2>1 DEF NoHold, Sign
  <2>3. vq \in -VqLimit..VqLimit BY DEF StandupInv, StandupTyped
  <2> QED BY <1>1, <2>1, <2>2, <2>3 DEF StandupTyped, Sign
<1>3. HoldKept' BY <1>1 DEF HoldKept
<1>4. StatusIsEarned' /\ CommandIsRamped'
  BY <1>1 DEF StatusIsEarned, StableIsEarned, SettlingIsEarned, CommandIsRamped
<1> QED BY <1>2, <1>3, <1>4 DEF StandupInv

LEMMA BalanceInv ==
    ASSUME StandupInv, NEW in \in ValidInputs, NEW dt \in StandupSteps, Balance(in, dt),
           standing, standing' = standing
    PROVE  StandupInv'
<1> DEFINE entering == ~balancing
<1>1. PICK rate \in FilteredRates(in.rate) :
        /\ lastSign' = in.sign /\ balancing' = TRUE
        /\ unstableAge' = UnstableAge(entering, in.zone, dt)
        /\ stable' = (in.zone \in StableZones /\ ((~entering /\ stable) \/ unstableAge' >= StableDelay))
        /\ settling' = \/ ~entering /\ settling
                       \/ ~entering /\ ~settling /\ CrossedZero(lastSign, in.sign)
                       \/ Reversal(in, rate)
                       \/ stable' /\ ~(~entering /\ stable)
        /\ vq' \in RampedFrom(LoopStart(entering), dt)
        /\ phase' = "balance" /\ hold' = NextHold(entering, in, dt)
        /\ steady' = IF entering \/ in.zone \notin StableZones THEN 0
                     ELSE Capped(StableDelay, steady + dt)
  BY DEF Balance
<1>2. StandupTyped /\ HoldKept /\ StatusIsEarned /\ CommandIsRamped BY DEF StandupInv
<1>3. /\ dt \in Nat \ {0} /\ StableDelay \in Nat \ {0} /\ VqLimit \in Nat \ {0}
      /\ Ramp \in Nat \ {0}
  BY StandupAssumption
<1>4. entering \in BOOLEAN BY <1>2 DEF StandupTyped
<1>5. in.sign \in Sign BY InputFacts
<1>6. hold \in [entry : Sign, upright : BOOLEAN, age : 0..VqLimit] BY <1>2 DEF StandupTyped
<1>7. /\ hold' \in [entry : Sign, upright : BOOLEAN, age : 0..VqLimit]
      /\ in.zone \in StableZones => hold'.upright
      /\ ~hold'.upright => in.sign = hold'.entry
      /\ ~entering /\ hold.upright => hold'.upright
      /\ ~entering => hold'.entry = hold.entry
      /\ hold'.age = IF dt > 0 /\ dt < LongGap
                     THEN Capped(VqLimit, (IF entering THEN 0 ELSE hold.age) + dt) ELSE VqLimit
  BY <1>1, <1>3, <1>4, <1>6, HoldFacts
<1>8. unstableAge' = steady' /\ steady' \in 0..StableDelay
  BY <1>1, <1>2, <1>3 DEF StandupTyped, HoldKept, UnstableAge, Capped
<1>9. vq' \in -VqLimit..VqLimit BY <1>1 DEF RampedFrom
<1>10. StandupTyped' BY <1>1, <1>5, <1>7, <1>8, <1>9 DEF StandupTyped
<1>11. HoldKept' BY <1>1, <1>7, <1>8 DEF HoldKept
<1>12. StatusIsEarned'
  <2>1. StableIsEarned'
    <3> SUFFICES ASSUME stable' PROVE steady' >= StableDelay
      BY <1>1 DEF StableIsEarned
    <3>1. in.zone \in StableZones /\ ((~entering /\ stable) \/ steady' >= StableDelay)
      BY <1>1, <1>8
    <3>2. CASE ~entering /\ stable
      <4>1. steady >= StableDelay BY <1>2, <3>2 DEF StatusIsEarned, StableIsEarned
      <4>2. steady \in 0..StableDelay BY <1>2 DEF StandupTyped, HoldKept
      <4>3. steady' = Capped(StableDelay, steady + dt) BY <1>1, <3>1, <3>2
      <4> QED BY <1>3, <4>1, <4>2, <4>3 DEF Capped
    <3> QED BY <3>1, <3>2
  <2>2. ~entering /\ settling => hold'.upright
    BY <1>2, <1>7 DEF StatusIsEarned, SettlingIsEarned
  <2>3. ~entering /\ CrossedZero(lastSign, in.sign) => hold'.upright
    BY <1>2, <1>5, <1>7 DEF HoldKept, CrossedZero, StandupTyped, Sign
  <2>4. Reversal(in, rate) \/ stable' => hold'.upright BY <1>1, <1>7 DEF Reversal
  <2>5. settling' => hold'.upright BY <1>1, <2>2, <2>3, <2>4
  <2> QED BY <1>1, <2>1, <2>5 DEF StatusIsEarned, SettlingIsEarned
<1>13. CommandIsRamped'
  <2> DEFINE from == IF entering THEN 0 ELSE hold.age
  <2>1. /\ from \in Nat /\ LoopStart(entering) <= Ramp * from /\ -LoopStart(entering) <= Ramp * from
        /\ LoopStart(entering) \in Int
    <3>1. CASE entering BY <1>3, <3>1, RampAdds DEF LoopStart
    <3>2. CASE ~entering
      BY <1>2, <1>6, <3>2 DEF LoopStart, CommandIsRamped, HoldKept, StandupTyped
    <3> QED BY <3>1, <3>2
  <2> HIDE DEF from
  <2>2. /\ VqLimit <= Ramp * VqLimit /\ Ramp * (from + dt) = Ramp * from + Ramp * dt
    BY <1>3, <2>1, RampAdds
  <2>3. CASE dt < LongGap /\ from + dt < VqLimit
    <3>1. hold'.age = from + dt BY <1>3, <1>7, <2>3 DEF Capped, from
    <3>2. vq' <= LoopStart(entering) + Ramp * dt /\ vq' >= LoopStart(entering) - Ramp * dt
      BY <1>1, <1>3, <2>3 DEF RampedFrom
    <3>3. Ramp * from \in Int /\ Ramp * dt \in Int BY <1>3, <2>1
    <3>4. vq' <= Ramp * from + Ramp * dt /\ -vq' <= Ramp * from + Ramp * dt
      BY <1>9, <2>1, <3>2, <3>3
    <3> QED BY <2>2, <3>1, <3>4 DEF CommandIsRamped
  <2>4. CASE ~(dt < LongGap /\ from + dt < VqLimit)
    <3>1. hold'.age = VqLimit BY <1>3, <1>7, <2>4 DEF Capped, from
    <3>2. Ramp * VqLimit \in Int /\ VqLimit <= Ramp * VqLimit BY <1>3, <2>2
    <3>3. vq' <= Ramp * VqLimit /\ -vq' <= Ramp * VqLimit BY <1>3, <1>9, <3>2, WithinLimit
    <3> QED BY <3>1, <3>3 DEF CommandIsRamped
  <2> QED BY <2>3, <2>4
<1> QED BY <1>10, <1>11, <1>12, <1>13 DEF StandupInv

LEMMA StandupStepInv == StandupInv /\ StandupSession => StandupInv'
<1>0. SUFFICES ASSUME StandupInv, StandupSession PROVE StandupInv'
  OBVIOUS
<1>1. CASE StandupUpdate
  <2>1. PICK in \in ValidInputs, dt \in StandupSteps : Update(in, dt) BY <1>1 DEF StandupUpdate
  <2>2. standing /\ standing' = standing BY <1>1 DEF StandupUpdate
  <2>3. CASE SwingUp(in, swingSign) BY <1>0, <2>2, <2>3, SwingUpInv
  <2>4. CASE Balance(in, dt) BY <1>0, <2>2, <2>4, BalanceInv
  <2> QED BY <2>1, <2>3, <2>4 DEF Update
<1>2. CASE StopStandup \/ VoidUpdate
  BY <1>0, <1>2 DEF StopStandup, VoidUpdate, StandupInv, StandupTyped, HoldKept,
     StatusIsEarned, StableIsEarned, SettlingIsEarned, CommandIsRamped
<1>3. ASSUME NEW in \in ValidInputs, StartStandup(in) PROVE StandupInv'
  <2>1. standing' /\ unstableAge' = 0 /\ stable' = FALSE /\ steady' = 0 /\ balancing' = (in.zone < 3)
    BY <1>3 DEF StartStandup
  <2>2. 0 \in 0..StableDelay /\ 0 \in 0..VqLimit /\ 0 \in -VqLimit..VqLimit /\ LongGap \in Nat
    BY StandupAssumption
  <2>3. CASE in.zone >= 3
    <3>1. /\ phase' \in {"swing_low", "swing_high"} /\ settling' = FALSE /\ lastSign' = 0
          /\ vq' = 0 /\ hold' = NoHold /\ balancing' = FALSE
      <4>1. in.zone \in Zones BY InputFacts
      <4>2. (in.zone < 3) = FALSE BY <2>3, <4>1 DEF Zones
      <4>3. balancing' = FALSE BY <2>1, <4>2
      <4>4. /\ phase' = (IF in.zone <= 4 THEN "swing_low" ELSE "swing_high")
            /\ settling' = FALSE /\ lastSign' = 0 /\ vq' = 0 /\ hold' = NoHold
        BY <1>3, <2>3 DEF StartStandup
      <4> QED BY <4>3, <4>4
    <3>2. NoHold \in [entry : Sign, upright : BOOLEAN, age : 0..VqLimit] BY <2>2 DEF NoHold, Sign
    <3>3. StandupTyped' BY <2>1, <2>2, <3>1, <3>2 DEF StandupTyped, Sign
    <3>4. HoldKept' BY <2>1, <3>1 DEF HoldKept
    <3>5. StatusIsEarned' /\ CommandIsRamped'
      BY <2>1, <3>1 DEF StatusIsEarned, StableIsEarned, SettlingIsEarned, CommandIsRamped
    <3> QED BY <3>3, <3>4, <3>5 DEF StandupInv
  <2>4. CASE ~(in.zone >= 3)
    <3>1. /\ phase' = "balance" /\ lastSign' = in.sign /\ balancing' = TRUE
          /\ settling' = Reversal(in, SignOf(in.rate)) /\ vq' \in RampedFrom(0, 0)
          /\ hold' = NextHold(TRUE, in, 0)
      <4>1. in.zone \in Zones BY InputFacts
      <4>2. in.zone < 3 BY <2>4, <4>1 DEF Zones
      <4> QED BY <1>3, <2>1, <2>4, <4>2 DEF StartStandup
    <3>2. /\ hold' \in [entry : Sign, upright : BOOLEAN, age : 0..VqLimit]
          /\ in.zone \in StableZones => hold'.upright
          /\ ~hold'.upright => in.sign = hold'.entry
          /\ hold'.age = VqLimit
      <4>1. hold \in [entry : Sign, upright : BOOLEAN, age : 0..VqLimit]
        BY <1>0 DEF StandupInv, StandupTyped
      <4>2. 0 \in Nat /\ TRUE \in BOOLEAN /\ ~(0 > 0) OBVIOUS
      <4> QED BY <3>1, <4>1, <4>2, HoldFacts
    <3>3. in.sign \in Sign /\ vq' \in -VqLimit..VqLimit BY <3>1, InputFacts DEF RampedFrom
    <3>4. settling' \in BOOLEAN BY <3>1 DEF Reversal
    <3>5. StandupTyped' BY <2>1, <2>2, <3>1, <3>2, <3>3, <3>4 DEF StandupTyped
    <3>6. HoldKept' BY <2>1, <3>1, <3>2 DEF HoldKept
    <3>7. StatusIsEarned'
      BY <2>1, <3>1, <3>2 DEF StatusIsEarned, StableIsEarned, SettlingIsEarned, Reversal
    <3>8. CommandIsRamped'
      <4>1. VqLimit \in Nat /\ Ramp * VqLimit \in Int /\ VqLimit <= Ramp * VqLimit
        BY StandupAssumption, RampAdds
      <4>2. vq' <= Ramp * VqLimit /\ -vq' <= Ramp * VqLimit BY <3>3, <4>1, WithinLimit
      <4> QED BY <3>2, <4>2 DEF CommandIsRamped
    <3> QED BY <3>5, <3>6, <3>7, <3>8 DEF StandupInv
  <2> QED BY <2>3, <2>4
<1> QED BY <1>0, <1>1, <1>2, <1>3 DEF StandupSession

-----------------------------------------------------------------------------
(* Types, with the bounds they need: the vertex counts add up to what the  *)
(* target allows, and the body turns at most once an update.               *)

SwingKinds ==
    /\ mode \in {"idle", "pump", "probe", "rearm", "complete", "aborted"}
    /\ pump \in {-1, 1}
    /\ pending \in [sign : Signs, age : 0..TurnConfirm]
    /\ sinceTurn \in 0..MinHalfCycle
    /\ command \in [drive : {"none", "pump", "probe"}, level : -2..2]

SwingBounds ==
    /\ probe.age <= ProbeTime /\ probe.run < MaxTime
    /\ rearmStart <= halfCycles /\ halfCycles <= probe.run
    /\ Captures <= Targets /\ (Active => Captures < Targets)

SwingTypes == SwingKinds /\ SwingBounds

StandupTypes ==
    /\ standing \in BOOLEAN /\ filtered \in Sign /\ swingSign \in {-1, 1}
    /\ phase \in {"idle", "swing_low", "swing_high", "balance"}

LEMMA CapturesFacts ==
    ASSUME counts \in [Vertices -> Nat]
    PROVE  /\ Captures \in Nat
           /\ (\A v \in Vertices : counts[v] = 0) => Captures = 0
           /\ \A v \in Vertices : counts[v] <= Captures
           /\ \A v \in Vertices : Sum([counts EXCEPT ![v] = @ + 1]) = Captures + 1
<1>1. IsFiniteSet(Vertices) BY SwingAssumption
<1> QED BY <1>1, SumFacts, SumOfBump, Zenon DEF Captures

LEMMA ClockFacts ==
    ASSUME NEW dt \in SwingSteps, SwingKinds
    PROVE  /\ KeptPending(dt) \in [sign : Signs, age : 0..TurnConfirm]
           /\ AtMost(MinHalfCycle, sinceTurn + dt) \in 0..MinHalfCycle
<1>1. dt \in Nat /\ TurnConfirm \in Nat /\ MinHalfCycle \in Nat BY SwingAssumption
<1>2. pending.age \in Nat /\ sinceTurn \in Nat BY <1>1 DEF SwingKinds
<1>3. AtMost(TurnConfirm, pending.age + dt) \in 0..TurnConfirm BY <1>1, <1>2 DEF AtMost
<1>4. AtMost(MinHalfCycle, sinceTurn + dt) \in 0..MinHalfCycle BY <1>1, <1>2 DEF AtMost
<1>5. KeptPending(dt) = [pending EXCEPT !.age = AtMost(TurnConfirm, pending.age + dt)]
  BY DEF KeptPending
<1>6. KeptPending(dt) \in [sign : Signs, age : 0..TurnConfirm]
  BY <1>3, <1>5 DEF SwingKinds
<1> QED BY <1>4, <1>6

LEMMA PumpKinds ==
    ASSUME NEW dt \in SwingSteps, NEW in \in Inputs, SwingKinds, UpdatePumpHalfCycle(dt, in)
    PROVE  /\ pump' \in {-1, 1}
           /\ pending' \in [sign : Signs, age : 0..TurnConfirm]
           /\ sinceTurn' \in 0..MinHalfCycle
           /\ halfCycles' \in {halfCycles, halfCycles + 1}
<1>1. 0 \in 0..TurnConfirm /\ 0 \in 0..MinHalfCycle BY SwingAssumption
<1>2. in.rate \in Signs BY DEF Inputs
<1>3. pump' \in {-1, 1} BY <1>2 DEF UpdatePumpHalfCycle, Confirmed, Opposes, Signs, SwingKinds
<1>4. pending' \in {NotPending, [sign |-> in.rate, age |-> 0], KeptPending(dt)}
  BY DEF UpdatePumpHalfCycle
<1>5. NotPending \in [sign : Signs, age : 0..TurnConfirm]
  BY <1>1 DEF NotPending, Signs
<1>6. [sign |-> in.rate, age |-> 0] \in [sign : Signs, age : 0..TurnConfirm]
  BY <1>1, <1>2
<1>7. pending' \in [sign : Signs, age : 0..TurnConfirm]
  BY <1>4, <1>5, <1>6, ClockFacts
<1>8. sinceTurn' \in {0, AtMost(MinHalfCycle, sinceTurn + dt)} BY DEF UpdatePumpHalfCycle
<1>9. sinceTurn' \in 0..MinHalfCycle BY <1>1, <1>8, ClockFacts
<1>10. halfCycles' \in {halfCycles, halfCycles + 1} BY DEF UpdatePumpHalfCycle
<1> QED BY <1>3, <1>7, <1>9, <1>10

LEMMA PumpingKind ==
    ASSUME NEW sign \in {-1, 1}, NEW band
    PROVE  Pumping(sign, band) \in [drive : {"none", "pump", "probe"}, level : -2..2]
  BY DEF Pumping

LEMMA ProbingKind ==
    ASSUME NEW n \in Nat
    PROVE  Probing(ScheduledProbe(n)) \in [drive : {"none", "pump", "probe"}, level : -2..2]
<1>1. ScheduledProbe(n) \in -2..2 BY DEF ScheduledProbe
<1> QED BY <1>1 DEF Probing

LEMMA OlderBounds ==
    ASSUME NEW dt \in SwingSteps, SwingTyped, InTime(dt)
    PROVE  /\ Older(dt).age <= ProbeTime
           /\ Older(dt).run = probe.run + dt
           /\ probe.run + dt < MaxTime /\ probe.run + 1 <= probe.run + dt
           /\ probe.run + dt \in Nat /\ probe.run \in Nat
<1>1. dt \in Nat \ {0} /\ ProbeTime \in Nat /\ MaxTime \in Nat BY SwingAssumption
<1>2. probe.run \in Nat /\ probe.age \in Nat BY DEF SwingTyped
<1>3. probe.run + dt < MaxTime BY DEF InTime
<1>4. AtMost(ProbeTime, probe.age + dt) <= ProbeTime BY <1>1, <1>2 DEF AtMost
<1>5. Older(dt).age = AtMost(ProbeTime, probe.age + dt) /\ Older(dt).run = probe.run + dt
  BY DEF Older, SwingTyped
<1> QED BY <1>1, <1>2, <1>3, <1>4, <1>5

LEMMA SwingInitTypes == SwingInit => SwingTypes
<1> SUFFICES ASSUME SwingInit PROVE SwingTypes OBVIOUS
<1>1. /\ ProbeTime \in Nat /\ MaxTime \in Nat \ {0} /\ TurnConfirm \in Nat /\ MinHalfCycle \in Nat
      /\ Targets \in Nat \ {0}
  BY SwingAssumption
<1>2. SwingKinds BY <1>1 DEF SwingInit, SwingKinds, NotPending, Zero, Signs
<1>3. counts \in [Vertices -> Nat] /\ \A v \in Vertices : counts[v] = 0 BY DEF SwingInit
<1>4. Captures = 0 BY <1>3, CapturesFacts
<1>5. SwingBounds BY <1>1, <1>4 DEF SwingInit, SwingBounds, Active
<1> QED BY <1>2, <1>5 DEF SwingTypes

LEMMA SwingStepTypes ==
    ASSUME SwingInv, SwingInv', SwingTypes, SwingSession PROVE SwingTypes'
<1>a. SwingTyped /\ SwingTyped' /\ ProbeIsDue BY DEF SwingInv
<1>b. SwingKinds /\ SwingBounds BY DEF SwingTypes
<1>c. /\ ProbeTime \in Nat /\ MaxTime \in Nat \ {0} /\ TurnConfirm \in Nat /\ MinHalfCycle \in Nat
      /\ Targets \in Nat \ {0}
  BY SwingAssumption
<1>d. /\ counts \in [Vertices -> Nat] /\ counts' \in [Vertices -> Nat]
      /\ halfCycles \in Nat /\ halfCycles' \in Nat /\ rearmStart \in Nat
      /\ probe \in [vertex : Vertices \cup {NoVertex}, age : Nat, run : Nat]
  BY <1>a DEF SwingTyped
<1>e. ASSUME counts' = counts PROVE Captures' = Captures BY <1>e DEF Captures
<1>f. Captures \in Nat BY <1>d, CapturesFacts
<1>g. pump \in {-1, 1} BY <1>b DEF SwingKinds
<1>1. CASE AbortSwing
  <2>1. SwingKinds'
    BY <1>b, <1>1 DEF AbortSwing, StopSwing, SwingKinds, Zero
  <2>2. probe'.age = probe.age /\ probe'.run = probe.run
    BY <1>d, <1>1 DEF AbortSwing, StopSwing
  <2>3. SwingBounds'
    BY <1>b, <1>e, <1>1, <2>2 DEF AbortSwing, StopSwing, SwingBounds, Active
  <2> QED BY <2>1, <2>3 DEF SwingTypes
<1>2. CASE \E in \in Inputs : StartSwing(in)
  <2> PICK in \in Inputs : StartSwing(in) BY <1>2
  <2>1. in.rate \in Signs BY DEF Inputs
  <2>2. pump' \in {-1, 1} BY <2>1 DEF StartSwing, Signs
  <2>3. command' \in [drive : {"none", "pump", "probe"}, level : -2..2]
    BY <2>2, PumpingKind DEF StartSwing
  <2>4. SwingKinds' BY <1>c, <2>2, <2>3 DEF StartSwing, SwingKinds, NotPending, Signs
  <2>5. \A v \in Vertices : counts'[v] = 0 BY DEF StartSwing
  <2>6. Captures' = 0
    <3>1. IsFiniteSet(Vertices) BY SwingAssumption
    <3>2. Sum(counts') = 0 BY <1>d, <2>5, <3>1, SumFacts
    <3> QED BY <3>2 DEF Captures
  <2>7. SwingBounds' BY <1>c, <2>6 DEF StartSwing, SwingBounds
  <2> QED BY <2>4, <2>7 DEF SwingTypes
<1>3. ASSUME NEW dt \in SwingSteps, NEW in \in Inputs, PumpOn(dt, in) PROVE SwingTypes'
  <2>1. mode = "pump" /\ InTime(dt) /\ UpdatePumpHalfCycle(dt, in) BY <1>3 DEF PumpOn
  <2>2. in.vertex \in Vertices BY DEF Inputs
  <2>3. Probing(ScheduledProbe(counts[in.vertex])) \in [drive : {"none", "pump", "probe"}, level : -2..2]
    BY <1>d, <2>2, ProbingKind
  <2>4. Pumping(pump', in.band) \in [drive : {"none", "pump", "probe"}, level : -2..2]
    BY <1>b, <2>1, PumpKinds, PumpingKind
  <2>5. /\ mode' \in {"pump", "probe"}
        /\ command' \in [drive : {"none", "pump", "probe"}, level : -2..2]
    BY <1>3, <2>1, <2>3, <2>4 DEF PumpOn
  <2>6. SwingKinds' BY <1>b, <2>1, <2>5, PumpKinds DEF SwingKinds
  <2>7. probe'.age <= ProbeTime /\ probe'.run = probe.run + dt
    BY <1>3, <1>a, <1>c, <2>1, OlderBounds DEF PumpOn
  <2>8. counts' = counts /\ rearmStart' = rearmStart BY <1>3 DEF PumpOn
  <2>9. halfCycles' \in {halfCycles, halfCycles + 1} BY <1>b, <2>1, PumpKinds
  <2>10. rearmStart' <= halfCycles' /\ halfCycles' <= probe'.run /\ probe'.run < MaxTime
    BY <1>a, <1>b, <1>d, <2>1, <2>7, <2>8, <2>9, OlderBounds DEF SwingBounds
  <2>11. Captures' < Targets BY <1>b, <1>e, <2>1, <2>8 DEF SwingBounds, Active
  <2>12. Captures' <= Targets BY <1>c, <1>e, <1>f, <2>8, <2>11
  <2>13. SwingBounds' BY <2>7, <2>10, <2>11, <2>12 DEF SwingBounds
  <2> QED BY <2>6, <2>13 DEF SwingTypes
<1>4. ASSUME NEW dt \in SwingSteps, NEW in \in Inputs, HoldProbe(dt, in) PROVE SwingTypes'
  <2>1. InTime(dt) /\ probe' = Older(dt) /\ counts' = counts /\ rearmStart' = rearmStart
        /\ halfCycles' = halfCycles /\ mode' = mode
    BY <1>4 DEF HoldProbe
  <2>2. SwingKinds' BY <1>4, <1>b, ClockFacts DEF HoldProbe, SwingKinds
  <2>3. SwingBounds'
    <3>1. probe'.age <= ProbeTime /\ probe'.run < MaxTime /\ probe.run <= probe'.run
          /\ probe'.run \in Nat /\ probe.run \in Nat
      BY <1>a, <2>1, OlderBounds
    <3>2. halfCycles' <= probe'.run BY <1>b, <1>d, <2>1, <3>1 DEF SwingBounds
    <3> QED BY <1>b, <1>e, <2>1, <3>1, <3>2 DEF SwingBounds, Active
  <2> QED BY <2>2, <2>3 DEF SwingTypes
<1>5. ASSUME NEW dt \in SwingSteps, NEW in \in Inputs, FinishProbe(dt, in) PROVE SwingTypes'
  <2>1. mode = "probe" /\ InTime(dt) /\ halfCycles' = halfCycles /\ pump' = pump
    BY <1>5 DEF FinishProbe
  <2>2. counts' = [counts EXCEPT ![probe.vertex] = @ + 1] BY <1>5 DEF FinishProbe, CountedVertex
  <2>3. probe.vertex \in Vertices BY <1>a, <2>1 DEF ProbeIsDue
  <2>4. Captures' = Captures + 1
    <3>1. Sum([counts EXCEPT ![probe.vertex] = @ + 1]) = Captures + 1
      BY <1>d, <2>3, CapturesFacts
    <3> QED BY <2>2, <3>1 DEF Captures
  <2>5. Captures < Targets BY <1>b, <2>1 DEF SwingBounds, Active
  <2>6. CASE TargetReached
    <3>1. StopSwing("complete") /\ rearmStart' = rearmStart /\ pending' = pending
          /\ sinceTurn' = sinceTurn
      BY <1>5, <2>6 DEF FinishProbe
    <3>2. SwingKinds' BY <1>b, <2>1, <3>1 DEF StopSwing, SwingKinds, Zero
    <3>3. probe'.age = probe.age /\ probe'.run = probe.run BY <1>d, <3>1 DEF StopSwing
    <3>4. Captures' <= Targets BY <1>c, <1>f, <2>4, <2>5
    <3>5. ~Active' BY <3>1 DEF StopSwing, Active
    <3>6. SwingBounds' BY <1>b, <2>1, <3>1, <3>3, <3>4, <3>5 DEF SwingBounds
    <3> QED BY <3>2, <3>6 DEF SwingTypes
  <2>7. CASE ~TargetReached
    <3>1. mode' = "rearm" /\ rearmStart' = halfCycles /\ command' = Pumping(pump, "far")
          /\ probe' = Older(dt) /\ pending' = KeptPending(dt)
          /\ sinceTurn' = AtMost(MinHalfCycle, sinceTurn + dt)
      BY <1>5, <2>7 DEF FinishProbe, RearmStartAtProbeEnd
    <3>2. command' \in [drive : {"none", "pump", "probe"}, level : -2..2]
      BY <1>g, <3>1, PumpingKind
    <3>3. SwingKinds' BY <1>b, <2>1, <3>1, <3>2, ClockFacts DEF SwingKinds
    <3>4. probe'.age <= ProbeTime /\ probe'.run < MaxTime /\ probe.run <= probe'.run
          /\ probe'.run \in Nat /\ probe.run \in Nat
      BY <1>a, <2>1, <3>1, OlderBounds
    <3>5. Captures' < Targets BY <1>c, <1>f, <2>4, <2>7 DEF TargetReached
    <3>6. Captures' <= Targets BY <1>c, <1>f, <2>4, <3>5
    <3>7. rearmStart' <= halfCycles' /\ halfCycles' <= probe'.run
      BY <1>b, <1>d, <2>1, <3>1, <3>4 DEF SwingBounds
    <3>8. SwingBounds' BY <3>4, <3>5, <3>6, <3>7 DEF SwingBounds
    <3> QED BY <3>3, <3>8 DEF SwingTypes
  <2> QED BY <2>6, <2>7
<1>6. ASSUME NEW dt \in SwingSteps, NEW in \in Inputs, Rearm(dt, in) PROVE SwingTypes'
  <2>1. mode = "rearm" /\ InTime(dt) /\ UpdatePumpHalfCycle(dt, in) BY <1>6 DEF Rearm
  <2>2. \A band : Pumping(pump', band) \in [drive : {"none", "pump", "probe"}, level : -2..2]
    BY <1>b, <2>1, PumpKinds, PumpingKind
  <2>3. /\ mode' \in {"pump", "rearm"}
        /\ command' \in [drive : {"none", "pump", "probe"}, level : -2..2]
    BY <1>6, <2>1, <2>2 DEF Rearm
  <2>4. SwingKinds' BY <1>b, <2>1, <2>3, PumpKinds DEF SwingKinds
  <2>5. probe'.age <= ProbeTime /\ probe'.run = probe.run + dt
    <3>1. Older(dt) \in [vertex : Vertices \cup {NoVertex}, age : Nat, run : Nat]
      BY <1>a, OlderFacts
    <3>2. probe' = Older(dt) \/ probe' = [Older(dt) EXCEPT !.vertex = NoVertex]
      BY <1>6 DEF Rearm
    <3>3. probe'.age = Older(dt).age /\ probe'.run = Older(dt).run BY <3>1, <3>2
    <3> QED BY <1>a, <2>1, <3>3, OlderBounds
  <2>6. counts' = counts /\ rearmStart' = rearmStart BY <1>6 DEF Rearm
  <2>7. halfCycles' \in {halfCycles, halfCycles + 1} BY <1>b, <2>1, PumpKinds
  <2>8. rearmStart' <= halfCycles' /\ halfCycles' <= probe'.run /\ probe'.run < MaxTime
    BY <1>a, <1>b, <1>d, <2>1, <2>5, <2>6, <2>7, OlderBounds DEF SwingBounds
  <2>9. Captures' < Targets BY <1>b, <1>e, <2>1, <2>6 DEF SwingBounds, Active
  <2>10. Captures' <= Targets BY <1>c, <1>e, <1>f, <2>6, <2>9
  <2>11. SwingBounds' BY <2>5, <2>8, <2>9, <2>10 DEF SwingBounds
  <2> QED BY <2>4, <2>11 DEF SwingTypes
<1>7. ASSUME NEW dt \in SwingSteps, Timeout(dt) PROVE SwingTypes'
  BY <1>1, <1>7 DEF Timeout
<1> QED BY <1>1, <1>2, <1>3, <1>4, <1>5, <1>6, <1>7 DEF SwingSession, SwingUpdate

LEMMA SwingTypesImplyTypeOK ==
    ASSUME SwingInv, SwingTypes PROVE SwingTypeOK
<1>1. /\ counts \in [Vertices -> Nat] /\ probed \in [Vertices -> [Signs -> Nat]]
      /\ probe \in [vertex : Vertices \cup {NoVertex}, age : Nat, run : Nat]
      /\ recovered \in Recoveries
      /\ halfCycles \in Nat /\ rearmStart \in Nat
  BY DEF SwingInv, SwingTyped
<1>2. Targets \in Nat /\ MaxTime \in Nat /\ ProbeTime \in Nat BY SwingAssumption
<1>3. ASSUME NEW v \in Vertices PROVE counts[v] \in 0..Targets
  <2>1. counts[v] <= Captures /\ Captures \in Nat /\ counts[v] \in Nat BY <1>1, CapturesFacts
  <2>2. Captures <= Targets BY DEF SwingTypes, SwingBounds
  <2> QED BY <1>2, <2>1, <2>2
<1>4. ASSUME NEW v \in Vertices, NEW e \in Signs PROVE probed[v][e] \in 0..Targets
  <2>1. Booked(v) BY DEF SwingInv
  <2>2. counts[v] \in Nat /\ counts[v] <= Targets BY <1>3, <1>2
  <2>3. probed[v][e] <= counts[v]
    <3>1. \A n \in Nat : (n + 2) \div 3 <= n /\ (n + 1) \div 3 <= n /\ n \div 3 <= n OBVIOUS
    <3> QED BY <2>1, <2>2, <3>1 DEF Booked, Signs
  <2>4. probed[v][e] \in Nat BY <1>1
  <2> QED BY <1>2, <2>2, <2>3, <2>4
<1>5. counts \in [Vertices -> 0..Targets] BY <1>1, <1>3
<1>6. probed \in [Vertices -> [Signs -> 0..Targets]] BY <1>1, <1>4
<1>7. probe.age \in 0..ProbeTime /\ probe.run \in 0..MaxTime - 1
  BY <1>1, <1>2 DEF SwingTypes, SwingBounds
<1>8. probe \in [vertex : Vertices \cup {NoVertex}, age : 0..ProbeTime, run : 0..MaxTime - 1]
  BY <1>1, <1>7
<1>9. halfCycles \in 0..MaxTime /\ rearmStart \in 0..halfCycles
  BY <1>1, <1>2, <1>7 DEF SwingTypes, SwingBounds
<1> QED BY <1>1, <1>5, <1>6, <1>8, <1>9
  DEF SwingTypeOK, SwingTypes, SwingKinds, SwingBounds, Recoveries

LEMMA StandupStepTypes ==
    ASSUME StandupTypes, StandupSession PROVE StandupTypes'
<1>1. ASSUME NEW in \in ValidInputs, NEW dt \in StandupSteps, SwingUp(in, swingSign),
             standing' = standing
      PROVE  StandupTypes'
  <2>1. in.rate \in -2..2 BY InputFacts
  <2>2. swingSign' \in {-1, 1} BY <1>1, <2>1 DEF SwingUp, SignOf, StandupTypes
  <2>3. phase' \in {"swing_low", "swing_high"} /\ filtered' = 0 BY <1>1 DEF SwingUp
  <2> QED BY <1>1, <2>2, <2>3 DEF StandupTypes, Sign
<1>2. ASSUME NEW in \in ValidInputs, NEW dt \in StandupSteps, Balance(in, dt),
             standing' = standing
      PROVE  StandupTypes'
  <2>1. PICK rate \in FilteredRates(in.rate) :
          filtered' = rate /\ phase' = "balance" /\ swingSign' = swingSign
    BY <1>2 DEF Balance
  <2>2. \A x : SignOf(x) \in Sign BY DEF SignOf, Sign
  <2>3. rate \in Sign BY <2>2 DEF FilteredRates
  <2> QED BY <1>2, <2>1, <2>3 DEF StandupTypes
<1>3. ASSUME NEW in \in ValidInputs, StartStandup(in) PROVE StandupTypes'
  <2>1. SignOf(in.rate) \in Sign BY DEF SignOf, Sign
  <2> QED BY <1>3, <2>1 DEF StartStandup, StandupTypes, Sign
<1>4. CASE StopStandup \/ VoidUpdate BY <1>4 DEF StopStandup, VoidUpdate, StandupTypes
<1>5. CASE StandupUpdate BY <1>1, <1>2, <1>5 DEF StandupUpdate, Update
<1> QED BY <1>3, <1>4, <1>5 DEF StandupSession

-----------------------------------------------------------------------------
(* Both controllers, whichever of them a behaviour follows.                *)

SessionInv == SwingInv /\ StandupInv

LEMMA SwingKept == SwingInv /\ UNCHANGED swingVars => SwingInv'
  BY DEF swingVars, SwingInv, SwingTyped, ProbeIsDue, RecoveryKept, Booked

LEMMA StandupKept == StandupInv /\ UNCHANGED standupVars => StandupInv'
  BY DEF standupVars, StandupInv, StandupTyped, HoldKept, StatusIsEarned, StableIsEarned,
     SettlingIsEarned, CommandIsRamped

\* The invariant the theorems below rest on.
THEOREM SessionInvariant == Spec => []SessionInv
<1>1. Init => SessionInv BY SwingInitInv, StandupInitInv DEF Init, SessionInv
<1>2. SessionInv /\ [Next]_vars => SessionInv'
  <2> SUFFICES ASSUME SwingInv, StandupInv, [Next]_vars PROVE SwingInv' /\ StandupInv'
    BY DEF SessionInv
  <2>1. CASE SwingSession /\ UNCHANGED standupVars BY <2>1, SwingStepInv, StandupKept
  <2>2. CASE StandupSession /\ UNCHANGED swingVars BY <2>2, StandupStepInv, SwingKept
  <2>3. CASE UNCHANGED vars BY <2>3, SwingKept, StandupKept DEF vars
  <2> QED BY <2>1, <2>2, <2>3 DEF Next
<1> QED BY <1>1, <1>2, PTL DEF Spec

\* Type correctness of both controllers: no run counts more captures than its
\* target, whichever vertices they come from (swing_id.cpp:340-352).
THEOREM SessionTypeOK == Spec => []TypeOK
<1> DEFINE TInv == SwingTypes /\ StandupTypes
<1>1. Init => TInv
  BY SwingInitTypes DEF Init, StandupInit, StandupTypes, Sign
<1>2. SessionInv /\ SessionInv' /\ TInv /\ [Next]_vars => TInv'
  <2> SUFFICES ASSUME SwingInv, SwingInv', SwingTypes, StandupTypes, [Next]_vars
               PROVE  SwingTypes' /\ StandupTypes'
    BY DEF SessionInv
  <2>1. ASSUME UNCHANGED swingVars PROVE SwingTypes'
    BY <2>1 DEF swingVars, SwingTypes, SwingKinds, SwingBounds, Active, Captures
  <2>2. ASSUME UNCHANGED standupVars PROVE StandupTypes' BY <2>2 DEF standupVars, StandupTypes
  <2>3. CASE SwingSession /\ UNCHANGED standupVars BY <2>2, <2>3, SwingStepTypes
  <2>4. CASE StandupSession /\ UNCHANGED swingVars BY <2>1, <2>4, StandupStepTypes
  <2>5. CASE UNCHANGED vars BY <2>1, <2>2, <2>5 DEF vars
  <2> QED BY <2>3, <2>4, <2>5 DEF Next
<1>3. SessionInv /\ TInv => TypeOK
  <2> SUFFICES ASSUME SessionInv, TInv PROVE TypeOK OBVIOUS
  <2>1. SwingTypeOK BY SwingTypesImplyTypeOK DEF SessionInv
  <2>2. StandupTypeOK
    BY DEF SessionInv, StandupInv, StandupTyped, StandupTypes, HoldKept, StandupTypeOK
  <2> QED BY <2>1, <2>2 DEF TypeOK
<1> QED
  <2> HIDE DEF TInv
  <2> QED BY <1>1, <1>2, <1>3, SessionInvariant, PTL DEF Spec

\* Swing identification probes every vertex with negative, positive and zero
\* excitation equally often, to within the round it is at (swing_id.cpp:313-318).
THEOREM SessionSchedule == Spec => []ScheduleIsBalanced
<1>1. SessionInv => ScheduleIsBalanced BY BookedIsBalanced DEF SessionInv
<1> QED BY <1>1, SessionInvariant, PTL

\* No probe starts before the body has turned and has been away from the last
\* probe's vertex, which the history keeps when the runner forgets it
\* (swing_id.cpp:359-376).
THEOREM SessionProbesSeparated == Spec => ProbesAreSeparated
<1>1. SessionInv /\ [Next]_vars =>
        [mode # "probe" /\ mode' = "probe" => recovered'.turned /\ recovered'.left]_swingVars
  <2> SUFFICES ASSUME SessionInv, [Next]_vars, mode # "probe", mode' = "probe"
               PROVE  (recovered'.turned /\ recovered'.left) \/ UNCHANGED swingVars
    OBVIOUS
  <2>1. CASE SwingSession BY <2>1, ProbeStartsRecovered DEF SessionInv
  <2>2. CASE UNCHANGED swingVars BY <2>2
  <2>3. CASE UNCHANGED vars BY <2>3 DEF vars
  <2> QED BY <2>1, <2>2, <2>3 DEF Next
<1> QED BY <1>1, SessionInvariant, PTL DEF Spec, ProbesAreSeparated

\* Whatever the updates between, a standup session reports stable and settling
\* only on what its current hold has seen (standup_controller.cpp:170-227).
THEOREM SessionStatusIsEarned == Spec => []StatusIsEarned
<1>1. SessionInv => StatusIsEarned BY DEF SessionInv, StandupInv
<1> QED BY <1>1, SessionInvariant, PTL

\* For any ramp and limit, the command of a hold stays within what the ramp
\* allows in the time the hold has lasted (standup_controller.cpp:285-291).
THEOREM SessionCommandIsRamped == Spec => []CommandIsRamped
<1>1. SessionInv => CommandIsRamped BY DEF SessionInv, StandupInv
<1> QED BY <1>1, SessionInvariant, PTL
=============================================================================
