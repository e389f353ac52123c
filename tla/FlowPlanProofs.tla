--------------------------- MODULE FlowPlanProofs ---------------------------
(***************************************************************************)
(* For flows of any number of steps: what buildWaves computes.  Kahn's     *)
(* rounds are a recursive function; induction over its argument is done by *)
(* a set of naturals that holds 0 and the successors of its elements.      *)
(***************************************************************************)
EXTENDS FlowPlan, FiniteSetTheorems, TLAPS

\* A set of naturals that holds 0, and with every element its successor, holds
\* them all: otherwise "plus one" would map its elements below a missing number
\* one to one to themselves and yet reach all of them but 0.
LEMMA SetInduction ==
    ASSUME NEW S \in SUBSET Nat, 0 \in S, \A n \in S : n + 1 \in S
    PROVE  S = Nat
<1> SUFFICES ASSUME NEW m \in Nat, m \notin S PROVE FALSE
  OBVIOUS
<1> DEFINE T == {n \in S : n <= m}
           next == [n \in T |-> n + 1]
<1>1. IsFiniteSet(T)
  BY FS_BoundedSetOfNaturals
<1>2. next \in Injection(T, T)
  <2>1. \A n \in T : n + 1 \in T
    <3> SUFFICES ASSUME NEW n \in T PROVE n + 1 \in T
      OBVIOUS
    <3>1. n \in Nat /\ n <= m /\ n # m
      OBVIOUS
    <3> QED
      BY <3>1
  <2>2. \A n, k \in T : n + 1 = k + 1 => n = k
    OBVIOUS
  <2> QED
    BY <2>1, <2>2 DEF Injection, IsInjective
<1>3. next \in Surjection(T, T)
  BY <1>1, <1>2, FS_Injection
<1>4. 0 \in T
  OBVIOUS
<1>5. PICK n \in T : next[n] = 0
  BY <1>3, <1>4 DEF Surjection
<1> QED
  BY <1>5

\* A set of naturals with an element has a least one.
LEMMA LeastElement ==
    ASSUME NEW S \in SUBSET Nat, S # {}
    PROVE  \E x \in S : \A y \in S : x =< y
<1> SUFFICES ASSUME \A x \in S : \E y \in S : y < x PROVE FALSE
  OBVIOUS
<1> DEFINE Below == {n \in Nat : \A y \in S : n =< y}
<1>1. 0 \in Below
  OBVIOUS
<1>2. \A n \in Below : n + 1 \in Below
  <2> SUFFICES ASSUME NEW n \in Below, NEW y \in S PROVE n + 1 =< y
    OBVIOUS
  <2>1. n =< y /\ n \in Nat /\ y \in Nat
    OBVIOUS
  <2>2. n # y
    OBVIOUS
  <2> QED
    BY <2>1, <2>2
<1>3. Below = Nat
  <2> HIDE DEF Below
  <2>1. Below \in SUBSET Nat
    BY DEF Below
  <2> QED
    BY <1>1, <1>2, <2>1, SetInduction
<1>4. PICK x \in S : TRUE
  OBVIOUS
<1>5. x + 1 \in Below
  BY <1>3
<1> QED
  BY <1>5

-----------------------------------------------------------------------------
\* What one round of buildWaves adds to the steps done.
Round(n, dependsOn, done) == done \cup {i \in 0 .. n - 1 : dependsOn[i] \subseteq done}

\* Functions on 0 .. k that start empty and follow the rounds.
Follows(n, dependsOn, k, done) ==
    /\ done = [j \in 0 .. k |-> done[j]]
    /\ done[0] = {}
    /\ \A j \in 1 .. k : done[j] = Round(n, dependsOn, done[j - 1])

LEMMA RoundsExist ==
    ASSUME NEW n \in Nat, NEW dependsOn
    PROVE  \A k \in Nat : \E done : Follows(n, dependsOn, k, done)
<1> DEFINE S == {k \in Nat : \E done : Follows(n, dependsOn, k, done)}
<1>1. 0 \in S
  <2> DEFINE done == [j \in 0 .. 0 |-> {}]
  <2>1. Follows(n, dependsOn, 0, done)
    BY DEF Follows
  <2> QED
    BY <2>1
<1>2. \A k \in S : k + 1 \in S
  <2> SUFFICES ASSUME NEW k \in S PROVE k + 1 \in S
    OBVIOUS
  <2>1. PICK done : Follows(n, dependsOn, k, done)
    OBVIOUS
  <2> DEFINE more == [j \in 0 .. k + 1 |-> IF j = k + 1 THEN Round(n, dependsOn, done[k]) ELSE done[j]]
  <2>2. /\ \A j \in 0 .. k : more[j] = done[j]
        /\ more[k + 1] = Round(n, dependsOn, done[k])
        /\ more = [j \in 0 .. k + 1 |-> more[j]]
    OBVIOUS
  <2>3. more[0] = {}
    BY <2>1, <2>2 DEF Follows
  <2>4. ASSUME NEW j \in 1 .. k + 1 PROVE more[j] = Round(n, dependsOn, more[j - 1])
    <3>1. CASE j = k + 1
      <4>1. more[j - 1] = done[k]
        BY <3>1, <2>2
      <4> QED
        BY <4>1, <3>1, <2>2
    <3>2. CASE j # k + 1
      <4>1. j \in 1 .. k /\ j - 1 \in 0 .. k /\ j \in 0 .. k
        BY <3>2
      <4> HIDE DEF more
      <4> QED
        BY <4>1, <2>1, <2>2 DEF Follows
    <3> QED
      BY <3>1, <3>2
  <2>5. Follows(n, dependsOn, k + 1, more)
    <3> HIDE DEF more
    <3> QED
      BY <2>2, <2>3, <2>4 DEF Follows
  <2> QED
    BY <2>5
<1>3. S = Nat
  <2> HIDE DEF S
  <2>1. S \in SUBSET Nat
    BY DEF S
  <2> QED
    BY <1>1, <1>2, <2>1, SetInduction
<1> QED
  BY <1>3

\* The recursive function of buildWaves: nothing is done at first, and every
\* round adds the steps whose upstreams are all done.
LEMMA DoneAfterRounds ==
    ASSUME NEW n \in Nat, NEW dependsOn
    PROVE  Follows(n, dependsOn, n, DoneAfter(n, dependsOn))
<1> DEFINE IsDone(f) == f = [k \in 0 .. n |->
               IF k = 0 THEN {}
               ELSE f[k - 1] \cup {i \in 0 .. n - 1 : dependsOn[i] \subseteq f[k - 1]}]
<1>1. DoneAfter(n, dependsOn) = CHOOSE f : IsDone(f)
  BY DEF DoneAfter
<1>2. PICK done : Follows(n, dependsOn, n, done)
  BY RoundsExist
<1>3. IsDone(done)
  <2>1. \A k \in 0 .. n : done[k] =
            IF k = 0 THEN {}
            ELSE done[k - 1] \cup {i \in 0 .. n - 1 : dependsOn[i] \subseteq done[k - 1]}
    <3> SUFFICES ASSUME NEW k \in 0 .. n
                 PROVE  done[k] = IF k = 0 THEN {} ELSE Round(n, dependsOn, done[k - 1])
      BY DEF Round
    <3>1. k # 0 => k \in 1 .. n
      OBVIOUS
    <3> QED
      BY <1>2, <3>1 DEF Follows
  <2> QED
    BY <2>1, <1>2 DEF Follows
<1> DEFINE d == DoneAfter(n, dependsOn)
<1>4. IsDone(d)
  <2> HIDE DEF IsDone
  <2>1. IsDone(CHOOSE f : IsDone(f))
    BY <1>3
  <2> QED
    BY ONLY <1>1, <2>1
<1> QED
  <2> HIDE DEF d
  <2>1. d[0] = {}
    BY <1>4
  <2>2. \A j \in 1 .. n : d[j] = Round(n, dependsOn, d[j - 1])
    <3> SUFFICES ASSUME NEW j \in 1 .. n PROVE d[j] = Round(n, dependsOn, d[j - 1])
      OBVIOUS
    <3>1. j \in 0 .. n /\ j # 0
      OBVIOUS
    <3>2. d[j] = IF j = 0 THEN {}
                 ELSE d[j - 1] \cup {i \in 0 .. n - 1 : dependsOn[i] \subseteq d[j - 1]}
      BY <1>4, <3>1
    <3> QED
      BY <3>1, <3>2 DEF Round
  <2>3. d = [j \in 0 .. n |-> d[j]]
    BY <1>4
  <2> QED
    BY <2>1, <2>2, <2>3 DEF Follows, d

-----------------------------------------------------------------------------
\* Rounds only add steps, and only steps of the flow.
LEMMA RoundsGrow ==
    ASSUME NEW n \in Nat, NEW dependsOn
    PROVE  LET done == DoneAfter(n, dependsOn)
           IN  \A j \in 0 .. n : /\ done[j] \subseteq 0 .. n - 1
                                /\ \A k \in j .. n : done[j] \subseteq done[k]
<1> DEFINE done == DoneAfter(n, dependsOn)
<1>1. /\ done[0] = {}
      /\ \A j \in 1 .. n : done[j] = Round(n, dependsOn, done[j - 1])
  BY DoneAfterRounds DEF Follows
<1> HIDE DEF done
<1> DEFINE Typed == {k \in Nat : k <= n => done[k] \subseteq 0 .. n - 1}
<1>2. Typed = Nat
  <2>1. 0 \in Typed
    BY <1>1
  <2>2. ASSUME NEW k \in Typed PROVE k + 1 \in Typed
    <3> SUFFICES ASSUME k + 1 <= n PROVE done[k + 1] \subseteq 0 .. n - 1
      OBVIOUS
    <3>1. done[k + 1] = Round(n, dependsOn, done[k])
      <4>1. k + 1 \in 1 .. n /\ (k + 1) - 1 = k
        OBVIOUS
      <4> QED
        BY <1>1, <4>1
    <3> QED
      BY <3>1 DEF Round
  <2>3. Typed \in SUBSET Nat
    OBVIOUS
  <2> HIDE DEF Typed
  <2> QED
    BY <2>1, <2>2, <2>3, SetInduction
<1>3. ASSUME NEW j \in 0 .. n, NEW k \in j .. n PROVE done[j] \subseteq done[k]
  <2> DEFINE Later == {m \in Nat : j + m <= n => done[j] \subseteq done[j + m]}
  <2>1. 0 \in Later
    OBVIOUS
  <2>2. ASSUME NEW m \in Later PROVE m + 1 \in Later
    <3> SUFFICES ASSUME j + (m + 1) <= n PROVE done[j] \subseteq done[j + (m + 1)]
      OBVIOUS
    <3>1. done[j + (m + 1)] = Round(n, dependsOn, done[j + m])
      <4>1. j + (m + 1) \in 1 .. n /\ (j + (m + 1)) - 1 = j + m
        OBVIOUS
      <4> QED
        BY <1>1, <4>1
    <3>2. done[j] \subseteq done[j + m]
      OBVIOUS
    <3> QED
      BY <3>1, <3>2 DEF Round
  <2>3. Later \in SUBSET Nat
    OBVIOUS
  <2>4. Later = Nat
    <3> HIDE DEF Later
    <3> QED
      BY <2>1, <2>2, <2>3, SetInduction
  <2>5. k - j \in Nat /\ j + (k - j) = k /\ k <= n
    OBVIOUS
  <2> QED
    BY <2>4, <2>5
<1>4. \A j \in 0 .. n : done[j] \subseteq 0 .. n - 1
  BY <1>2
<1> QED
  BY <1>3, <1>4 DEF done

\* A step done after round k came in one of the first k waves.
LEMMA DoneInAWave ==
    ASSUME NEW n \in Nat, NEW dependsOn, NEW k \in 0 .. n,
           NEW i \in DoneAfter(n, dependsOn)[k]
    PROVE  \E j \in 1 .. k : i \in Wave(n, dependsOn, j)
<1> DEFINE done == DoneAfter(n, dependsOn)
           InWave(m) == \A s \in done[m] : \E j \in 1 .. m : s \in Wave(n, dependsOn, j)
           S == {m \in Nat : m <= n => InWave(m)}
<1>1. 0 \in S
  BY DoneAfterRounds DEF Follows
<1>2. ASSUME NEW m \in S PROVE m + 1 \in S
  <2> SUFFICES ASSUME m + 1 <= n, NEW s \in done[m + 1]
               PROVE  \E j \in 1 .. m + 1 : s \in Wave(n, dependsOn, j)
    OBVIOUS
  <2> HIDE DEF done
  <2>1. CASE s \in done[m]
    <3>1. PICK j \in 1 .. m : s \in Wave(n, dependsOn, j)
      BY <2>1
    <3>2. j \in 1 .. m + 1
      OBVIOUS
    <3> QED
      BY <3>1, <3>2
  <2>2. CASE s \notin done[m]
    <3>1. s \in 0 .. n - 1
      <4>1. m + 1 \in 0 .. n
        OBVIOUS
      <4> QED
        BY <4>1, RoundsGrow DEF done
    <3>2. s \in Wave(n, dependsOn, m + 1)
      <4>1. (m + 1) - 1 = m
        OBVIOUS
      <4> QED
        BY <2>2, <3>1, <4>1 DEF Wave, done
    <3>3. m + 1 \in 1 .. m + 1
      OBVIOUS
    <3> QED
      BY <3>2, <3>3
  <2> QED
    BY <2>1, <2>2
<1>3. S = Nat
  <2>1. S \in SUBSET Nat
    OBVIOUS
  <2> HIDE DEF S
  <2> QED
    BY <1>1, <1>2, <2>1, SetInduction
<1>4. InWave(k)
  BY <1>3
<1> QED
  BY <1>4

\* Every upstream of a step is in an earlier wave than the step: when a wave
\* begins, all it needs was done by the waves before it.
THEOREM UpstreamsInEarlierWaves ==
    ASSUME NEW n \in Nat, NEW dependsOn, NEW k \in 1 .. n,
           NEW i \in Wave(n, dependsOn, k), NEW upstream \in dependsOn[i]
    PROVE  \E j \in 1 .. k - 1 : upstream \in Wave(n, dependsOn, j)
<1> DEFINE done == DoneAfter(n, dependsOn)
<1>1. i \in 0 .. n - 1 /\ i \in done[k] /\ i \notin done[k - 1]
  BY DEF Wave
<1>2. done[k] = Round(n, dependsOn, done[k - 1])
  BY DoneAfterRounds DEF Follows
<1>3. upstream \in done[k - 1]
  BY <1>1, <1>2 DEF Round
<1>4. k - 1 \in 0 .. n
  OBVIOUS
<1> QED
  BY <1>3, <1>4, DoneInAWave

\* No step is in two waves: none is executed twice in a run.
THEOREM WavesDisjoint ==
    ASSUME NEW n \in Nat, NEW dependsOn, NEW j \in Int, NEW k \in Int, 1 <= j, j < k
    PROVE  Wave(n, dependsOn, j) \cap Wave(n, dependsOn, k) = {}
<1> SUFFICES ASSUME NEW i \in Wave(n, dependsOn, j), i \in Wave(n, dependsOn, k) PROVE FALSE
  OBVIOUS
<1> DEFINE done == DoneAfter(n, dependsOn)
<1>1. k <= n /\ i \in done[j] /\ i \notin done[k - 1]
  BY DEF Wave
<1>2. j \in 0 .. n /\ k - 1 \in j .. n
  BY <1>1
<1>3. done[j] \subseteq done[k - 1]
  BY <1>2, RoundsGrow
<1> QED
  BY <1>1, <1>3

\* When a wave of an acyclic flow is empty, every step was in an earlier one:
\* the executor, which stops at the first empty wave, misses none.
THEOREM EmptyWaveMeansDone ==
    ASSUME NEW n \in Nat, NEW dependsOn, ~HasCycle(n, dependsOn),
           NEW k \in 1 .. n + 1, Wave(n, dependsOn, k) = {},
           NEW i \in 0 .. n - 1
    PROVE  \E j \in 1 .. k - 1 : i \in Wave(n, dependsOn, j)
<1> DEFINE done == DoneAfter(n, dependsOn)
<1>1. done[n] = 0 .. n - 1
  BY DEF HasCycle
<1>2. /\ \A j \in 1 .. n : done[j] = Round(n, dependsOn, done[j - 1])
      /\ \A j \in 0 .. n : done[j] \subseteq 0 .. n - 1
  BY DoneAfterRounds, RoundsGrow DEF Follows
<1>3. k <= n => done[k] = done[k - 1]
  <2> SUFFICES ASSUME k <= n PROVE done[k] = done[k - 1]
    OBVIOUS
  <2>1. done[k] \subseteq done[k - 1]
    BY <1>2 DEF Wave
  <2>2. done[k] = Round(n, dependsOn, done[k - 1])
    BY <1>2
  <2> HIDE DEF done
  <2> QED
    BY <2>1, <2>2 DEF Round
<1> HIDE DEF done
<1> DEFINE S == {m \in Nat : (k - 1) + m <= n => done[(k - 1) + m] = done[k - 1]}
<1>4. 0 \in S
  OBVIOUS
<1>5. ASSUME NEW m \in S PROVE m + 1 \in S
  <2> SUFFICES ASSUME (k - 1) + (m + 1) <= n PROVE done[(k - 1) + (m + 1)] = done[k - 1]
    OBVIOUS
  <2>1. done[(k - 1) + m] = done[k - 1]
    OBVIOUS
  <2>2. /\ (k - 1) + (m + 1) \in 1 .. n
        /\ ((k - 1) + (m + 1)) - 1 = (k - 1) + m
        /\ k \in 1 .. n
    OBVIOUS
  <2>3. done[(k - 1) + (m + 1)] = Round(n, dependsOn, done[k - 1])
    BY <1>2, <2>1, <2>2
  <2>4. done[k] = Round(n, dependsOn, done[k - 1])
    BY <1>2, <2>2
  <2> QED
    BY <1>3, <2>2, <2>3, <2>4
<1>6. S = Nat
  <2>1. S \in SUBSET Nat
    OBVIOUS
  <2> HIDE DEF S
  <2> QED
    BY <1>4, <1>5, <2>1, SetInduction
<1>7. n - (k - 1) \in S /\ (k - 1) + (n - (k - 1)) = n
  BY <1>6
<1>8. i \in done[k - 1] /\ k - 1 \in 0 .. n
  BY <1>1, <1>7
<1> QED
  BY <1>8, DoneInAWave DEF done
=============================================================================
