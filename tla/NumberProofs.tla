---------------------------- MODULE NumberProofs ----------------------------
(***************************************************************************)
(* Natural numbers: least elements, induction over a set of numbers, and   *)
(* the existence of functions that are defined by recursion.  The models'  *)
(* loops are such functions, and what they compute rests on these facts.   *)
(***************************************************************************)
EXTENDS Naturals, WellFoundedInduction, TLAPS

\* A set of numbers that is not empty has a least one.
LEMMA LeastNumber ==
  ASSUME NEW T, T \subseteq Nat, T # {}
  PROVE  \E x \in T : \A y \in T : x <= y
<1>0. PICK R : R = OpToRel(<, Nat) BY Zenon
<1>1. IsWellFoundedOn(R, Nat) BY <1>0, NatLessThanWellFounded, Zenon
<1>2. \A x, y \in Nat : <<y, x>> \in R <=> y < x BY <1>0 DEF OpToRel
<1>3. PICK x \in T : \A y \in T : ~(<<y, x>> \in R) BY <1>1, WFMin
<1>4. ASSUME NEW y \in T PROVE x <= y
  <2>1. x \in Nat /\ y \in Nat /\ ~(y < x) BY <1>2, <1>3
  <2> QED BY <2>1
<1> QED BY <1>4

\* Induction, for a set of numbers instead of a predicate.
LEMMA SetInduction ==
  ASSUME NEW T, 0 \in T, \A n \in Nat : n \in T => n + 1 \in T
  PROVE  \A n \in Nat : n \in T
<1> SUFFICES ASSUME NEW m \in Nat, m \notin T PROVE FALSE OBVIOUS
<1> DEFINE U == {n \in Nat : n \notin T}
<1>1. PICK x \in U : \A y \in U : x <= y BY LeastNumber
<1>2. x # 0 /\ x \in Nat BY <1>1
<1>3. x - 1 \in Nat /\ x - 1 \in T BY <1>1, <1>2
<1> QED BY <1>1, <1>3

\* g is the beginning, n steps long, of the sequence that starts with a and goes on
\* from its value v before step i to next[i][v].
IsRun(g, a, next, n) ==
  /\ DOMAIN g = 0..n /\ g[0] = a
  /\ \A i \in 1..n : g[i] = next[i][g[i - 1]]

\* Runs of every length exist, and the longer one goes on from the shorter.
LEMMA RunExists ==
  ASSUME NEW a, NEW next
  PROVE  \A n \in Nat : \E g : IsRun(g, a, next, n)
<1> DEFINE T == {n \in Nat : \E g : IsRun(g, a, next, n)}
<1>1. 0 \in T
  <2> DEFINE g == [i \in 0..0 |-> a]
  <2>1. IsRun(g, a, next, 0) BY DEF IsRun
  <2> QED BY <2>1
<1>2. ASSUME NEW n \in T PROVE n + 1 \in T
  <2>1. PICK g : IsRun(g, a, next, n) OBVIOUS
  <2> DEFINE h == [i \in 0..(n + 1) |-> IF i = n + 1 THEN next[i][g[n]] ELSE g[i]]
  <2>2. DOMAIN h = 0..(n + 1) /\ h[0] = a BY <2>1 DEF IsRun
  <2>3. ASSUME NEW i \in 1..(n + 1) PROVE h[i] = next[i][h[i - 1]]
    <3>1. CASE i = n + 1
      <4>1. i - 1 = n /\ n # n + 1 /\ n \in 0..(n + 1) BY <3>1
      <4> QED BY <3>1, <4>1
    <3>2. CASE i # n + 1
      <4>1. i \in 1..n /\ i - 1 # n + 1 /\ i \in 0..(n + 1) /\ i - 1 \in 0..(n + 1) BY <3>2
      <4>2. h[i] = g[i] /\ h[i - 1] = g[i - 1] BY <4>1, <3>2
      <4> QED BY <4>1, <4>2, <2>1 DEF IsRun
    <3> QED BY <3>1, <3>2
  <2> HIDE DEF h
  <2>4. IsRun(h, a, next, n + 1) BY <2>2, <2>3 DEF IsRun
  <2> QED BY <2>4
<1> HIDE DEF T
<1>3. \A n \in Nat : n \in T BY <1>1, <1>2, SetInduction
<1> QED BY <1>3 DEF T

LEMMA RunUnique ==
  ASSUME NEW a, NEW next, NEW m \in Nat, NEW n \in Nat, m <= n,
         NEW g, NEW h, IsRun(g, a, next, m), IsRun(h, a, next, n)
  PROVE  \A i \in 0..m : g[i] = h[i]
<1> DEFINE T == {i \in Nat : i <= m => g[i] = h[i]}
<1>1. 0 \in T BY DEF IsRun
<1>2. ASSUME NEW i \in T PROVE i + 1 \in T
  <2> SUFFICES ASSUME i + 1 <= m PROVE g[i + 1] = h[i + 1] OBVIOUS
  <2>1. i <= m /\ i + 1 \in 1..m /\ i + 1 \in 1..n /\ (i + 1) - 1 = i /\ g[i] = h[i] OBVIOUS
  <2>2. g[i + 1] = next[i + 1][g[(i + 1) - 1]] /\ h[i + 1] = next[i + 1][h[(i + 1) - 1]]
    BY <2>1 DEF IsRun
  <2> QED BY <2>1, <2>2
<1> HIDE DEF T
<1>3. \A i \in Nat : i \in T BY <1>1, <1>2, SetInduction
<1> QED BY <1>3 DEF T

\* f starts with a and goes on from its value v before n to next[n][v].
Follows(f, a, next) == f[0] = a /\ \A n \in Nat : f[n + 1] = next[n + 1][f[n]]

\* next has a step from each value in V to another one.
Steps(next, V) == next \in [Nat -> [V -> V]]

\* A function with a first value and a step from each value to the next one exists.
LEMMA RecursionExists ==
  ASSUME NEW V, NEW a, a \in V, NEW next, Steps(next, V)
  PROVE  \E f \in [Nat -> V] : Follows(f, a, next)
<1> DEFINE run(n) == CHOOSE g : IsRun(g, a, next, n)
           f == [n \in Nat |-> run(n)[n]]
<1>1. \A n \in Nat : IsRun(run(n), a, next, n) BY RunExists
<1> HIDE DEF run
<1>2. f[0] = a BY <1>1 DEF IsRun
<1>3. ASSUME NEW n \in Nat PROVE f[n + 1] = next[n + 1][f[n]]
  <2>1. n + 1 \in Nat /\ n <= n + 1 /\ n + 1 \in 1..(n + 1) /\ n \in 0..n /\ (n + 1) - 1 = n
    OBVIOUS
  <2>2. run(n + 1)[n + 1] = next[n + 1][run(n + 1)[n]] BY <1>1, <2>1 DEF IsRun
  <2>3. run(n)[n] = run(n + 1)[n] BY <1>1, <2>1, RunUnique
  <2> QED BY <2>1, <2>2, <2>3
<1>4. DOMAIN f = Nat OBVIOUS
<1> HIDE DEF f
<1> DEFINE T == {n \in Nat : f[n] \in V}
<1>5. 0 \in T BY <1>2
<1>6. ASSUME NEW n \in Nat, n \in T PROVE n + 1 \in T
  <2>1. n + 1 \in Nat /\ next[n + 1] \in [V -> V] BY DEF Steps
  <2>2. next[n + 1][f[n]] \in V BY <1>6, <2>1
  <2> QED BY <1>3, <2>1, <2>2
<1> HIDE DEF T
<1>7. \A n \in Nat : n \in T BY <1>5, <1>6, SetInduction
<1>8. f \in [Nat -> V]
  <2>1. f = [n \in Nat |-> run(n)[n]] BY DEF f
  <2> QED BY <2>1, <1>7 DEF T
<1> QED BY <1>2, <1>3, <1>8 DEF Follows
=============================================================================
