----------------------------- MODULE LoopLemmas -----------------------------
(***************************************************************************)
(* What the proofs about loops need.  A loop over a list is a recursive    *)
(* function on the number of elements it has seen,                         *)
(*                                                                         *)
(*   f[n \in 0 .. N] == IF n = 0 THEN base ELSE Step[n][f[n - 1]],         *)
(*                                                                         *)
(* where Step is a function: a parameter that is an operator could not be  *)
(* instantiated.  Such an f exists, and there is but one.                  *)
(***************************************************************************)
EXTENDS Sums, FiniteSets, FiniteSetTheorems, TLAPS

\* Induction for a set of numbers: were n the gap, adding 1 would map the members up to
\* n, one to one, onto fewer.
LEMMA NatSetInduction ==
    ASSUME NEW P, 0 \in P, \A n \in Nat : n \in P => n + 1 \in P
    PROVE  \A n \in Nat : n \in P
<1> SUFFICES ASSUME NEW n \in Nat, n \notin P PROVE FALSE
  OBVIOUS
<1> DEFINE B == {x \in 0 .. n : x \in P}
           C == B \ {0}
           f == [x \in B |-> x + 1]
<1>1. IsFiniteSet(0 .. n)
  BY FS_Interval
<1>2. 0 \in B /\ B \in SUBSET (0 .. n)
  OBVIOUS
<1>3. f \in [B -> C]
  <2>1. \A x \in B : x + 1 \in C
    OBVIOUS
  <2> HIDE DEF B, C
  <2> QED BY <2>1
<1>4. \A x, y \in B : x # y => f[x] # f[y]
  OBVIOUS
<1> HIDE DEF B, C, f
<1>5. IsFiniteSet(B)
  BY <1>1, <1>2, FS_Subset
<1>6. IsFiniteSet(C) /\ Cardinality(C) = Cardinality(B) - 1 /\ Cardinality(B) \in Nat
  BY <1>5, <1>2, FS_RemoveElement, FS_CardinalityType DEF C
<1>7. Cardinality(C) < Cardinality(B)
  BY <1>6
<1> QED BY <1>3, <1>4, <1>5, <1>6, <1>7, FS_PigeonHole

\* The same up to a bound.
LEMMA UpToInduction ==
    ASSUME NEW N \in Nat, NEW P, 0 \in P, \A n \in 1 .. N : n - 1 \in P => n \in P
    PROVE  \A n \in 0 .. N : n \in P
<1> DEFINE Q == {n \in Nat : n <= N => n \in P}
<1>1. 0 \in Q
  OBVIOUS
<1>2. \A n \in Nat : n \in Q => n + 1 \in Q
  <2> TAKE n \in Nat
  <2>1. SUFFICES ASSUME n \in Q, n + 1 <= N PROVE n + 1 \in P
    OBVIOUS
  <2>2. n + 1 \in 1 .. N /\ (n + 1) - 1 = n /\ n \in P
    BY <2>1
  <2> QED BY <2>2
<1> HIDE DEF Q
<1>3. \A n \in Nat : n \in Q
  BY <1>1, <1>2, NatSetInduction
<1> QED BY <1>3 DEF Q

\* Some number of a set up to a bound is the largest.
LEMMA MaxExists ==
    ASSUME NEW N \in Nat, NEW S \in SUBSET (1 .. N), S # {}
    PROVE  \E x \in S : \A y \in S : x >= y
<1> DEFINE P == {n \in 0 .. N : \A T \in SUBSET (1 .. n) :
                                  T # {} => \E x \in T : \A y \in T : x >= y}
<1>1. 0 \in P
  <2>1. 0 \in 0 .. N
    OBVIOUS
  <2>2. \A x : x \notin 1 .. 0
    OBVIOUS
  <2>3. \A T \in SUBSET (1 .. 0) : T = {}
    BY <2>2
  <2> QED BY <2>1, <2>3
<1>2. ASSUME NEW n \in 1 .. N, n - 1 \in P PROVE n \in P
  <2>0. n \in 0 .. N
    OBVIOUS
  <2>1. SUFFICES ASSUME NEW T \in SUBSET (1 .. n), T # {}
                 PROVE  \E x \in T : \A y \in T : x >= y
    BY <2>0
  <2>2. CASE n \in T
    <3>1. \A y \in T : n >= y
      OBVIOUS
    <3> QED BY <2>2, <3>1
  <2>3. CASE n \notin T
    <3>1. T \in SUBSET (1 .. n - 1)
      BY <2>3
    <3> QED BY <1>2, <2>1, <3>1
  <2> QED BY <2>2, <2>3
<1> HIDE DEF P
<1>3. \A n \in 0 .. N : n \in P
  BY <1>1, <1>2, UpToInduction
<1>4. N \in P
  BY <1>3
<1> QED BY <1>4 DEF P

LEMMA AppendTyped ==
    ASSUME NEW S, NEW s \in Seq(S), NEW x \in S
    PROVE  Append(s, x) \in Seq(S)
OBVIOUS

LEMMA ListTyped ==
    ASSUME NEW N \in Nat, NEW S, NEW s \in [1 .. N -> S]
    PROVE  s \in Seq(S) /\ Len(s) = N /\ DOMAIN s = 1 .. N
OBVIOUS

IsLoop(f, N, V, base, Step) ==
    f \in [0 .. N -> V] /\ f[0] = base /\ \A n \in 1 .. N : f[n] = Step[n][f[n - 1]]

LEMMA LoopExists ==
    ASSUME NEW N \in Nat, NEW V, NEW base \in V, NEW Step \in [1 .. N -> [V -> V]]
    PROVE  \E f : IsLoop(f, N, V, base, Step)
<1> DEFINE P == {k \in 0 .. N : \E f : IsLoop(f, k, V, base, Step)}
<1>1. 0 \in P
  <2> DEFINE f == [n \in 0 .. 0 |-> base]
  <2>1. IsLoop(f, 0, V, base, Step)
    BY DEF IsLoop
  <2> HIDE DEF f
  <2> QED BY <2>1
<1>2. \A k \in 1 .. N : k - 1 \in P => k \in P
  <2> TAKE k \in 1 .. N
  <2> HAVE k - 1 \in P
  <2>1. PICK f : IsLoop(f, k - 1, V, base, Step)
    OBVIOUS
  <2> DEFINE g == [n \in 0 .. k |-> IF n = k THEN Step[k][f[k - 1]] ELSE f[n]]
  <2>2. Step[k][f[k - 1]] \in V
    BY <2>1 DEF IsLoop
  <2>3. g \in [0 .. k -> V]
    BY <2>1, <2>2 DEF IsLoop
  <2>4. g[0] = base
    BY <2>1 DEF IsLoop
  <2>5. ASSUME NEW n \in 1 .. k PROVE g[n] = Step[n][g[n - 1]]
    <3>1. CASE n = k
      BY <3>1
    <3>2. CASE n # k
      BY <2>1, <3>2 DEF IsLoop
    <3> QED BY <3>1, <3>2
  <2>6. IsLoop(g, k, V, base, Step)
    BY <2>3, <2>4, <2>5 DEF IsLoop
  <2> HIDE DEF g
  <2> QED BY <2>6
<1> HIDE DEF P
<1>3. N \in P
  <2>1. \A n \in 0 .. N : n \in P
    BY <1>1, <1>2, UpToInduction
  <2> QED BY <2>1
<1> QED BY <1>3 DEF P

\* Two loops that begin and go on alike.
InStep(f, g, N) ==
    f[0] = g[0] /\ \A n \in 1 .. N : f[n - 1] = g[n - 1] => f[n] = g[n]
Agree(f, g, N) == \A n \in 0 .. N : f[n] = g[n]

LEMMA LoopUnique ==
    ASSUME NEW N \in Nat, NEW f, NEW g, InStep(f, g, N)
    PROVE  Agree(f, g, N)
<1> DEFINE P == {n \in 0 .. N : f[n] = g[n]}
<1>1. 0 \in P /\ \A n \in 1 .. N : n - 1 \in P => n \in P
  BY DEF InStep
<1> HIDE DEF P
<1>2. \A n \in 0 .. N : n \in P
  BY <1>1, UpToInduction
<1> QED BY <1>2 DEF P, Agree

-----------------------------------------------------------------------------
(* Sums. *)

\* f[n] is the sum of the first n numbers of s.
AddsUp(f, s, N) == f[0] = 0 /\ \A n \in 1 .. N : f[n] = f[n - 1] + s[n]
IsSum(f, s, N) == f \in [0 .. N -> Int] /\ AddsUp(f, s, N)

LEMMA SumsExist ==
    ASSUME NEW N \in Nat, NEW s \in [1 .. N -> Int]
    PROVE  \E f : IsSum(f, s, N)
<1> DEFINE Step == [n \in 1 .. N |-> [x \in Int |-> x + s[n]]]
<1>1. Step \in [1 .. N -> [Int -> Int]]
  OBVIOUS
<1>2. \A n \in 1 .. N, x \in Int : Step[n][x] = x + s[n]
  OBVIOUS
<1>3. 0 \in Int
  OBVIOUS
<1> HIDE DEF Step
<1>4. PICK f : IsLoop(f, N, Int, 0, Step)
  BY <1>1, <1>3, LoopExists, Zenon
<1>5. ASSUME NEW n \in 1 .. N PROVE f[n] = f[n - 1] + s[n]
  <2>1. f[n - 1] \in Int
    BY <1>4 DEF IsLoop
  <2> QED BY <1>2, <1>4, <2>1 DEF IsLoop
<1>6. IsSum(f, s, N)
  BY <1>4, <1>5 DEF IsLoop, IsSum, AddsUp
<1> QED BY <1>6

LEMMA SumsUnique ==
    ASSUME NEW N \in Nat, NEW s \in [1 .. N -> Int], NEW f, IsSum(f, s, N),
           NEW g, AddsUp(g, s, N)
    PROVE  \A n \in 0 .. N : g[n] = f[n]
<1>1. InStep(g, f, N)
  BY DEF IsSum, AddsUp, InStep
<1>2. Agree(g, f, N)
  BY <1>1, LoopUnique
<1> QED BY <1>2 DEF Agree

\* The loop of Total adds up what it finds.
LEMMA SumIs ==
    ASSUME NEW N \in Nat, NEW s \in [1 .. N -> Int], NEW f, IsSum(f, s, N)
    PROVE  Total(s) = f[N]
<1> DEFINE Body(g) == [n \in 0 .. N |-> IF n = 0 THEN 0 ELSE g[n - 1] + s[n]]
           chosen == CHOOSE g : g = Body(g)
<1>1. Len(s) = N
  BY ListTyped
<1>2. Total(s) = chosen[N]
  BY <1>1 DEF Total
<1>3. f = Body(f)
  <2>1. \A n \in 0 .. N : f[n] = Body(f)[n]
    BY DEF IsSum, AddsUp
  <2>2. f = [n \in 0 .. N |-> f[n]]
    BY DEF IsSum, AddsUp
  <2> HIDE DEF chosen
  <2> QED BY <2>1, <2>2
<1>4. chosen = Body(chosen)
  <2>1. \E g : g = Body(g)
    BY <1>3
  <2> HIDE DEF Body
  <2> QED BY <2>1
<1> HIDE DEF chosen
<1>5. AddsUp(chosen, s, N)
  <2>1. \A n \in 0 .. N : chosen[n] = Body(chosen)[n]
    BY <1>4
  <2> QED BY <2>1 DEF AddsUp
<1>6. \A n \in 0 .. N : chosen[n] = f[n]
  BY <1>5, SumsUnique
<1> QED BY <1>2, <1>6

LEMMA SumLoop ==
    ASSUME NEW N \in Nat, NEW s \in [1 .. N -> Int]
    PROVE  \E f : IsSum(f, s, N) /\ Total(s) = f[N]
BY SumsExist, SumIs

LEMMA SumTyped ==
    ASSUME NEW N \in Nat, NEW s \in [1 .. N -> Int]
    PROVE  Total(s) \in Int
<1>1. PICK f : IsSum(f, s, N) /\ Total(s) = f[N]
  BY SumLoop
<1> QED BY <1>1 DEF IsSum, AddsUp

LEMMA SumOfEmpty == Total(<< >>) = 0
<1>1. << >> \in [1 .. 0 -> Int] /\ 0 \in Nat
  OBVIOUS
<1>2. PICK f : IsSum(f, << >>, 0) /\ Total(<< >>) = f[0]
  BY <1>1, SumLoop
<1> QED BY <1>2 DEF IsSum, AddsUp

\* What the loop has added up when it has seen k numbers.
LEMMA SumOfFirst ==
    ASSUME NEW N \in Nat, NEW s \in [1 .. N -> Int], NEW f, IsSum(f, s, N),
           NEW k \in 0 .. N, NEW t \in [1 .. k -> Int], \A i \in 1 .. k : t[i] = s[i]
    PROVE  Total(t) = f[k]
<1>1. PICK g : IsSum(g, t, k) /\ Total(t) = g[k]
  <2>1. k \in Nat
    OBVIOUS
  <2> QED BY <2>1, SumLoop
<1>2. AddsUp(f, t, k) /\ k \in Nat
  BY DEF IsSum, AddsUp
<1>3. \A n \in 0 .. k : f[n] = g[n]
  BY <1>1, <1>2, SumsUnique
<1> QED BY <1>1, <1>3

LEMMA SumOfOneMore ==
    ASSUME NEW N \in Nat, NEW s \in [1 .. N -> Int], NEW t \in [1 .. N + 1 -> Int],
           \A i \in 1 .. N : t[i] = s[i]
    PROVE  Total(t) = Total(s) + t[N + 1]
<1>1. N + 1 \in Nat /\ N \in 0 .. N + 1 /\ N + 1 \in 1 .. N + 1 /\ (N + 1) - 1 = N
  OBVIOUS
<1>2. PICK f : IsSum(f, t, N + 1) /\ Total(t) = f[N + 1]
  BY <1>1, SumLoop
<1>3. \A i \in 1 .. N : s[i] = t[i]
  OBVIOUS
<1>4. Total(s) = f[N]
  BY <1>1, <1>2, <1>3, SumOfFirst
<1> QED BY <1>1, <1>2, <1>4 DEF IsSum, AddsUp

\* Two lists that differ in one place.
LEMMA SumOfChanged ==
    ASSUME NEW N \in Nat, NEW s \in [1 .. N -> Int], NEW t \in [1 .. N -> Int],
           NEW i \in 1 .. N, \A j \in 1 .. N : j # i => t[j] = s[j]
    PROVE  Total(t) = Total(s) - s[i] + t[i]
<1>1. PICK f : IsSum(f, s, N) /\ Total(s) = f[N]
  BY SumLoop
<1> DEFINE d == t[i] - s[i]
           g == [n \in 0 .. N |-> IF n < i THEN f[n] ELSE f[n] + d]
<1>2. d \in Int /\ s[i] \in Int /\ t[i] \in Int
  OBVIOUS
<1>3. \A n \in 0 .. N : f[n] \in Int
  BY <1>1 DEF IsSum, AddsUp
<1>4. g \in [0 .. N -> Int] /\ g[0] = 0
  <2>1. f[0] = 0 /\ d \in Int
    BY <1>1, <1>2 DEF IsSum, AddsUp
  <2> HIDE DEF d
  <2>2. \A n \in 0 .. N : (IF n < i THEN f[n] ELSE f[n] + d) \in Int
    BY <1>3, <2>1
  <2> QED BY <2>1, <2>2
<1>5. ASSUME NEW n \in 1 .. N PROVE g[n] = g[n - 1] + t[n]
  <2>1. f[n] = f[n - 1] + s[n] /\ n - 1 \in 0 .. N /\ n \in 0 .. N /\ s[n] \in Int /\ t[n] \in Int
    BY <1>1 DEF IsSum, AddsUp
  <2>2. f[n - 1] \in Int /\ f[n] \in Int
    BY <1>3, <2>1
  <2>3. CASE n = i
    BY <1>2, <2>1, <2>2, <2>3
  <2>4. CASE n # i
    BY <1>2, <2>1, <2>2, <2>4
  <2> QED BY <2>3, <2>4
<1>6. IsSum(g, t, N)
  BY <1>4, <1>5 DEF IsSum, AddsUp
<1>7. g[N] = f[N] + d
  OBVIOUS
<1> HIDE DEF g
<1>8. Total(t) = g[N]
  BY <1>6, SumIs
<1>9. f[N] \in Int
  BY <1>3
<1> QED BY <1>1, <1>2, <1>7, <1>8, <1>9

\* A list that goes on with another one.
LEMMA SumOfBoth ==
    ASSUME NEW N \in Nat, NEW M \in Nat, NEW s \in [1 .. N -> Int], NEW u \in [1 .. M -> Int],
           NEW t \in [1 .. N + M -> Int],
           \A i \in 1 .. N : t[i] = s[i], \A i \in 1 .. M : t[N + i] = u[i]
    PROVE  Total(t) = Total(s) + Total(u)
<1>1. PICK f : IsSum(f, s, N) /\ Total(s) = f[N]
  BY SumLoop
<1>2. PICK h : IsSum(h, u, M) /\ Total(u) = h[M]
  BY SumLoop
<1> DEFINE g == [n \in 0 .. N + M |-> IF n <= N THEN f[n] ELSE f[N] + h[n - N]]
<1>3. /\ \A n \in 0 .. N : f[n] \in Int
      /\ \A n \in 0 .. M : h[n] \in Int
      /\ f[N] \in Int /\ f[0] = 0 /\ h[0] = 0 /\ N + M \in Nat
  BY <1>1, <1>2 DEF IsSum, AddsUp
<1>4. g \in [0 .. N + M -> Int] /\ g[0] = 0
  BY <1>3
<1>5. ASSUME NEW n \in 1 .. N + M PROVE g[n] = g[n - 1] + t[n]
  <2>1. CASE n <= N
    <3>1. f[n] = f[n - 1] + s[n] /\ t[n] = s[n]
      BY <1>1, <2>1 DEF IsSum, AddsUp
    <3> QED BY <2>1, <3>1
  <2>2. CASE n > N
    <3>1. PICK m \in 1 .. M : n = N + m
      BY <2>2
    <3>2. h[m] = h[m - 1] + u[m] /\ t[n] = u[m] /\ n - N = m /\ (n - 1) - N = m - 1
      BY <1>2, <3>1 DEF IsSum, AddsUp
    <3>3. h[m] \in Int /\ h[m - 1] \in Int /\ u[m] \in Int
      BY <1>3, <3>1
    <3>4. g[n] = f[N] + h[m]
      BY <2>2, <3>1, <3>2
    <3>5. g[n - 1] = f[N] + h[m - 1]
      <4>1. CASE m = 1
        BY <1>3, <3>1, <3>2, <4>1
      <4>2. CASE m # 1
        BY <3>1, <3>2, <4>2
      <4> QED BY <4>1, <4>2
    <3> HIDE DEF g
    <3>6. f[N] + h[m] = (f[N] + h[m - 1]) + u[m]
      <4>1. f[N] \in Int /\ h[m - 1] \in Int /\ u[m] \in Int /\ h[m] = h[m - 1] + u[m]
        BY <1>3, <3>2, <3>3
      <4> QED BY <4>1
    <3> QED BY <3>2, <3>4, <3>5, <3>6
  <2> QED BY <2>1, <2>2
<1>6. IsSum(g, t, N + M)
  BY <1>4, <1>5 DEF IsSum, AddsUp
<1>7. g[N + M] = f[N] + h[M]
  <2>1. CASE M = 0
    BY <1>3, <2>1
  <2>2. CASE M # 0
    <3>1. ~(N + M <= N) /\ (N + M) - N = M /\ N + M \in 0 .. N + M
      BY <2>2
    <3> QED BY <3>1
  <2> QED BY <2>1, <2>2
<1> HIDE DEF g
<1>8. Total(t) = g[N + M]
  BY <1>3, <1>6, SumIs
<1> QED BY <1>1, <1>2, <1>7, <1>8
=============================================================================
