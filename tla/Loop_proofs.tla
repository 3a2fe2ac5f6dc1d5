------------------------------ MODULE Loop_proofs ------------------------------
(***************************************************************************)
(* Induction, and what it says of the loops of Loop, for any body, list    *)
(* and number of steps.  The induction principle is about a set instead of *)
(* a predicate, so that the provers can be told which set: it follows from *)
(* the well-foundedness of the order of the natural numbers.               *)
(***************************************************************************)
EXTENDS Loop, WellFoundedInduction, TLAPS

-----------------------------------------------------------------------------
(* Induction over the natural numbers.                                     *)

\* A set of natural numbers has a least element.
LEMMA LeastOf ==
  ASSUME NEW T \in SUBSET Nat, T # {}
  PROVE  \E n \in T : \A m \in T : n <= m
<1> DEFINE R == OpToRel(<, Nat)
<1>1. IsWellFoundedOn(R, Nat)
  BY NatLessThanWellFounded
<1>2. \A x, y \in Nat : x < y => <<x, y>> \in R
  BY DEF OpToRel
<1> HIDE DEF R
<1>3. \E x \in T : \A y \in T : ~ (<<y, x>> \in R)
  BY <1>1, WFMin
<1>4. PICK x \in T : \A y \in T : ~ (<<y, x>> \in R)
  BY <1>3
<1>5. \A y \in T : ~ (y < x)
  BY <1>2, <1>4
<1> QED BY <1>5

\* A set that has 0, and n + 1 with every n, has every natural number.
THEOREM Induction ==
  ASSUME NEW T, 0 \in T, \A n \in Nat : n \in T => n + 1 \in T
  PROVE  \A n \in Nat : n \in T
<1> SUFFICES ASSUME NEW k \in Nat, k \notin T PROVE FALSE
  OBVIOUS
<1> DEFINE U == {n \in Nat : n \notin T}
<1>1. PICK n \in U : \A m \in U : n <= m
  BY LeastOf
<1>2. n # 0
  OBVIOUS
<1>3. n - 1 \in Nat /\ n - 1 \notin U
  BY <1>1, <1>2
<1> QED BY <1>1, <1>3

-----------------------------------------------------------------------------
(* The recursive function of After is well defined.                       *)

Runs(c, base, xs, n, acc) ==
  acc = [i \in 0..n |-> IF i = 0 THEN base ELSE Body(c, acc[i - 1], xs[i])]

LEMMA RunExists ==
  ASSUME NEW c, NEW base, NEW xs, NEW n \in Nat
  PROVE  \E acc : Runs(c, base, xs, n, acc)
<1> DEFINE T == {k \in Nat : \E acc : Runs(c, base, xs, k, acc)}
<1>1. 0 \in T
  <2> DEFINE acc == [i \in 0..0 |-> base]
  <2>1. Runs(c, base, xs, 0, acc)
    BY DEF Runs
  <2> QED BY <2>1
<1>2. ASSUME NEW k \in Nat, k \in T PROVE k + 1 \in T
  <2>1. PICK old : Runs(c, base, xs, k, old)
    BY <1>2
  <2> DEFINE acc == [i \in 0..(k + 1) |-> IF i = k + 1 THEN Body(c, old[k], xs[i]) ELSE old[i]]
  <2>2. \A i \in 0..k : old[i] = IF i = 0 THEN base ELSE Body(c, old[i - 1], xs[i])
    BY <2>1, Zenon DEF Runs
  <2>3. \A i \in 0..(k + 1) : acc[i] = IF i = 0 THEN base ELSE Body(c, acc[i - 1], xs[i])
    <3> SUFFICES ASSUME NEW i \in 0..(k + 1)
                 PROVE  acc[i] = IF i = 0 THEN base ELSE Body(c, acc[i - 1], xs[i])
      OBVIOUS
    <3>1. CASE i = k + 1
      BY <3>1
    <3>2. CASE i # k + 1
      <4>1. i \in 0..k /\ (i # 0 => i - 1 \in 0..k /\ i - 1 # k + 1 /\ i - 1 \in 0..(k+1))
        BY <3>2
      <4> QED BY <4>1, <2>2, <3>2
    <3> QED BY <3>1, <3>2
  <2>4. Runs(c, base, xs, k + 1, acc)
    BY <2>3, Zenon DEF Runs
  <2> QED BY <2>4
<1> HIDE DEF T
<1>3. n \in T
  BY <1>1, <1>2, Induction
<1> QED BY <1>3 DEF T

\* Two lists that agree on their first k elements run alike for k steps.
LEMMA RunIsOne ==
  ASSUME NEW c, NEW base, NEW xs, NEW ys, NEW n \in Nat, NEW m \in Nat, NEW f, NEW g,
         Runs(c, base, xs, n, f), Runs(c, base, ys, m, g),
         NEW k \in Nat, k <= n, k <= m, \A i \in 1..k : xs[i] = ys[i]
  PROVE  f[k] = g[k]
<1> DEFINE T == {i \in Nat : i <= k => f[i] = g[i]}
<1>0. /\ \A i \in 0..n : f[i] = IF i = 0 THEN base ELSE Body(c, f[i - 1], xs[i])
      /\ \A i \in 0..m : g[i] = IF i = 0 THEN base ELSE Body(c, g[i - 1], ys[i])
  BY Zenon DEF Runs
<1>1. 0 \in T
  BY <1>0
<1>2. ASSUME NEW i \in Nat, i \in T PROVE i + 1 \in T
  <2> SUFFICES ASSUME i + 1 <= k PROVE f[i + 1] = g[i + 1]
    OBVIOUS
  <2>1. i + 1 \in 0..n /\ i + 1 \in 0..m /\ i + 1 # 0 /\ (i + 1) - 1 = i /\ i + 1 \in 1..k
    OBVIOUS
  <2>2. f[i] = g[i]
    BY <1>2
  <2> QED BY <1>0, <2>1, <2>2
<1> HIDE DEF T
<1>3. k \in T
  BY <1>1, <1>2, Induction
<1> QED BY <1>3 DEF T

LEMMA AfterRuns ==
  ASSUME NEW c, NEW base, NEW xs, NEW n \in Nat
  PROVE  \E acc : Runs(c, base, xs, n, acc) /\ After(c, base, xs, n) = acc[n]
<1> DEFINE acc == CHOOSE f : Runs(c, base, xs, n, f)
<1>1. Runs(c, base, xs, n, acc)
  BY RunExists
<1>2. After(c, base, xs, n) = acc[n]
  BY DEF After, Runs
<1> HIDE DEF acc
<1> QED BY <1>1, <1>2

-----------------------------------------------------------------------------
(* What is said of a loop.                                                 *)

\* Before its first step a loop has what it starts from.
THEOREM AfterNone == ASSUME NEW c, NEW base, NEW xs PROVE After(c, base, xs, 0) = base
<1>1. PICK acc : Runs(c, base, xs, 0, acc) /\ After(c, base, xs, 0) = acc[0]
  BY AfterRuns
<1>2. acc[0] = base
  BY <1>1 DEF Runs
<1> QED BY <1>1, <1>2

\* Its next step runs the body on the next element.
THEOREM AfterNext ==
  ASSUME NEW c, NEW base, NEW xs, NEW n \in Nat
  PROVE  After(c, base, xs, n + 1) = Body(c, After(c, base, xs, n), xs[n + 1])
<1>1. PICK f : Runs(c, base, xs, n, f) /\ After(c, base, xs, n) = f[n]
  BY AfterRuns
<1>2. PICK g : Runs(c, base, xs, n + 1, g) /\ After(c, base, xs, n + 1) = g[n + 1]
  BY AfterRuns
<1>3. f[n] = g[n]
  BY <1>1, <1>2, RunIsOne
<1>4. g[n + 1] = Body(c, g[(n + 1) - 1], xs[n + 1])
  BY <1>2 DEF Runs
<1>5. (n + 1) - 1 = n
  OBVIOUS
<1> QED BY <1>1, <1>2, <1>3, <1>4, <1>5

\* What comes later in the list makes no difference.
THEOREM AfterSame ==
  ASSUME NEW c, NEW base, NEW xs, NEW ys, NEW n \in Nat, \A i \in 1..n : xs[i] = ys[i]
  PROVE  After(c, base, xs, n) = After(c, base, ys, n)
<1>1. PICK f : Runs(c, base, xs, n, f) /\ After(c, base, xs, n) = f[n]
  BY AfterRuns
<1>2. PICK g : Runs(c, base, ys, n, g) /\ After(c, base, ys, n) = g[n]
  BY AfterRuns
<1>3. f[n] = g[n]
  BY <1>1, <1>2, RunIsOne
<1> QED BY <1>1, <1>2, <1>3

\* The loop rule: what holds before the loop and is kept by every step holds
\* after it.
THEOREM AfterKeeps ==
  ASSUME NEW c, NEW base, NEW xs, NEW n \in Nat, NEW Inv, base \in Inv,
         \A i \in 1..n : \A acc \in Inv : Body(c, acc, xs[i]) \in Inv
  PROVE  After(c, base, xs, n) \in Inv
<1> DEFINE T == {k \in Nat : k <= n => After(c, base, xs, k) \in Inv}
<1>1. 0 \in T
  BY AfterNone
<1>2. ASSUME NEW k \in Nat, k \in T PROVE k + 1 \in T
  <2> SUFFICES ASSUME k + 1 <= n PROVE After(c, base, xs, k + 1) \in Inv
    OBVIOUS
  <2>1. k + 1 \in 1..n /\ After(c, base, xs, k) \in Inv
    BY <1>2
  <2>2. After(c, base, xs, k + 1) = Body(c, After(c, base, xs, k), xs[k + 1])
    BY AfterNext
  <2> QED BY <2>1, <2>2
<1> HIDE DEF T
<1>3. n \in T
  BY <1>1, <1>2, Induction
<1> QED BY <1>3 DEF T
================================================================================
