---------------------------- MODULE LeastNumber -----------------------------
(***************************************************************************)
(* The least-number principle: a nonempty set of natural numbers has a     *)
(* least element.  It stands for induction in the proofs of the other      *)
(* modules, and says what the choice Min(T) is.                            *)
(***************************************************************************)
EXTENDS Integers, FiniteSetsExt, WellFoundedInduction, TLAPS

\* The order on the natural numbers as a well-founded relation.
LEMMA LessThan ==
    \E R : IsWellFoundedOn(R, Nat) /\ R = {ss \in Nat \X Nat : ss[1] < ss[2]}
  BY NatLessThanWellFounded, Zenon DEF OpToRel

\* A nonempty set of natural numbers has a least element.
LEMMA Least ==
    ASSUME NEW T, T \subseteq Nat, T # {}
    PROVE  \E m \in T : \A k \in T : m <= k
<1>1. PICK R : IsWellFoundedOn(R, Nat) /\ R = {ss \in Nat \X Nat : ss[1] < ss[2]}
  BY LessThan
<1>2. \A a, b \in Nat : a < b => <<a, b>> \in R
  BY <1>1
<1>3. PICK x \in T : \A y \in T : ~ (<<y, x>> \in R)
  BY <1>1, WFMin
<1>4. ASSUME NEW y \in T PROVE x <= y
  <2>1. x \in Nat /\ y \in Nat
    OBVIOUS
  <2>2. ~(<<y, x>> \in R)
    BY <1>3
  <2>3. ~(y < x)
    BY <1>2, <2>1, <2>2, Zenon
  <2>. QED  BY <2>1, <2>3
<1>. QED  BY <1>4

\* Min chooses it.
LEMMA MinOf ==
    ASSUME NEW T, T \subseteq Nat, T # {}
    PROVE  Min(T) \in T /\ \A k \in T : Min(T) <= k
  BY Least DEF Min

\* A nonempty set of numbers with an upper bound has a greatest one, which Max
\* chooses.
LEMMA MaxOf ==
    ASSUME NEW n \in Nat, NEW T, T \subseteq 1 .. n, T # {}
    PROVE  Max(T) \in T /\ \A k \in T : k <= Max(T)
<1> DEFINE D == {n - k : k \in T}
<1>1. D \subseteq Nat
  OBVIOUS
<1>0. D # {}
  <2>1. PICK k : k \in T
    OBVIOUS
  <2>2. n - k \in D
    BY <2>1
  <2>. QED  BY <2>2
<1>2. PICK d \in D : \A e \in D : d <= e
  BY <1>0, <1>1, Least
<1>3. PICK m \in T : d = n - m
  OBVIOUS
<1>4. \A k \in T : n - k \in D /\ k \in Int
  OBVIOUS
<1>5. \A k \in T : k <= m
  BY <1>2, <1>3, <1>4
<1>. QED  BY <1>5 DEF Max

\* Induction along the values of a function: the least index at which one
\* leaves X has its predecessor in X.
LEMMA UpTo ==
    ASSUME NEW t, NEW n \in Nat, NEW X, t[0] \in X,
           \A i \in 1 .. n : t[i - 1] \in X => t[i] \in X
    PROVE  \A i \in 0 .. n : t[i] \in X
<1> DEFINE Bad == {i \in 0 .. n : t[i] \notin X}
<1>1. ASSUME Bad # {} PROVE FALSE
  <2>0. Bad \subseteq Nat
    OBVIOUS
  <2>1. PICK m \in Bad : \A k \in Bad : m <= k
    BY <1>1, <2>0, Least
  <2>2. m \in 1 .. n /\ m - 1 \in 0 .. n /\ ~(m <= m - 1)
    BY <2>1
  <2>3. m - 1 \notin Bad
    BY <2>1, <2>2
  <2>. QED  BY <2>1, <2>2, <2>3
<1>. QED  BY <1>1

\* F gives the next value in X for an index and the value before; t takes the
\* values from x on.
StepsIn(X, n, F) == F \in [(1 .. n) \X X -> X]
Follows(t, X, x, n, F) ==
    /\ t \in [0 .. n -> X]
    /\ t[0] = x /\ \A i \in 1 .. n : t[i] = F[<<i, t[i - 1]>>]

\* A recursive definition over an interval has a solution.
LEMMA Recursion ==
    ASSUME NEW X, NEW x \in X, NEW n \in Nat, NEW F, StepsIn(X, n, F)
    PROVE  \E t : Follows(t, X, x, n, F)
<1> DEFINE Is(t, m) == /\ t \in [0 .. m -> X]
                       /\ t[0] = x /\ \A i \in 1 .. m : t[i] = F[<<i, t[i - 1]>>]
           Bad == {m \in 0 .. n : ~\E t : Is(t, m)}
<1>1. ASSUME Bad # {} PROVE FALSE
  <2>0. Bad \subseteq Nat
    OBVIOUS
  <2>1. PICK m \in Bad : \A k \in Bad : m <= k
    BY <1>1, <2>0, Least
  <2>2. CASE m = 0
    <3>1. Is([i \in 0 .. 0 |-> x], 0)
      OBVIOUS
    <3>. QED  BY <2>1, <2>2, <3>1
  <2>3. CASE m # 0
    <3>1. m \in 1 .. n /\ m - 1 \in 0 .. n /\ ~(m <= m - 1)
      BY <2>3
    <3>2. m - 1 \notin Bad
      BY <2>1, <3>1
    <3>3. PICK t : Is(t, m - 1)
      BY <3>1, <3>2
    <3> DEFINE u == [i \in 0 .. m |-> IF i = m THEN F[<<m, t[m - 1]>>] ELSE t[i]]
    <3>4. F[<<m, t[m - 1]>>] \in X
      BY <3>1, <3>3 DEF StepsIn
    <3>5. \A i \in 0 .. m : i # m => u[i] = t[i] /\ i \in 0 .. m - 1
      BY <3>1
    <3>6. u \in [0 .. m -> X] /\ u[m] = F[<<m, t[m - 1]>>] /\ u[0] = t[0]
      BY <3>1, <3>3, <3>4
    <3> HIDE DEF u
    <3>7. ASSUME NEW i \in 1 .. m PROVE u[i] = F[<<i, u[i - 1]>>]
      <4>1. i - 1 \in 0 .. m /\ i - 1 # m /\ i \in 0 .. m
        BY <3>1
      <4>2. u[i - 1] = t[i - 1]
        BY <3>5, <4>1
      <4>3. CASE i = m
        BY <3>6, <4>2, <4>3
      <4>4. CASE i # m
        BY <3>1, <3>3, <3>5, <4>1, <4>2, <4>4
      <4>. QED  BY <4>3, <4>4
    <3>8. Is(u, m)
      BY <3>3, <3>6, <3>7
    <3>. QED  BY <2>1, <3>8
  <2>. QED  BY <2>2, <2>3
<1>2. n \notin Bad
  BY <1>1
<1>. QED  BY <1>2 DEF Follows
=============================================================================
