-------------------------- MODULE NatSetInduction --------------------------
(***************************************************************************)
(* Induction on the naturals for a property given as a set, from the fact  *)
(* that < is well founded on them.  The proof modules use it where the     *)
(* library's NatInduction, whose parameter is an operator, cannot be       *)
(* instantiated by the provers; and, from it, that a function defined by   *)
(* recursion over 0 .. N or over all naturals exists, which a proof about  *)
(* what such a function computes begins with, and that a set of naturals   *)
(* has a least one.                                                        *)
(***************************************************************************)
EXTENDS Integers, WellFoundedInduction, TLAPS

\* A set of naturals that holds zero and is closed under successor is Nat.
LEMMA SetInduction ==
  ASSUME NEW S \in SUBSET Nat, 0 \in S, \A n \in S : n + 1 \in S
  PROVE  S = Nat
<1> SUFFICES ASSUME Nat \ S # {} PROVE FALSE
  OBVIOUS
<1>1. PICK x \in Nat \ S : \A y \in Nat \ S : ~ (<<y, x>> \in OpToRel(<, Nat))
  <2>1. Nat \ S \subseteq Nat
    OBVIOUS
  <2>2. QED BY <2>1, NatLessThanWellFounded, WFMin
<1>2. x - 1 \in Nat /\ x - 1 < x /\ (x - 1) + 1 = x
  OBVIOUS
<1>3. <<x - 1, x>> \in OpToRel(<, Nat)
  BY <1>2 DEF OpToRel
<1>4. x - 1 \in S
  BY <1>1, <1>2, <1>3, Zenon
<1>5. (x - 1) + 1 \in S
  BY <1>4
<1> QED BY <1>2, <1>5

\* The same up to a bound.
LEMMA BoundedInduction ==
  ASSUME NEW N \in Nat, NEW S, 0 \in S, \A k \in 1 .. N : k - 1 \in S => k \in S
  PROVE  0 .. N \subseteq S
<1> DEFINE T == {k \in Nat : k <= N => k \in S}
<1>1. \A n \in T : n + 1 \in T
  <2> SUFFICES ASSUME NEW n \in T, n + 1 <= N PROVE n + 1 \in S
    OBVIOUS
  <2>1. n + 1 \in 1 .. N /\ (n + 1) - 1 = n /\ n \in S
    OBVIOUS
  <2> QED BY <2>1
<1>2. T = Nat
  <2>1. T \in SUBSET Nat /\ 0 \in T
    OBVIOUS
  <2> HIDE DEF T
  <2> QED BY <1>1, <2>1, SetInduction
<1> QED BY <1>2

\* f is defined by recursion over 0 .. N: F gives its value at a position from
\* the one before.
Recursive(f, N, X, x0, F) ==
  /\ f \in [0 .. N -> X]
  /\ f[0] = x0 /\ \A k \in 1 .. N : f[k] = F[k][f[k - 1]]

Recursion(N, X, x0, F) == \E f : Recursive(f, N, X, x0, F)

\* Such a function exists.
LEMMA RecursionExists ==
  ASSUME NEW N \in Nat, NEW X, NEW x0 \in X, NEW F \in [1 .. N -> [X -> X]]
  PROVE  Recursion(N, X, x0, F)
<1> DEFINE Rec(f, n) == Recursive(f, n, X, x0, F)
           S == {n \in 0 .. N : \E f : Rec(f, n)}
<1> USE DEF Recursive
<1>1. 0 \in S
  <2> DEFINE f == [k \in 0 .. 0 |-> x0]
  <2>1. Rec(f, 0)
    OBVIOUS
  <2> HIDE DEF f
  <2> QED BY <2>1
<1>2. ASSUME NEW n \in 1 .. N, n - 1 \in S PROVE n \in S
  <2>1. PICK f : Rec(f, n - 1)
    BY <1>2
  <2> DEFINE g == [k \in 0 .. n |-> IF k = n THEN F[n][f[n - 1]] ELSE f[k]]
  <2>2. \A k \in 0 .. n : k # n => k \in 0 .. n - 1 /\ g[k] = f[k]
    OBVIOUS
  <2>3. n - 1 \in 0 .. n - 1 /\ n - 1 \in 0 .. n /\ n \in 0 .. n /\ 0 # n /\ 0 \in 0 .. n - 1
    OBVIOUS
  <2>4. g \in [0 .. n -> X]
    BY <2>1, <2>2, <2>3
  <2>5. ASSUME NEW k \in 1 .. n PROVE g[k] = F[k][g[k - 1]]
    <3>1. CASE k = n
      BY <2>2, <2>3, <3>1
    <3>2. CASE k # n
      <4>1. k \in 1 .. n - 1 /\ k \in 0 .. n /\ k - 1 \in 0 .. n /\ k - 1 # n
        BY <3>2
      <4> HIDE DEF g
      <4>2. g[k] = f[k] /\ g[k - 1] = f[k - 1] /\ f[k] = F[k][f[k - 1]]
        BY <2>1, <2>2, <3>2, <4>1
      <4> QED BY <4>2
    <3> QED BY <3>1, <3>2
  <2>6. g[0] = x0
    BY <2>1, <2>3
  <2> HIDE DEF g
  <2>7. Rec(g, n)
    BY <2>4, <2>5, <2>6
  <2> QED BY <2>7
<1>3. N \in S
  <2> HIDE DEF S
  <2>1. 0 .. N \subseteq S
    BY <1>1, <1>2, BoundedInduction
  <2> QED BY <2>1
<1> QED BY <1>3 DEF Recursion

\* Two of them that share their steps agree as far as both go.
LEMMA RecursionAgrees ==
  ASSUME NEW N \in Nat, NEW M \in 0 .. N, NEW X, NEW x0, NEW F, NEW G, NEW f, NEW g,
         Recursive(f, N, X, x0, F), Recursive(g, M, X, x0, G),
         \A k \in 1 .. M : F[k] = G[k]
  PROVE  \A k \in 0 .. M : f[k] = g[k]
<1> DEFINE S == {k \in 0 .. M : f[k] = g[k]}
<1>1. 0 \in S
  BY DEF Recursive
<1>2. ASSUME NEW k \in 1 .. M, k - 1 \in S PROVE k \in S
  <2>1. k \in 1 .. N /\ k \in 0 .. M
    OBVIOUS
  <2>2. f[k] = F[k][f[k - 1]] /\ g[k] = G[k][g[k - 1]]
    BY <2>1 DEF Recursive
  <2> QED BY <1>2, <2>1, <2>2
<1>3. 0 .. M \subseteq S
  <2> HIDE DEF S
  <2> QED BY <1>1, <1>2, BoundedInduction
<1> QED BY <1>3

\* The same without a bound.
Endless(X, x0, F) ==
  \E f \in [Nat -> X] : f[0] = x0 /\ \A k \in Nat : f[k + 1] = F[k + 1][f[k]]
LEMMA EndlessExists ==
  ASSUME NEW X, NEW x0 \in X, NEW F \in [Nat \ {0} -> [X -> X]]
  PROVE  Endless(X, x0, F)
<1> DEFINE Part(N) == [k \in 1 .. N |-> F[k]]
           G(N) == CHOOSE g : Recursive(g, N, X, x0, Part(N))
           f == [k \in Nat |-> G(k)[k]]
<1>1. ASSUME NEW N \in Nat PROVE Recursive(G(N), N, X, x0, Part(N))
  <2>1. Part(N) \in [1 .. N -> [X -> X]]
    OBVIOUS
  <2>2. \E g : Recursive(g, N, X, x0, Part(N))
    BY <2>1, RecursionExists DEF Recursion
  <2> HIDE DEF Part
  <2> QED BY <2>2
<1>2. ASSUME NEW N \in Nat
      PROVE  /\ G(N) \in [0 .. N -> X] /\ G(N)[0] = x0
             /\ \A k \in 1 .. N : G(N)[k] = F[k][G(N)[k - 1]]
  <2> HIDE DEF G
  <2> QED BY <1>1 DEF Recursive
<1>3. ASSUME NEW k \in Nat PROVE G(k + 1)[k] = G(k)[k]
  <2>1. Recursive(G(k + 1), k + 1, X, x0, Part(k + 1)) /\ Recursive(G(k), k, X, x0, Part(k))
    <3>1. k \in Nat /\ k + 1 \in Nat
      OBVIOUS
    <3> HIDE DEF G, Part
    <3> QED BY <1>1, <3>1
  <2>2. \A j \in 1 .. k : Part(k + 1)[j] = Part(k)[j]
    OBVIOUS
  <2>3. k \in 0 .. k + 1 /\ k + 1 \in Nat /\ k \in 0 .. k
    OBVIOUS
  <2> HIDE DEF Part, G
  <2>4. \A j \in 0 .. k : G(k + 1)[j] = G(k)[j]
    BY <2>1, <2>2, <2>3, RecursionAgrees
  <2> QED BY <2>3, <2>4
<1> HIDE DEF G
<1>4. f \in [Nat -> X] /\ f[0] = x0
  BY <1>2
<1>5. ASSUME NEW k \in Nat PROVE f[k + 1] = F[k + 1][f[k]]
  <2>1. k + 1 \in Nat /\ k + 1 \in 1 .. k + 1 /\ (k + 1) - 1 = k
    OBVIOUS
  <2>2. f[k + 1] = G(k + 1)[k + 1]
    BY <2>1
  <2>3. G(k + 1)[k + 1] = F[k + 1][G(k + 1)[k]]
    BY <1>2, <2>1
  <2> QED BY <1>3, <2>2, <2>3
<1> QED BY <1>4, <1>5 DEF Endless

\* The least number of a set.
LEMMA LeastOf ==
  ASSUME NEW S \in SUBSET Nat, S # {}
  PROVE  \E m \in S : \A k \in 0 .. m - 1 : k \notin S
<1> SUFFICES ASSUME \A m \in S : \E k \in 0 .. m - 1 : k \in S PROVE FALSE
  OBVIOUS
<1> DEFINE T == {n \in Nat : \A k \in 0 .. n : k \notin S}
<1>1. 0 \in T
  OBVIOUS
<1>2. \A n \in T : n + 1 \in T
  <2> SUFFICES ASSUME NEW n \in T PROVE \A k \in 0 .. n + 1 : k \notin S
    OBVIOUS
  <2>1. \A k \in 0 .. n : k \notin S
    OBVIOUS
  <2>2. n + 1 \notin S
    BY <2>1
  <2> QED BY <2>1, <2>2
<1>3. T = Nat
  <2>1. T \in SUBSET Nat
    OBVIOUS
  <2> HIDE DEF T
  <2> QED BY <1>1, <1>2, <2>1, SetInduction
<1>4. \A n \in Nat : n \notin S
  <2>1. ASSUME NEW n \in Nat PROVE n \notin S
    <3>1. n \in T /\ n \in 0 .. n
      BY <1>3
    <3> QED BY <3>1
  <2> QED BY <2>1
<1> QED BY <1>4
=============================================================================
