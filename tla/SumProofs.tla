------------------------------ MODULE SumProofs ------------------------------
(***************************************************************************)
(* Sums over finite sets: how the sum of a function changes with one of    *)
(* its values, with its domain, and with an order between two functions.   *)
(*                                                                         *)
(* The folds behind SumOver take the elements of a set one by one, each    *)
(* time the one that CHOOSE gives.  The lemmas rest on an induction in     *)
(* that order, FoldInduction, which follows from the well-foundedness of   *)
(* the strict subset ordering: a smallest set without the property would   *)
(* inherit it from the set without its chosen element.                     *)
(***************************************************************************)
EXTENDS Sums, FiniteSetTheorems, TLAPS

\* The element that the fold takes out of a set next.
Pick(s) == CHOOSE x \in s : TRUE

\* One step of the fold.
Step(f, g, s) == IF s = {} THEN 0 ELSE f[Pick(s)] + g[s \ {Pick(s)}]

\* g is the fold of f over the subsets of S.
IsFold(g, f, S) == g = [s \in SUBSET S |-> Step(f, g, s)]

Fold(f, S) == CHOOSE g : IsFold(g, f, S)

\* A sum is the fold at the whole domain.
LEMMA SumIsFold ==
  ASSUME NEW f PROVE SumOver(f) = Fold(f, DOMAIN f)[DOMAIN f]
  BY Zenon DEF SumOver, MapThenSumSet, MapThenFoldSet, Fold, IsFold, Step, Pick

\* The next element is one of the set.
LEMMA PickIn == ASSUME NEW s, s # {} PROVE Pick(s) \in s
  BY DEF Pick

\* A set of subsets of S, not empty, has a member that is smallest.
LEMMA Smallest ==
  ASSUME NEW S, IsFiniteSet(S), NEW B \in SUBSET (SUBSET S), B # {}
  PROVE  \E s \in B : \A u \in B : ~(u \subseteq s /\ u # s)
<1>1. IsWellFoundedOn(StrictSubsetOrdering(S), FiniteSubsetsOf(S))
  BY FS_StrictSubsetOrderingWellFounded
<1>2. B \subseteq FiniteSubsetsOf(S)
  BY FS_Subset DEF FiniteSubsetsOf
<1>3. PICK s \in B : \A u \in B : <<u, s>> \notin StrictSubsetOrdering(S)
  BY <1>1, <1>2, WFMin
<1>4. QED
  BY <1>3 DEF StrictSubsetOrdering

\* Two folds of f agree wherever both are defined.
LEMMA FoldsAgree ==
  ASSUME NEW f, NEW S, IsFiniteSet(S), NEW T, NEW g, NEW h,
         IsFold(g, f, S), IsFold(h, f, T)
  PROVE  \A s \in SUBSET S : s \subseteq T => g[s] = h[s]
<1> DEFINE B == {s \in SUBSET S : s \subseteq T /\ g[s] # h[s]}
<1> SUFFICES ASSUME B # {} PROVE FALSE
  OBVIOUS
<1>1. PICK s \in B : \A u \in B : ~(u \subseteq s /\ u # s)
  <2> HIDE DEF B
  <2>1. B \in SUBSET (SUBSET S)
    BY DEF B
  <2>2. QED
    BY <2>1, Smallest
<1>2. g[s] = Step(f, g, s) /\ h[s] = Step(f, h, s)
  BY DEF IsFold
<1>3. s # {}
  BY <1>2 DEF Step
<1>4. Pick(s) \in s
  BY <1>3, PickIn
<1>5. g[s \ {Pick(s)}] = h[s \ {Pick(s)}]
  <2> DEFINE u == s \ {Pick(s)}
  <2>1. u \subseteq s /\ u # s /\ u \in SUBSET S /\ u \subseteq T
    BY <1>4
  <2>2. u \notin B
    BY <1>1, <2>1
  <2>3. QED
    BY <2>1, <2>2
<1>6. QED
  BY <1>2, <1>5 DEF Step

\* The fold of f over the subsets of S exists.
LEMMA FoldExists ==
  ASSUME NEW f, NEW S, IsFiniteSet(S)
  PROVE  \E g : IsFold(g, f, S)
<1> DEFINE B == {s \in SUBSET S : ~ \E g : IsFold(g, f, s)}
<1>1. B = {}
  <2> SUFFICES ASSUME B # {} PROVE FALSE
    OBVIOUS
  <2>1. PICK s \in B : \A u \in B : ~(u \subseteq s /\ u # s)
    <3> HIDE DEF B
    <3>1. B \in SUBSET (SUBSET S)
      BY DEF B
    <3>2. QED
      BY <3>1, Smallest
  <2> DEFINE G(u) == CHOOSE g : IsFold(g, f, u)
             v == s \ {Pick(s)}
             F == [u \in SUBSET s |-> IF u # s THEN G(u)[u]
                                     ELSE IF s = {} THEN 0
                                     ELSE f[Pick(s)] + G(v)[v]]
  <2>2. ASSUME NEW u \in SUBSET s, u # s
        PROVE  IsFold(G(u), f, u) /\ IsFiniteSet(u)
    <3>1. u \notin B /\ u \in SUBSET S
      BY <2>1, <2>2
    <3>2. \E g : IsFold(g, f, u)
      BY <3>1
    <3>3. QED
      BY <3>1, <3>2, FS_Subset, Zenon
  <2>3. ASSUME NEW u \in SUBSET s
        PROVE  F[u] = Step(f, F, u)
    <3>1. CASE u = {}
      <4>1. CASE s = {}
        BY <3>1, <4>1 DEF Step
      <4>2. CASE s # {}
        <5>1. F[u] = G(u)[u]
          BY <3>1, <4>2
        <5>2. IsFold(G(u), f, u)
          BY <3>1, <4>2, <2>2
        <5>3. G(u)[u] = Step(f, G(u), u)
          <6> HIDE DEF G
          <6>1. u \in SUBSET u
            OBVIOUS
          <6>2. QED
            BY <5>2, <6>1 DEF IsFold
        <5>4. QED
          BY <5>1, <5>3, <3>1 DEF Step
      <4>3. QED
        BY <4>1, <4>2
    <3>2. CASE u # {}
      <4> DEFINE w == u \ {Pick(u)}
      <4>1. Pick(u) \in u
        BY <3>2, PickIn
      <4>2. w \in SUBSET s /\ w # s /\ w \in SUBSET u
        BY <4>1
      <4>3. F[w] = G(w)[w]
        BY <4>2
      <4>4. F[u] = f[Pick(u)] + G(w)[w]
        <5>1. CASE u = s
          BY <5>1, <3>2
        <5>2. CASE u # s
          <6>1. F[u] = G(u)[u]
            BY <5>2
          <6>2. IsFold(G(u), f, u) /\ IsFold(G(w), f, w) /\ IsFiniteSet(w)
            BY <5>2, <2>2, <4>2
          <6> HIDE DEF G, F, w
          <6>3. G(u)[u] = Step(f, G(u), u)
            <7>1. u \in SUBSET u
              OBVIOUS
            <7>2. QED
              BY <6>2, <7>1 DEF IsFold
          <6>4. G(w)[w] = G(u)[w]
            <7>1. w \in SUBSET w /\ w \subseteq u
              BY <4>2
            <7>2. QED
              BY <6>2, <7>1, FoldsAgree
          <6>5. QED
            BY <6>1, <6>3, <6>4, <3>2 DEF Step, w
        <5>3. QED
          BY <5>1, <5>2
      <4> HIDE DEF F, G
      <4>5. QED
        BY <3>2, <4>3, <4>4 DEF Step
    <3>3. QED
      BY <3>1, <3>2
  <2>4. IsFold(F, f, s)
    <3>1. F = [u \in SUBSET s |-> F[u]]
      OBVIOUS
    <3> HIDE DEF F
    <3>2. QED
      BY <2>3, <3>1 DEF IsFold
  <2>5. QED
    BY <2>1, <2>4
<1>2. S \notin B /\ S \in SUBSET S
  BY <1>1
<1>3. QED
  BY <1>2

\* What the fold of f over the subsets of S computes.
LEMMA FoldStep ==
  ASSUME NEW f, NEW S, IsFiniteSet(S), NEW s \in SUBSET S
  PROVE  Fold(f, S)[s] = Step(f, Fold(f, S), s)
<1>1. IsFold(Fold(f, S), f, S)
  <2>1. \E g : IsFold(g, f, S)
    BY FoldExists
  <2>2. QED
    BY <2>1, Zenon DEF Fold
<1>2. QED
  BY <1>1 DEF IsFold

\* Induction over the subsets of S in the order of the fold; G is the set of
\* those for which the claim holds.
LEMMA FoldInduction ==
  ASSUME NEW S, IsFiniteSet(S), NEW G, {} \in G,
         \A s \in SUBSET S : s # {} /\ s \ {Pick(s)} \in G => s \in G
  PROVE  \A s \in SUBSET S : s \in G
<1> DEFINE B == (SUBSET S) \ G
<1> SUFFICES ASSUME B # {} PROVE FALSE
  OBVIOUS
<1>1. PICK s \in B : \A u \in B : ~(u \subseteq s /\ u # s)
  <2> HIDE DEF B
  <2>1. B \in SUBSET (SUBSET S)
    BY DEF B
  <2>2. QED
    BY <2>1, Smallest
<1>2. s # {}
  OBVIOUS
<1>3. Pick(s) \in s
  BY <1>2, PickIn
<1>4. s \ {Pick(s)} \notin B
  BY <1>1, <1>3
<1>5. QED
  BY <1>2, <1>4

\* A fold of naturals is a natural.
LEMMA FoldNat ==
  ASSUME NEW S, IsFiniteSet(S), NEW f \in [S -> Nat]
  PROVE  \A s \in SUBSET S : Fold(f, S)[s] \in Nat
<1> DEFINE F == Fold(f, S)
           G == {s \in SUBSET S : F[s] \in Nat}
<1> HIDE DEF F
<1>1. \A s \in SUBSET S : F[s] = Step(f, F, s)
  BY FoldStep DEF F
<1>2. {} \in G
  <2>1. {} \in SUBSET S
    OBVIOUS
  <2>2. F[{}] = 0
    BY <1>1, <2>1 DEF Step
  <2>3. QED
    BY <2>1, <2>2
<1>3. \A s \in SUBSET S : s # {} /\ s \ {Pick(s)} \in G => s \in G
  BY <1>1, PickIn DEF Step
<1>4. \A s \in SUBSET S : s \in G
  <2> HIDE DEF G
  <2>1. QED
    BY <1>2, <1>3, FoldInduction
<1>5. QED
  BY <1>4 DEF F

\* The order in which the fold takes the elements does not matter.
LEMMA FoldRemove ==
  ASSUME NEW S, IsFiniteSet(S), NEW f \in [S -> Nat]
  PROVE  \A s \in SUBSET S, x \in S :
           x \in s => Fold(f, S)[s] = f[x] + Fold(f, S)[s \ {x}]
<1> DEFINE F == Fold(f, S)
           B == {s \in SUBSET S : \E x \in s : F[s] # f[x] + F[s \ {x}]}
<1> SUFFICES ASSUME B # {} PROVE FALSE
  OBVIOUS
<1>0. \A s \in SUBSET S : F[s] \in Nat
  BY FoldNat
<1> HIDE DEF F
<1>1. PICK s \in B : \A u \in B : ~(u \subseteq s /\ u # s)
  <2> HIDE DEF B
  <2>1. B \in SUBSET (SUBSET S)
    BY DEF B
  <2>2. QED
    BY <2>1, Smallest
<1>2. PICK x \in s : F[s] # f[x] + F[s \ {x}]
  OBVIOUS
<1> DEFINE y == Pick(s)
<1>3. y \in s /\ F[s] = f[y] + F[s \ {y}]
  <2>1. F[s] = Step(f, F, s)
    BY FoldStep DEF F
  <2>2. QED
    BY <2>1, PickIn DEF Step
<1> HIDE DEF y
<1>4. x # y
  BY <1>2, <1>3
<1>5. F[s \ {y}] = f[x] + F[(s \ {y}) \ {x}]
  <2>1. s \ {y} \notin B
    BY <1>1, <1>3
  <2>2. s \ {y} \in SUBSET S /\ x \in s \ {y}
    BY <1>2, <1>4
  <2>3. QED
    BY <2>1, <2>2
<1>6. F[s \ {x}] = f[y] + F[(s \ {x}) \ {y}]
  <2>1. s \ {x} \notin B
    BY <1>1, <1>2
  <2>2. s \ {x} \in SUBSET S /\ y \in s \ {x}
    BY <1>3, <1>4
  <2>3. QED
    BY <2>1, <2>2
<1>7. (s \ {x}) \ {y} = (s \ {y}) \ {x}
  OBVIOUS
<1>8. /\ F[(s \ {y}) \ {x}] \in Nat
      /\ f[x] \in Nat /\ f[y] \in Nat
  BY <1>0, <1>2, <1>3
<1>9. F[s \ {x}] = f[y] + F[(s \ {y}) \ {x}]
  BY <1>6, <1>7
<1> DEFINE rest == F[(s \ {y}) \ {x}]
<1>10. f[x] + (f[y] + rest) = f[y] + (f[x] + rest)
  <2>1. rest \in Nat
    BY <1>8
  <2> HIDE DEF rest
  <2>2. QED
    BY <1>8, <2>1
<1>11. QED
  BY <1>2, <1>3, <1>5, <1>9, <1>10

-----------------------------------------------------------------------------
(* Sums *)

\* A sum of naturals is a natural.
LEMMA SumNat ==
  ASSUME NEW S, IsFiniteSet(S), NEW f \in [S -> Nat]
  PROVE  SumOver(f) \in Nat
<1>1. DOMAIN f = S
  OBVIOUS
<1>2. QED
  BY <1>1, FoldNat, SumIsFold

\* A sum of zeros.
LEMMA SumZero ==
  ASSUME NEW S, IsFiniteSet(S), NEW f \in [S -> Nat], \A x \in S : f[x] = 0
  PROVE  SumOver(f) = 0
<1> DEFINE F == Fold(f, S)
           G == {s \in SUBSET S : F[s] = 0}
<1>0. SumOver(f) = F[S]
  <2>1. DOMAIN f = S
    OBVIOUS
  <2>2. QED
    BY <2>1, SumIsFold
<1> HIDE DEF F
<1>1. \A s \in SUBSET S : F[s] = Step(f, F, s)
  BY FoldStep DEF F
<1>2. {} \in G
  BY <1>1 DEF Step
<1>3. \A s \in SUBSET S : s # {} /\ s \ {Pick(s)} \in G => s \in G
  BY <1>1, PickIn DEF Step
<1>4. \A s \in SUBSET S : s \in G
  <2> HIDE DEF G
  <2>1. QED
    BY <1>2, <1>3, FoldInduction
<1>5. S \in SUBSET S
  OBVIOUS
<1>6. QED
  BY <1>0, <1>4, <1>5

\* Folds of functions that agree on the arguments in s.
LEMMA FoldSame ==
  ASSUME NEW S, IsFiniteSet(S), NEW f, NEW T, IsFiniteSet(T), NEW g,
         NEW s \in SUBSET S, s \subseteq T, \A x \in s : f[x] = g[x]
  PROVE  Fold(f, S)[s] = Fold(g, T)[s]
<1> DEFINE F == Fold(f, S)
           H == Fold(g, T)
           G == {u \in SUBSET s : F[u] = H[u]}
<1>0. IsFiniteSet(s)
  BY FS_Subset
<1> HIDE DEF F, H
<1>1. \A u \in SUBSET s : F[u] = Step(f, F, u) /\ H[u] = Step(g, H, u)
  BY FoldStep DEF F, H
<1>2. {} \in G
  BY <1>1 DEF Step
<1>3. \A u \in SUBSET s : u # {} /\ u \ {Pick(u)} \in G => u \in G
  BY <1>1, PickIn DEF Step
<1>4. \A u \in SUBSET s : u \in G
  <2> HIDE DEF G
  <2>1. QED
    BY <1>0, <1>2, <1>3, FoldInduction
<1>5. s \in SUBSET s
  OBVIOUS
<1>6. QED
  BY <1>4, <1>5 DEF F, H

\* Sums of functions that differ at one argument.
LEMMA SumExcept ==
  ASSUME NEW S, IsFiniteSet(S), NEW f \in [S -> Nat], NEW g \in [S -> Nat],
         NEW x \in S, \A y \in S \ {x} : f[y] = g[y]
  PROVE  SumOver(g) = SumOver(f) - f[x] + g[x]
<1> DEFINE F == Fold(f, S)
           G == Fold(g, S)
           s == S \ {x}
<1>1. DOMAIN f = S /\ DOMAIN g = S /\ S \in SUBSET S /\ s \in SUBSET S
  OBVIOUS
<1>2. /\ SumOver(f) = F[S] /\ SumOver(g) = G[S]
      /\ F[S] = f[x] + F[s] /\ G[S] = g[x] + G[s]
      /\ F[s] \in Nat /\ G[s] \in Nat
  BY <1>1, SumIsFold, FoldRemove, FoldNat
<1>3. F[s] = G[s]
  BY <1>1, FoldSame
<1> HIDE DEF F, G, s
<1>4. QED
  BY <1>2, <1>3

\* The sum of a function with one argument more.
LEMMA SumExtend ==
  ASSUME NEW T, IsFiniteSet(T), NEW x \in T, NEW S \in SUBSET T, x \notin S,
         \A y \in T : y = x \/ y \in S,
         NEW f \in [S -> Nat], NEW g \in [T -> Nat], \A y \in S : f[y] = g[y]
  PROVE  SumOver(g) = SumOver(f) + g[x]
<1> DEFINE F == Fold(f, S)
           G == Fold(g, T)
<1>1. /\ DOMAIN f = S /\ DOMAIN g = T /\ S \in SUBSET S
      /\ S \in SUBSET T /\ T \in SUBSET T /\ T \ {x} = S /\ x \in T
  OBVIOUS
<1>2. IsFiniteSet(S)
  BY FS_Subset
<1>3. SumOver(f) = F[S] /\ SumOver(g) = G[T]
  BY <1>1, SumIsFold
<1>4. G[T] = g[x] + G[S] /\ G[S] \in Nat
  <2>1. g \in [T -> Nat]
    OBVIOUS
  <2>2. \A s \in SUBSET T, y \in T : y \in s => G[s] = g[y] + G[s \ {y}]
    BY <1>2, <2>1, FoldRemove
  <2>3. \A s \in SUBSET T : G[s] \in Nat
    BY <1>2, <2>1, FoldNat
  <2> HIDE DEF G
  <2>4. G[T] = g[x] + G[T \ {x}]
    BY <1>1, <2>2
  <2>5. QED
    BY <1>1, <2>3, <2>4
<1>5. F[S] = G[S]
  BY <1>1, <1>2, FoldSame
<1>6. g[x] \in Nat
  OBVIOUS
<1> HIDE DEF F, G
<1>7. QED
  BY <1>3, <1>4, <1>5, <1>6

\* The sum over a sequence with one element more.
LEMMA SumLonger ==
  ASSUME NEW n \in Nat, NEW f, NEW g
  PROVE  /\ f \in [1 .. n -> Nat] /\ g \in [1 .. n + 1 -> Nat]
         /\ \A k \in 1 .. n : f[k] = g[k]
         => SumOver(g) = SumOver(f) + g[n + 1]
<1> DEFINE S == 1 .. n
           T == 1 .. n + 1
           x == n + 1
<1>1. IsFiniteSet(T)
  BY FS_Interval
<1>2. /\ x \in T /\ S \in SUBSET T /\ x \notin S
      /\ \A y \in T : y = x \/ y \in S
  OBVIOUS
<1> HIDE DEF S, T, x
<1>3. ASSUME f \in [S -> Nat], g \in [T -> Nat], \A y \in S : f[y] = g[y]
      PROVE  SumOver(g) = SumOver(f) + g[x]
  BY <1>1, <1>2, <1>3, SumExtend
<1>4. QED
  BY <1>3 DEF S, T, x

\* A sum is at most another one that is so at every argument.
LEMMA SumLeq ==
  ASSUME NEW S, IsFiniteSet(S), NEW f \in [S -> Nat], NEW g \in [S -> Nat],
         \A x \in S : f[x] <= g[x]
  PROVE  SumOver(f) <= SumOver(g)
<1> DEFINE F == Fold(f, S)
           H == Fold(g, S)
           G == {s \in SUBSET S : F[s] <= H[s]}
<1>0. /\ SumOver(f) = F[S] /\ SumOver(g) = H[S]
      /\ \A s \in SUBSET S : F[s] \in Nat /\ H[s] \in Nat
  <2>1. DOMAIN f = S /\ DOMAIN g = S
    OBVIOUS
  <2>2. QED
    BY <2>1, SumIsFold, FoldNat
<1> HIDE DEF F, H
<1>1. \A s \in SUBSET S : F[s] = Step(f, F, s) /\ H[s] = Step(g, H, s)
  BY FoldStep DEF F, H
<1>2. {} \in G
  BY <1>1 DEF Step
<1>3. \A s \in SUBSET S : s # {} /\ s \ {Pick(s)} \in G => s \in G
  <2> SUFFICES ASSUME NEW s \in SUBSET S, s # {}, F[s \ {Pick(s)}] <= H[s \ {Pick(s)}]
               PROVE  F[s] <= H[s]
    OBVIOUS
  <2>1. Pick(s) \in s
    BY PickIn
  <2>2. s \ {Pick(s)} \in SUBSET S
    OBVIOUS
  <2>3. /\ F[s] = f[Pick(s)] + F[s \ {Pick(s)}]
        /\ H[s] = g[Pick(s)] + H[s \ {Pick(s)}]
    BY <1>1 DEF Step
  <2>4. /\ f[Pick(s)] \in Nat /\ g[Pick(s)] \in Nat /\ f[Pick(s)] <= g[Pick(s)]
        /\ F[s \ {Pick(s)}] \in Nat /\ H[s \ {Pick(s)}] \in Nat
    BY <1>0, <2>1, <2>2
  <2>5. QED
    BY <2>3, <2>4
<1>4. \A s \in SUBSET S : s \in G
  <2> HIDE DEF G
  <2>1. QED
    BY <1>2, <1>3, FoldInduction
<1>5. S \in SUBSET S
  OBVIOUS
<1>6. QED
  BY <1>0, <1>4, <1>5

\* The sum over a sequence, its head taken off.
LEMMA SumTail ==
  ASSUME NEW n \in Nat, NEW f \in [1 .. n + 1 -> Nat], NEW g \in [1 .. n -> Nat],
         \A k \in 1 .. n : g[k] = f[k + 1]
  PROVE  SumOver(f) = f[1] + SumOver(g)
<1> DEFINE S == 1 .. n + 1
           T == 1 .. n
           F == Fold(f, S)
           H == Fold(g, T)
           Shift(s) == {k + 1 : k \in s}
           G == {s \in SUBSET T : H[s] = F[Shift(s)]}
<1>0. IsFiniteSet(S) /\ IsFiniteSet(T)
  BY FS_Interval
<1>1. SumOver(f) = F[S] /\ SumOver(g) = H[T]
  <2>1. DOMAIN f = S /\ DOMAIN g = T
    OBVIOUS
  <2>2. QED
    BY <2>1, SumIsFold
<1>2. \A s \in SUBSET T : H[s] = Step(g, H, s)
  BY <1>0, FoldStep
<1>3. F[{}] = 0
  BY <1>0, FoldStep DEF Step
<1>4. \A s \in SUBSET S, x \in S : x \in s => F[s] = f[x] + F[s \ {x}]
  BY <1>0, FoldRemove
<1> HIDE DEF F, H
<1>5. {} \in G
  <2>1. Shift({}) = {}
    OBVIOUS
  <2>2. QED
    BY <1>2, <1>3, <2>1 DEF Step
<1>6. \A s \in SUBSET T : s # {} /\ s \ {Pick(s)} \in G => s \in G
  <2> SUFFICES ASSUME NEW s \in SUBSET T, s # {}, s \ {Pick(s)} \in G
               PROVE  H[s] = F[Shift(s)]
    OBVIOUS
  <2> DEFINE x == Pick(s)
  <2>1. x \in s
    BY PickIn
  <2>2. H[s] = g[x] + H[s \ {x}]
    BY <1>2 DEF Step
  <2> HIDE DEF x
  <2>3. H[s \ {x}] = F[Shift(s \ {x})]
    BY DEF x
  <2>4. Shift(s) \in SUBSET S /\ x + 1 \in S /\ x + 1 \in Shift(s)
    <3>1. \A k \in s : k + 1 \in S
      OBVIOUS
    <3>2. QED
      BY <2>1, <3>1, Zenon
  <2>5. Shift(s) \ {x + 1} = Shift(s \ {x})
    <3>1. \A k \in s : k + 1 = x + 1 <=> k = x
      BY <2>1
    <3>2. QED
      BY <3>1, Zenon
  <2>6. F[Shift(s)] = f[x + 1] + F[Shift(s) \ {x + 1}]
    BY <1>4, <2>4
  <2>7. g[x] = f[x + 1]
    BY <2>1
  <2> HIDE DEF Shift
  <2>8. QED
    BY <2>2, <2>3, <2>5, <2>6, <2>7
<1>7. \A s \in SUBSET T : s \in G
  <2> HIDE DEF G
  <2>1. QED
    BY <1>0, <1>5, <1>6, FoldInduction
<1>8. H[T] = F[Shift(T)]
  BY <1>7
<1>9. Shift(T) = S \ {1}
  <2>1. ASSUME NEW k \in S \ {1} PROVE k \in Shift(T)
    <3>1. k - 1 \in T /\ k = (k - 1) + 1
      OBVIOUS
    <3>2. QED
      BY <3>1, Zenon
  <2>2. ASSUME NEW k \in T PROVE k + 1 \in S \ {1}
    OBVIOUS
  <2>3. QED
    BY <2>1, <2>2, Zenon
<1>10. 1 \in S /\ S \in SUBSET S
  OBVIOUS
<1>11. F[S] = f[1] + F[S \ {1}]
  BY <1>4, <1>10
<1> HIDE DEF Shift
<1>12. QED
  BY <1>1, <1>8, <1>9, <1>11
=============================================================================
