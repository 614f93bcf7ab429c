-------------------------- MODULE Iteration_proofs --------------------------
(***************************************************************************)
(* Repeating a step until nothing changes.  The reference definitions of   *)
(* the models are recursive functions of the form                          *)
(*     grow[x \in D] == IF F(x) = x THEN x ELSE grow[F(x)];                *)
(* here is what such a function returns, for every F.                      *)
(***************************************************************************)
EXTENDS Naturals, FiniteSets, TLAPS, FiniteSetTheorems, WellFoundedInduction

ClosedUnder(F, K) == \A z \in K : F[z] \in K
\* The elements of D that iterating F from x passes through.
Orbit(D, F, x) == {y \in D : \A K \in SUBSET D : x \in K /\ ClosedUnder(F, K) => y \in K}
Iterates(D, F, g) == g = [x \in D |-> IF F[x] = x THEN x ELSE g[F[x]]]

LEMMA OrbitClosed ==
    ASSUME NEW D, NEW F \in [D -> D], NEW x \in D
    PROVE  x \in Orbit(D, F, x) /\ ClosedUnder(F, Orbit(D, F, x))
  BY DEF Orbit, ClosedUnder

LEMMA OrbitSteps ==
    ASSUME NEW D, NEW F \in [D -> D], NEW x \in D, NEW y \in Orbit(D, F, x), y # x
    PROVE  y \in Orbit(D, F, F[x])
  <1> SUFFICES ASSUME NEW K \in SUBSET D, F[x] \in K, ClosedUnder(F, K) PROVE y \in K
    BY DEF Orbit
  <1>1. x \in K \union {x} /\ ClosedUnder(F, K \union {x}) /\ K \union {x} \in SUBSET D
    BY DEF ClosedUnder
  <1> QED
    BY <1>1 DEF Orbit

LEMMA OrbitInherited ==
    ASSUME NEW D, NEW F \in [D -> D], NEW x \in D, NEW y \in Orbit(D, F, F[x])
    PROVE  y \in Orbit(D, F, x)
  BY DEF Orbit, ClosedUnder

(* The orbit of x meets at most one element that F leaves alone. *)
LEMMA OneEnd ==
    ASSUME NEW D, NEW F \in [D -> D], NEW x \in D,
           NEW y \in Orbit(D, F, x), F[y] = y, NEW z \in Orbit(D, F, x), F[z] = z
    PROVE  y = z
  <1> DEFINE K == {w \in D : y \in Orbit(D, F, w)}
  <1>1. ClosedUnder(F, K)
    <2> SUFFICES ASSUME NEW w \in K PROVE F[w] \in K
      BY DEF ClosedUnder
    <2>1. CASE w = y
      BY <2>1
    <2>2. CASE w # y
      BY <2>2, OrbitSteps
    <2> QED
      BY <2>1, <2>2
  <1>2. z \in K
    BY <1>1 DEF Orbit
  <1>3. z \in {z} /\ ClosedUnder(F, {z}) /\ {z} \in SUBSET D
    BY DEF ClosedUnder, Orbit
  <1> QED
    BY <1>2, <1>3 DEF Orbit

(* There is a function that satisfies the recursive equation, whatever F is. *)
LEMMA GrowExists ==
    ASSUME NEW D, NEW F \in [D -> D]
    PROVE  \E g : Iterates(D, F, g)
  <1> DEFINE End(x, y) == y \in Orbit(D, F, x) /\ F[y] = y
             none == CHOOSE c : TRUE
             g == [x \in D |-> IF \E y : End(x, y) THEN CHOOSE y : End(x, y) ELSE none]
  <1>1. \A x \in D : \A y : End(x, y) => End(F[x], y) /\ g[x] = y
    <2> SUFFICES ASSUME NEW x \in D, NEW y, End(x, y) PROVE End(F[x], y) /\ g[x] = y
      OBVIOUS
    <2>1. End(x, CHOOSE z : End(x, z))
      OBVIOUS
    <2>2. g[x] = y
      BY <2>1, OneEnd
    <2>3. y \in Orbit(D, F, F[x])
      <3>1. CASE y = x
        BY <3>1
      <3>2. CASE y # x
        BY <3>2, OrbitSteps
      <3> QED
        BY <3>1, <3>2
    <2> QED
      BY <2>2, <2>3
  <1>2. \A x \in D : \A y : End(F[x], y) => End(x, y)
    BY OrbitInherited
  <1>3. ASSUME NEW x \in D
        PROVE  g[x] = IF F[x] = x THEN x ELSE g[F[x]]
    <2>1. CASE F[x] = x
      <3>1. End(x, x)
        BY <2>1, OrbitClosed
      <3> QED
        BY <1>1, <2>1, <3>1
    <2>2. CASE F[x] # x
      <3>1. CASE \E y : End(x, y)
        BY <1>1, <2>2, <3>1
      <3>2. CASE ~\E y : End(x, y)
        BY <1>2, <2>2, <3>2
      <3> QED
        BY <3>1, <3>2
    <2> QED
      BY <2>1, <2>2
  <1> HIDE DEF End, none
  <1>4. g = [x \in D |-> IF F[x] = x THEN x ELSE g[F[x]]]
    <2>1. [x \in D |-> g[x]] = [x \in D |-> IF F[x] = x THEN x ELSE g[F[x]]]
      BY <1>3
    <2>2. g = [x \in D |-> g[x]]
      OBVIOUS
    <2> HIDE DEF g
    <2> QED
      BY <2>1, <2>2
  <1> HIDE DEF g
  <1> QED
    BY <1>4 DEF Iterates

(* If something in a finite set grows with every step that changes anything, *)
(* the iteration ends, in every set that is closed under F, with an element  *)
(* F leaves alone.                                                           *)
LEMMA GrowEnds ==
    ASSUME NEW D, NEW F \in [D -> D], NEW g, Iterates(D, F, g), NEW K \in SUBSET D, ClosedUnder(F, K),
           NEW U, IsFiniteSet(U), NEW size \in [D -> SUBSET U],
           \A z \in K : F[z] # z => size[z] \subseteq size[F[z]] /\ size[z] # size[F[z]],
           NEW x \in K
    PROVE  g[x] \in K /\ F[g[x]] = g[x]
  <1> DEFINE Bad == {z \in K : ~(g[z] \in K /\ F[g[z]] = g[z])}
             Rest == {U \ size[z] : z \in Bad}
  <1>1. SUFFICES ASSUME x \in Bad PROVE FALSE
    OBVIOUS
  <1>2. Rest \subseteq SUBSET U /\ Rest # {}
    <2>1. \A z \in Bad : U \ size[z] \in Rest /\ U \ size[z] \in SUBSET U
      OBVIOUS
    <2>2. Rest # {}
      BY <1>1, <2>1
    <2>3. \A R \in Rest : \E z \in Bad : R = U \ size[z]
      OBVIOUS
    <2> HIDE DEF Rest
    <2> QED
      BY <2>1, <2>2, <2>3
  <1>3. PICK R \in Rest : \A Q \in Rest : ~(<<Q, R>> \in StrictSubsetOrdering(U))
    <2>1. IsWellFoundedOn(StrictSubsetOrdering(U), FiniteSubsetsOf(U)) /\ FiniteSubsetsOf(U) = SUBSET U
      BY FS_StrictSubsetOrderingWellFounded, FS_FiniteSubsetsOfFinite
    <2> HIDE DEF Rest
    <2>2. Rest \subseteq FiniteSubsetsOf(U)
      BY <1>2, <2>1
    <2> QED
      BY <1>2, <2>1, <2>2, WFMin
  <1>4. PICK z \in Bad : R = U \ size[z]
    OBVIOUS
  <1>5. z \in D /\ F[z] \in K /\ F[z] \in D /\ g[z] = IF F[z] = z THEN z ELSE g[F[z]]
    BY DEF ClosedUnder, Iterates
  <1>6. F[z] # z
    BY <1>4, <1>5
  <1>7. F[z] \in Bad
    BY <1>4, <1>5, <1>6
  <1>8. size[z] \subseteq U /\ size[F[z]] \subseteq U /\ size[z] \subseteq size[F[z]] /\ size[z] # size[F[z]]
    BY <1>4, <1>5, <1>6
  <1>9. <<U \ size[F[z]], U \ size[z]>> \in StrictSubsetOrdering(U)
    BY <1>8 DEF StrictSubsetOrdering
  <1> QED
    BY <1>3, <1>4, <1>7, <1>9
=============================================================================
