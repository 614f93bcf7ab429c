--------------------------- MODULE IntervalValue ---------------------------
(***************************************************************************)
(* Intervals of integers with infinite bounds and the operations on them.  *)
(* A bound is an integer from -Inf to Inf; the two ends stand for the      *)
(* infinities, and a sum or product beyond them saturates, as one beyond   *)
(* 64 bits does in BoundedInt.                                             *)
(***************************************************************************)
EXTENDS Integers, FiniteSetsExt

CONSTANT Inf   \* the bound that stands for infinity

ASSUME IntervalAssumption == Inf \in Nat \ {0, 1}

Bound == -Inf..Inf
Itv(l, u) == [lb |-> l, ub |-> u]
Top == Itv(-Inf, Inf)
Bottom == Itv(Inf, -Inf)
Num(c) == Itv(c, c)
Interval == {i \in [lb : Bound, ub : Bound] : i.lb <= i.ub} \union {Bottom}

isBottom(i) == i = Bottom
isTop(i) == i = Top
is_numeral(i) == i.lb = i.ub
contains(i, c) == i.lb <= c /\ c <= i.ub
isInfinite(b) == b \in {-Inf, Inf}

MinOf(a, b) == IF a <= b THEN a ELSE b
MaxOf(a, b) == IF a <= b THEN b ELSE a
Saturated(x) == MaxOf(-Inf, MinOf(Inf, x))

-----------------------------------------------------------------------------
(* The lattice. *)
JoinAll(I) ==
    IF I \subseteq {Bottom} THEN Bottom
    ELSE Itv(Min({i.lb : i \in I \ {Bottom}}), Max({i.ub : i \in I \ {Bottom}}))
Join(i, j) == JoinAll({i, j})

create(l, u) == IF l <= u THEN Itv(l, u) ELSE Bottom

Meet(i, j) ==
    IF isBottom(i) \/ isBottom(j) THEN Bottom
    ELSE create(MaxOf(i.lb, j.lb), MinOf(i.ub, j.ub))

(* widen_with: a bound that moved becomes infinite. *)
Widen(i, j) ==
    IF isBottom(i) THEN j ELSE IF isBottom(j) THEN i
    ELSE Itv(IF i.lb <= j.lb THEN i.lb ELSE -Inf, IF i.ub >= j.ub THEN i.ub ELSE Inf)

(* narrow_with: an infinite bound is replaced. *)
Narrow(i, j) ==
    IF isBottom(i) \/ isBottom(j) THEN Bottom
    ELSE Itv(IF isInfinite(i.lb) THEN j.lb ELSE i.lb,
             IF isInfinite(i.ub) THEN j.ub ELSE i.ub)

-----------------------------------------------------------------------------
(* Arithmetic.  C++ division and remainder truncate towards zero. *)
Abs(x) == IF x < 0 THEN -x ELSE x
Sign(x) == IF x < 0 THEN -1 ELSE IF x > 0 THEN 1 ELSE 0
Quot(x, y) == Sign(x) * Sign(y) * (Abs(x) \div Abs(y))
Rest(x, y) == x - y * Quot(x, y)

mul(x, y) == IF x = 0 \/ y = 0 THEN 0
             ELSE IF isInfinite(x) \/ isInfinite(y) THEN Sign(x) * Sign(y) * Inf
             ELSE Saturated(x * y)
div(x, y) == IF isInfinite(x) /\ isInfinite(y) THEN IF x = y THEN Inf ELSE -Inf
             ELSE IF isInfinite(y) THEN 0
             ELSE IF isInfinite(x) THEN IF y >= 0 THEN x ELSE -x
             ELSE Quot(x, y)

(* safeAdd; adding infinities of opposite signs is an assertion failure.     *)
add(x, y) == IF Inf \in {x, y} THEN Inf ELSE IF -Inf \in {x, y} THEN -Inf
             ELSE Saturated(x + y)

Hull(S) == Itv(Min(S), Max(S))
Corners(f(_, _), i, j) == Hull({f(i.lb, j.lb), f(i.lb, j.ub), f(i.ub, j.lb), f(i.ub, j.ub)})
Strict(f(_, _), i, j) == IF isBottom(i) \/ isBottom(j) THEN Bottom ELSE f(i, j)

Add(i, j) == IF isTop(i) \/ isTop(j) THEN Top ELSE Itv(add(i.lb, j.lb), add(i.ub, j.ub))
MutSubBounds(i, j) ==   \* a broken variant: bounds paired as in an addition
    IF isTop(i) \/ isTop(j) THEN Top ELSE Itv(add(i.lb, -j.lb), add(i.ub, -j.ub))
Sub(i, j) == IF isTop(i) \/ isTop(j) THEN Top ELSE Itv(add(i.lb, -j.ub), add(i.ub, -j.lb))
Mul(i, j) == Corners(mul, i, j)

(* Division splits either operand around zero. *)
Negative(i) == create(i.lb, -1)
Positive(i) == create(1, i.ub)
DivNonZero(i, j) == Corners(div, i, j)
DivBy(i, j) ==
    IF contains(i, 0)
    THEN Join(Join(Strict(DivNonZero, Negative(i), j), Strict(DivNonZero, Positive(i), j)),
              Num(0))
    ELSE DivNonZero(i, j)
Div(i, j) ==
    IF contains(j, 0)
    THEN Join(Strict(DivBy, i, Negative(j)), Strict(DivBy, i, Positive(j)))
    ELSE DivBy(i, j)

Rem(i, j) ==
    IF contains(j, 0) THEN IF i = Num(0) THEN Num(0) ELSE Top
    ELSE IF is_numeral(i) /\ is_numeral(j) THEN Num(Rest(i.lb, j.lb))
    ELSE LET u == MinOf(MaxOf(Abs(i.lb), Abs(i.ub)),
                        add(MaxOf(Abs(j.lb), j.ub), -1)) IN
         IF i.lb >= 0 THEN Itv(0, u) ELSE IF i.ub > 0 THEN Itv(-u, u) ELSE Itv(-u, 0)

(* The result of an operation on two intervals. *)
Apply(op, i, j) ==
    CASE op = "add" -> Strict(Add, i, j)
      [] op = "sub" -> Strict(Sub, i, j)
      [] op = "mul" -> Strict(Mul, i, j)
      [] op = "div" -> Strict(Div, i, j)
      [] op = "rem" -> Strict(Rem, i, j)

-----------------------------------------------------------------------------
(* Comparisons give an interval within [0,1], or an infinite one. *)
Lt(i, j) ==
    IF isTop(i) \/ isTop(j) THEN Top
    ELSE IF i.ub < j.lb THEN Num(1) ELSE IF i.lb >= j.ub THEN Num(0) ELSE Itv(0, 1)
Le(i, j) ==
    IF isTop(i) \/ isTop(j) THEN Top
    ELSE IF i.ub <= j.lb THEN Num(1) ELSE IF i.lb > j.ub THEN Num(0) ELSE Itv(0, 1)
Eq(i, j) ==
    IF isTop(i) \/ isTop(j) THEN Top
    ELSE IF is_numeral(i) /\ is_numeral(j) THEN Num(IF i = j THEN 1 ELSE 0)
    ELSE IF isBottom(Meet(i, j)) THEN Num(0) ELSE Itv(0, 1)
Not(i) == IF isTop(i) \/ isBottom(i) THEN i ELSE Itv(1 - i.ub, 1 - i.lb)

Compare(pred, i, j) ==
    CASE pred = "eq" -> Strict(Eq, i, j)
      [] pred = "ne" -> Not(Strict(Eq, i, j))
      [] pred = "lt" -> Strict(Lt, i, j)
      [] pred = "ge" -> Not(Strict(Lt, i, j))
      [] pred = "le" -> Strict(Le, i, j)
      [] pred = "gt" -> Not(Strict(Le, i, j))
=============================================================================
