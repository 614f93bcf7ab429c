------------------------- MODULE ProgramRun_proofs -------------------------
(***************************************************************************)
(* Proofs about the operations the abstract execution is built from, for   *)
(* every value of Inf, that is, every width of the bounds: sums, meets and *)
(* joins of intervals enclose the concrete ones and comparisons answer for *)
(* them, the state a branch is given describes every run that takes it,    *)
(* and widening stops only at a state that holds the next one. The second  *)
(* half proves, for every program, that initWTO orders its nodes right.    *)
(***************************************************************************)
EXTENDS ProgramRun, TLAPS, WellFoundedInduction, FiniteSetTheorems,
        SequenceTheorems

\* The concrete values of an interval: an infinite bound bounds nothing.
AtLeast(l, c) == l = -Inf \/ l <= c
AtMost(u, c) == u = Inf \/ c <= u
Denotes(i, c) == AtLeast(i.lb, c) /\ AtMost(i.ub, c)

\* Intervals that are neither empty nor beyond one of the infinities.
LowerBound == -Inf..(Inf - 1)
UpperBound == (1 - Inf)..Inf
Proper == {i \in Interval \ {Bottom} : i.lb \in LowerBound /\ i.ub \in UpperBound}

LEMMA ProperBounds ==
    ASSUME NEW i \in Proper
    PROVE  /\ i = Itv(i.lb, i.ub) /\ i.lb \in LowerBound /\ i.ub \in UpperBound
           /\ i.lb <= i.ub /\ ~isBottom(i)
BY IntervalAssumption DEF Proper, Interval, Bound, Itv, isBottom

\* BoundedInt::safeAdd on two lower and on two upper bounds.
LEMMA AddLower ==
    ASSUME NEW x \in LowerBound, NEW y \in LowerBound, NEW a \in Int, NEW b \in Int,
           AtLeast(x, a), AtLeast(y, b)
    PROVE  AtLeast(add(x, y), a + b)
<1>1. CASE -Inf \in {x, y}
  BY <1>1, IntervalAssumption DEF add, AtLeast, LowerBound
<1>2. CASE -Inf \notin {x, y}
  BY <1>2, IntervalAssumption DEF add, AtLeast, LowerBound, Saturated, MaxOf, MinOf
<1> QED BY <1>1, <1>2

LEMMA AddUpper ==
    ASSUME NEW x \in UpperBound, NEW y \in UpperBound, NEW a \in Int, NEW b \in Int,
           AtMost(x, a), AtMost(y, b)
    PROVE  AtMost(add(x, y), a + b)
<1>1. CASE Inf \in {x, y}
  BY <1>1, IntervalAssumption DEF add, AtMost, UpperBound
<1>2. CASE Inf \notin {x, y}
  BY <1>2, IntervalAssumption DEF add, AtMost, UpperBound, Saturated, MaxOf, MinOf
<1> QED BY <1>1, <1>2

\* The negation of a bound bounds the negations from the other side.
LEMMA NegatedBounds ==
    ASSUME NEW i \in Proper, NEW c \in Int, Denotes(i, c)
    PROVE  /\ -i.ub \in LowerBound /\ -i.lb \in UpperBound
           /\ AtLeast(-i.ub, -c) /\ AtMost(-i.lb, -c)
<1>1. i.lb \in LowerBound /\ i.ub \in UpperBound
  BY ProperBounds
<1> QED BY <1>1, IntervalAssumption DEF Denotes, AtLeast, AtMost, LowerBound, UpperBound

LEMMA TopDenotesAll == ASSUME NEW c \in Int PROVE Denotes(Top, c)
BY DEF Denotes, AtLeast, AtMost, Top, Itv

\* The sum of two values lies in the sum of their intervals, however bounds
\* saturate (IntervalValue::operator+).
THEOREM AddEncloses ==
    ASSUME NEW i \in Proper, NEW j \in Proper, NEW a \in Int, NEW b \in Int,
           Denotes(i, a), Denotes(j, b)
    PROVE  Denotes(Add(i, j), a + b)
<1>1. CASE isTop(i) \/ isTop(j)
  BY <1>1, TopDenotesAll DEF Add
<1>2. CASE ~(isTop(i) \/ isTop(j))
  <2>1. Add(i, j).lb = add(i.lb, j.lb) /\ Add(i, j).ub = add(i.ub, j.ub)
    BY <1>2 DEF Add, Itv
  <2>2. AtLeast(add(i.lb, j.lb), a + b)
    BY ProperBounds, AddLower DEF Denotes
  <2>3. AtMost(add(i.ub, j.ub), a + b)
    BY ProperBounds, AddUpper DEF Denotes
  <2> QED BY <2>1, <2>2, <2>3 DEF Denotes
<1> QED BY <1>1, <1>2

\* The same of differences (IntervalValue::operator-).
THEOREM SubEncloses ==
    ASSUME NEW i \in Proper, NEW j \in Proper, NEW a \in Int, NEW b \in Int,
           Denotes(i, a), Denotes(j, b)
    PROVE  Denotes(Sub(i, j), a - b)
<1>1. CASE isTop(i) \/ isTop(j)
  BY <1>1, TopDenotesAll DEF Sub
<1>2. CASE ~(isTop(i) \/ isTop(j))
  <2>1. Sub(i, j).lb = add(i.lb, -j.ub) /\ Sub(i, j).ub = add(i.ub, -j.lb)
    BY <1>2 DEF Sub, Itv
  <2>2. -b \in Int /\ a + (-b) = a - b
    OBVIOUS
  <2>3. AtLeast(add(i.lb, -j.ub), a + (-b))
    BY <2>2, ProperBounds, NegatedBounds, AddLower DEF Denotes
  <2>4. AtMost(add(i.ub, -j.lb), a + (-b))
    BY <2>2, ProperBounds, NegatedBounds, AddUpper DEF Denotes
  <2> QED BY <2>1, <2>2, <2>3, <2>4 DEF Denotes
<1> QED BY <1>1, <1>2

\* A value of both intervals is one of their meet (IntervalValue::meet_with).
LEMMA MeetKeeps ==
    ASSUME NEW i, i.lb \in Bound, i.ub \in Bound, NEW j, j.lb \in Bound, j.ub \in Bound,
           NEW c \in Int, Denotes(i, c), Denotes(j, c)
    PROVE  Denotes(Meet(i, j), c) /\ ~isBottom(Meet(i, j))
<1>1. ~isBottom(i) /\ ~isBottom(j)
  BY IntervalAssumption DEF Denotes, AtLeast, AtMost, isBottom, Bottom, Itv, Bound
<1> DEFINE l == MaxOf(i.lb, j.lb)
           u == MinOf(i.ub, j.ub)
<1>2. AtLeast(l, c) /\ AtMost(u, c) /\ l \in Bound /\ u \in Bound
  BY DEF Denotes, AtLeast, AtMost, MaxOf, MinOf, Bound
<1>3. l <= u /\ ~(l = Inf /\ u = -Inf)
  BY <1>2, IntervalAssumption DEF AtLeast, AtMost, Bound
<1>4. Meet(i, j) = Itv(l, u)
  BY <1>1, <1>3 DEF Meet, create
<1> HIDE DEF l, u
<1> QED BY <1>2, <1>3, <1>4, IntervalAssumption DEF Denotes, isBottom, Bottom, Itv

\* Whatever one of two states allows, their widening allows, and a bound of it
\* is the old one or infinite (IntervalValue::widen_with).
THEOREM WidenEncloses ==
    ASSUME NEW i \in Proper, NEW j \in Proper, NEW c \in Int, Denotes(i, c) \/ Denotes(j, c)
    PROVE  /\ Denotes(Widen(i, j), c)
           /\ Widen(i, j).lb \in {i.lb, -Inf} /\ Widen(i, j).ub \in {i.ub, Inf}
<1>1. i.lb \in LowerBound /\ j.lb \in LowerBound /\ i.ub \in UpperBound /\ j.ub \in UpperBound
      /\ ~isBottom(i) /\ ~isBottom(j)
  BY ProperBounds
<1>2. /\ Widen(i, j).lb = IF i.lb <= j.lb THEN i.lb ELSE -Inf
      /\ Widen(i, j).ub = IF i.ub >= j.ub THEN i.ub ELSE Inf
  BY <1>1 DEF Widen, Itv
<1>3. AtLeast(Widen(i, j).lb, c) /\ Widen(i, j).lb \in {i.lb, -Inf}
  BY <1>1, <1>2, IntervalAssumption DEF Denotes, AtLeast, LowerBound
<1>4. AtMost(Widen(i, j).ub, c) /\ Widen(i, j).ub \in {i.ub, Inf}
  BY <1>1, <1>2, IntervalAssumption DEF Denotes, AtMost, UpperBound
<1> QED BY <1>3, <1>4 DEF Denotes

\* Widening that changes nothing has found a state that holds the next one, for
\* the cells both have a value for (handleCycleWTO's test for a fixpoint).
THEOREM StableHolds ==
    ASSUME NEW s, NEW t, NEW c \in Cell, s[c] \in Proper, t[c] \in Proper,
           s = widening(s, t), NEW k \in Int, Denotes(t[c], k)
    PROVE  Denotes(s[c], k)
<1>1. ~lackValue(c, s, t)
  BY ProperBounds DEF lackValue
<1>2. s[c] = Widen(s[c], t[c])
  BY <1>1 DEF widening
<1> QED BY <1>2, WidenEncloses

\* Narrowing keeps what both states allow (IntervalValue::narrow_with).
THEOREM NarrowKeeps ==
    ASSUME NEW i \in Proper, NEW j \in Proper, NEW c \in Int, Denotes(i, c), Denotes(j, c)
    PROVE  Denotes(Narrow(i, j), c)
<1>1. /\ Narrow(i, j).lb \in {i.lb, j.lb} /\ Narrow(i, j).ub \in {i.ub, j.ub}
  BY ProperBounds DEF Narrow, Itv
<1> QED BY <1>1 DEF Denotes

-----------------------------------------------------------------------------
\* Sets of bounds have a least and a greatest member.
LEMMA LeastNat == ASSUME NEW S \in SUBSET Nat, S # {}
                  PROVE  \E x \in S : \A y \in S : x <= y
<1>1. IsWellFoundedOn(OpToRel(<, Nat), Nat)
  BY NatLessThanWellFounded
<1>2. PICK x \in S : \A y \in S : ~(<<y, x>> \in OpToRel(<, Nat))
  BY <1>1, WFMin
<1>3. ASSUME NEW m \in Nat, NEW n \in Nat, n < m PROVE <<n, m>> \in OpToRel(<, Nat)
  BY <1>3 DEF OpToRel
<1>4. ASSUME NEW y \in S PROVE ~(y < x)
  BY <1>2, <1>3, Zenon
<1> QED BY <1>4

LEMMA LeastBound == ASSUME NEW S \in SUBSET Bound, S # {}
                    PROVE  Min(S) \in S /\ \A y \in S : Min(S) <= y
<1> DEFINE T == {x + Inf : x \in S}
<1>0. \A x \in S : x \in Int /\ x + Inf \in Nat
  BY IntervalAssumption DEF Bound
<1>1. T \in SUBSET Nat /\ T # {}
  BY <1>0
<1>2. PICK n \in T : \A m \in T : n <= m
  BY <1>1, LeastNat
<1>3. PICK x \in S : n = x + Inf
  BY <1>2
<1>4. ASSUME NEW y \in S PROVE x <= y
  <2>1. x + Inf <= y + Inf
    BY <1>2, <1>3
  <2> QED BY <1>0, <2>1, IntervalAssumption
<1> QED BY <1>4 DEF Min

LEMMA GreatestBound == ASSUME NEW S \in SUBSET Bound, S # {}
                       PROVE  Max(S) \in S /\ \A y \in S : y <= Max(S)
<1> DEFINE T == {Inf - x : x \in S}
<1>0. \A x \in S : x \in Int /\ Inf - x \in Nat
  BY IntervalAssumption DEF Bound
<1>1. T \in SUBSET Nat /\ T # {}
  BY <1>0
<1>2. PICK n \in T : \A m \in T : n <= m
  BY <1>1, LeastNat
<1>3. PICK x \in S : n = Inf - x
  BY <1>2
<1>4. ASSUME NEW y \in S PROVE x >= y
  <2>1. Inf - x <= Inf - y
    BY <1>2, <1>3
  <2> QED BY <1>0, <2>1, IntervalAssumption
<1>5. Max(S) \in S /\ \A y \in S : Max(S) >= y
  BY <1>4 DEF Max
<1> QED BY <1>5, IntervalAssumption DEF Bound

\* A value some predecessor has for a cell is still there when states are
\* merged; that the predecessor has the cell is needed (joinWith, and the run
\* in which a loop forgets one).
THEOREM MergeEncloses ==
    ASSUME NEW S, NEW c \in Cell, \A t \in S : t[c] \in Proper \union {Bottom},
           NEW s \in S, s[c] \in Proper, NEW k \in Int, Denotes(s[c], k)
    PROVE  Denotes(JoinStates(S)[c], k)
<1> DEFINE I == {t[c] : t \in S}
           L == {i.lb : i \in I \ {Bottom}}
           U == {i.ub : i \in I \ {Bottom}}
<1>1. s[c] \in I /\ s[c] # Bottom /\ I \ {Bottom} \subseteq Proper
  BY ProperBounds DEF isBottom
<1>2. JoinStates(S)[c] = Itv(Min(L), Max(U))
  BY <1>1 DEF JoinStates, JoinAll
<1>3. L \in SUBSET Bound /\ U \in SUBSET Bound /\ s[c].lb \in L /\ s[c].ub \in U
  BY <1>1, ProperBounds, IntervalAssumption DEF LowerBound, UpperBound, Bound
<1> HIDE DEF I, L, U
<1>4. Min(L) \in Bound /\ Min(L) <= s[c].lb
  BY <1>3, LeastBound
<1>5. Max(U) \in Bound /\ s[c].ub <= Max(U)
  BY <1>3, GreatestBound
<1>6. s[c].lb \in Bound /\ s[c].ub \in Bound
  BY <1>3
<1>7. AtLeast(Min(L), k)
  BY <1>4, <1>6, IntervalAssumption DEF Denotes, AtLeast, Bound
<1>8. AtMost(Max(U), k)
  BY <1>5, <1>6, IntervalAssumption DEF Denotes, AtMost, Bound
<1> QED BY <1>2, <1>7, <1>8 DEF Denotes, Itv

-----------------------------------------------------------------------------
Predicate == {"eq", "ne", "lt", "le", "gt", "ge"}
Related(pred, a, b) ==
    CASE pred = "eq" -> a = b [] pred = "ne" -> a # b
      [] pred = "lt" -> a < b [] pred = "le" -> a <= b
      [] pred = "gt" -> a > b [] pred = "ge" -> a >= b
Answer(p) == IF p THEN 1 ELSE 0

\* The three comparisons the others are made from.
LEMMA BasicComparisons ==
    ASSUME NEW i \in Proper, NEW j \in Proper, NEW a \in Int, NEW b \in Int,
           Denotes(i, a), Denotes(j, b)
    PROVE  /\ contains(Lt(i, j), Answer(a < b))
           /\ contains(Le(i, j), Answer(a <= b))
           /\ contains(Eq(i, j), Answer(a = b))
<1>1. /\ i = Itv(i.lb, i.ub) /\ j = Itv(j.lb, j.ub)
      /\ i.lb \in LowerBound /\ j.lb \in LowerBound /\ i.ub \in UpperBound /\ j.ub \in UpperBound
  BY ProperBounds
<1>2. /\ i.lb = -Inf \/ i.lb <= a
      /\ i.ub = Inf \/ a <= i.ub
      /\ j.lb = -Inf \/ j.lb <= b
      /\ j.ub = Inf \/ b <= j.ub
  BY DEF Denotes, AtLeast, AtMost
<1>3. contains(Lt(i, j), Answer(a < b))
  BY <1>1, <1>2, IntervalAssumption
     DEF LowerBound, UpperBound, Lt, contains, Answer, Num, Itv, Top
<1>4. contains(Le(i, j), Answer(a <= b))
  BY <1>1, <1>2, IntervalAssumption
     DEF LowerBound, UpperBound, Le, contains, Answer, Num, Itv, Top
<1>5. contains(Eq(i, j), Answer(a = b))
  <2>1. CASE isTop(i) \/ isTop(j)
    BY <2>1, IntervalAssumption DEF Eq, contains, Answer, Top, Itv
  <2>2. CASE ~(isTop(i) \/ isTop(j)) /\ is_numeral(i) /\ is_numeral(j)
    <3>1. i.lb = a /\ i.ub = a /\ j.lb = b /\ j.ub = b
      BY <1>1, <1>2, <2>2, IntervalAssumption DEF LowerBound, UpperBound, is_numeral
    <3>2. i = j <=> a = b
      BY <1>1, <3>1 DEF Itv
    <3> QED BY <2>2, <3>2 DEF Eq, contains, Answer, Num, Itv
  <2>3. CASE ~(isTop(i) \/ isTop(j)) /\ ~(is_numeral(i) /\ is_numeral(j))
    <3>1. a = b => ~isBottom(Meet(i, j))
      BY <1>1, MeetKeeps, IntervalAssumption DEF LowerBound, UpperBound, Bound
    <3> QED BY <2>3, <3>1 DEF Eq, contains, Answer, Num, Itv
  <2> QED BY <2>1, <2>2, <2>3
<1> QED BY <1>3, <1>4, <1>5

LEMMA NotRight ==
    ASSUME NEW i, i.lb \in Int, i.ub \in Int, NEW k \in {0, 1}, contains(i, k)
    PROVE  contains(Not(i), 1 - k)
<1>1. ~isBottom(i)
  BY IntervalAssumption DEF isBottom, Bottom, Itv, contains
<1>2. CASE isTop(i)
  BY <1>2, IntervalAssumption DEF Not, isTop, Top, Itv, contains
<1>3. CASE ~isTop(i)
  BY <1>1, <1>3 DEF Not, Itv, contains
<1> QED BY <1>2, <1>3

\* The answer a comparison of two intervals gives allows for the truth about
\* every pair of their values (updateStateOnCmp).
THEOREM CompareRight ==
    ASSUME NEW i \in Proper, NEW j \in Proper, NEW a \in Int, NEW b \in Int,
           Denotes(i, a), Denotes(j, b), NEW pred \in Predicate
    PROVE  contains(Compare(pred, i, j), Answer(Related(pred, a, b)))
<1>1. ~isBottom(i) /\ ~isBottom(j)
  BY ProperBounds
<1>2. /\ Strict(Lt, i, j) = Lt(i, j) /\ Strict(Le, i, j) = Le(i, j) /\ Strict(Eq, i, j) = Eq(i, j)
  BY <1>1 DEF Strict
<1>3. /\ Lt(i, j).lb \in Int /\ Lt(i, j).ub \in Int
      /\ Le(i, j).lb \in Int /\ Le(i, j).ub \in Int
      /\ Eq(i, j).lb \in Int /\ Eq(i, j).ub \in Int
  BY IntervalAssumption DEF Lt, Le, Eq, Num, Itv, Top
<1>4. /\ contains(Lt(i, j), Answer(a < b)) /\ contains(Le(i, j), Answer(a <= b))
      /\ contains(Eq(i, j), Answer(a = b))
  BY BasicComparisons
<1>5. /\ contains(Not(Lt(i, j)), 1 - Answer(a < b)) /\ contains(Not(Le(i, j)), 1 - Answer(a <= b))
      /\ contains(Not(Eq(i, j)), 1 - Answer(a = b))
  <2>1. Answer(a < b) \in {0, 1} /\ Answer(a <= b) \in {0, 1} /\ Answer(a = b) \in {0, 1}
    BY DEF Answer
  <2> QED BY <1>3, <1>4, <2>1, NotRight
<1>6. /\ Answer(Related("eq", a, b)) = Answer(a = b)
      /\ Answer(Related("ne", a, b)) = 1 - Answer(a = b)
      /\ Answer(Related("lt", a, b)) = Answer(a < b)
      /\ Answer(Related("ge", a, b)) = 1 - Answer(a < b)
      /\ Answer(Related("le", a, b)) = Answer(a <= b)
      /\ Answer(Related("gt", a, b)) = 1 - Answer(a <= b)
  BY DEF Related, Answer
<1>7. /\ Compare("eq", i, j) = Eq(i, j) /\ Compare("ne", i, j) = Not(Eq(i, j))
      /\ Compare("lt", i, j) = Lt(i, j) /\ Compare("ge", i, j) = Not(Lt(i, j))
      /\ Compare("le", i, j) = Le(i, j) /\ Compare("gt", i, j) = Not(Le(i, j))
  BY <1>2 DEF Compare
<1> QED BY <1>4, <1>5, <1>6, <1>7 DEF Predicate

-----------------------------------------------------------------------------
\* What a predicate table makes of a true comparison is true, if it has an
\* entry at all.
Says(q, a, b) == q = "false" \/ (q \in Predicate /\ Related(q, a, b))

LEMMA RelatedIs ==
    ASSUME NEW a \in Int, NEW b \in Int
    PROVE  /\ Related("eq", a, b) <=> a = b
           /\ Related("ne", a, b) <=> a # b
           /\ Related("lt", a, b) <=> a < b
           /\ Related("ge", a, b) <=> a >= b
           /\ Related("le", a, b) <=> a <= b
           /\ Related("gt", a, b) <=> a > b
BY DEF Related

LEMMA SwitchRight ==
    ASSUME NEW q \in Predicate, NEW a \in Int, NEW b \in Int
    PROVE  \/ switchPredicate(q) = "false"
           \/ /\ switchPredicate(q) \in Predicate
              /\ Related(switchPredicate(q), b, a) <=> Related(q, a, b)
<1>1. /\ switchPredicate("eq") = "eq" /\ switchPredicate("ne") = "ne"
      /\ switchPredicate("gt") = "lt" /\ switchPredicate("lt") = "gt"
      /\ switchPredicate("ge") = "le" /\ switchPredicate("le") = "false"
  BY DEF switchPredicate
<1>2. CASE q = "eq"
  BY <1>1, <1>2, RelatedIs DEF Predicate
<1>3. CASE q = "ne"
  BY <1>1, <1>3, RelatedIs DEF Predicate
<1>4. CASE q = "gt"
  BY <1>1, <1>4, RelatedIs DEF Predicate
<1>5. CASE q = "lt"
  BY <1>1, <1>5, RelatedIs DEF Predicate
<1>6. CASE q = "ge"
  BY <1>1, <1>6, RelatedIs DEF Predicate
<1>7. CASE q = "le"
  BY <1>1, <1>7
<1> QED BY <1>2, <1>3, <1>4, <1>5, <1>6, <1>7 DEF Predicate

LEMMA ReverseRight ==
    ASSUME NEW q \in Predicate, NEW a \in Int, NEW b \in Int, ~Related(q, a, b)
    PROVE  Says(reversePredicate(q), a, b)
<1>1. /\ reversePredicate("eq") = "ne" /\ reversePredicate("ne") = "eq"
      /\ reversePredicate("gt") = "le" /\ reversePredicate("lt") = "ge"
      /\ reversePredicate("ge") = "lt" /\ reversePredicate("le") = "false"
  BY DEF reversePredicate
<1>2. CASE q = "eq"
  BY <1>1, <1>2, RelatedIs DEF Says, Predicate
<1>3. CASE q = "ne"
  BY <1>1, <1>3, RelatedIs DEF Says, Predicate
<1>4. CASE q = "gt"
  BY <1>1, <1>4, RelatedIs DEF Says, Predicate
<1>5. CASE q = "lt"
  BY <1>1, <1>5, RelatedIs DEF Says, Predicate
<1>6. CASE q = "ge"
  BY <1>1, <1>6, RelatedIs DEF Says, Predicate
<1>7. CASE q = "le"
  BY <1>1, <1>7 DEF Says
<1> QED BY <1>2, <1>3, <1>4, <1>5, <1>6, <1>7 DEF Predicate

\* The same after the operands were swapped.
LEMMA SwappedSays ==
    ASSUME NEW q \in Predicate, NEW a \in Int, NEW b \in Int
    PROVE  /\ Related(q, a, b) => Says(switchPredicate(q), b, a)
           /\ ~Related(q, a, b) => Says(reversePredicate(switchPredicate(q)), b, a)
<1>1. CASE switchPredicate(q) = "false"
  <2>1. reversePredicate("false") = "false"
    BY DEF reversePredicate
  <2> QED BY <1>1, <2>1 DEF Says
<1>2. CASE switchPredicate(q) # "false"
  BY <1>2, SwitchRight, ReverseRight DEF Says
<1> QED BY <1>1, <1>2

\* A numeral has one value, and what a branch learns from it holds.
LEMMA RefinementRight ==
    ASSUME NEW j \in Proper, is_numeral(j), NEW a \in Int, NEW b \in Int, Denotes(j, b),
           NEW q, Says(q, a, b)
    PROVE  /\ Denotes(Refinement(q, j), a)
           /\ Refinement(q, j).lb \in Bound /\ Refinement(q, j).ub \in Bound
<1>1. /\ j.lb \in LowerBound /\ j.ub \in UpperBound /\ j.lb = b /\ j.ub = b
  BY ProperBounds, IntervalAssumption
     DEF Denotes, AtLeast, AtMost, LowerBound, UpperBound, is_numeral
<1>2. add(b, 1) = b + 1 /\ add(b, -1) = b - 1
  BY <1>1, IntervalAssumption DEF add, Saturated, MaxOf, MinOf, LowerBound, UpperBound
<1>3. /\ b \in Int /\ -Inf < b /\ b < Inf /\ Inf \in Int
  BY <1>1, IntervalAssumption DEF LowerBound, UpperBound
<1>4. CASE q = "eq"
  BY <1>1, <1>3, <1>4 DEF Says, Related, Refinement, Denotes, AtLeast, AtMost, Bound
<1>5. CASE q = "gt"
  BY <1>1, <1>2, <1>3, <1>5 DEF Says, Related, Refinement, Denotes, AtLeast, AtMost, Bound, Itv
<1>6. CASE q = "ge"
  BY <1>1, <1>3, <1>6 DEF Says, Related, Refinement, Denotes, AtLeast, AtMost, Bound, Itv
<1>7. CASE q = "lt"
  BY <1>1, <1>2, <1>3, <1>7 DEF Says, Related, Refinement, Denotes, AtLeast, AtMost, Bound, Itv
<1>8. CASE q = "le"
  BY <1>1, <1>3, <1>8 DEF Says, Related, Refinement, Denotes, AtLeast, AtMost, Bound, Itv
<1>9. CASE q \notin {"eq", "gt", "ge", "lt", "le"}
  BY <1>3, <1>9 DEF Refinement, Denotes, AtLeast, AtMost, Bound, Itv, Top
<1> QED BY <1>4, <1>5, <1>6, <1>7, <1>8, <1>9

-----------------------------------------------------------------------------
\* A state describes the values of a run if every value lies in the cell's
\* interval; a cell without one may have any value.
Describes(s, v) == \A c \in Cell : v[c] # Undef => Denotes(operand(c, s), v[c])
AbstractState == [Cell -> Proper \union {Bottom}]
Values == [Cell -> Int \union {Undef}]
Literal == (1 - Inf)..(Inf - 1)

LEMMA OperandRight ==
    ASSUME NEW s \in AbstractState, NEW v \in Values, Describes(s, v),
           NEW x \in Cell \union Literal, Value(x, v) \in Int, Value(x, v) # Undef
    PROVE  operand(x, s) \in Proper /\ Denotes(operand(x, s), Value(x, v))
<1>1. Top \in Proper
  BY IntervalAssumption DEF Proper, Interval, Bound, Top, Bottom, Itv, LowerBound, UpperBound
<1>2. CASE x \in Cell
  <2>1. s[x] \in Proper \union {Bottom}
    BY <1>2 DEF AbstractState
  <2> QED BY <1>1, <1>2, <2>1 DEF operand, Val, Known, isBottom, Describes, Value
<1>3. CASE x \notin Cell
  <2>1. x \in Int /\ -Inf < x /\ x < Inf
    BY <1>3, IntervalAssumption DEF Literal
  <2>2. operand(x, s) = Num(x)
    BY <1>3, <2>1, IntervalAssumption DEF operand, Val, Known, isBottom, Bottom, Num, Itv
  <2>3. Num(x) \in Proper
    BY <2>1, IntervalAssumption
       DEF Proper, Interval, Bound, Bottom, Num, Itv, LowerBound, UpperBound
  <2> QED BY <1>3, <2>1, <2>2, <2>3 DEF Denotes, AtLeast, AtMost, Num, Itv, Value
<1> QED BY <1>2, <1>3

\* Meeting a cell with an interval its value lies in.
LEMMA RefineKeeps ==
    ASSUME NEW s \in AbstractState, NEW v \in Values, Describes(s, v), NEW x,
           NEW i, i.lb \in Bound, i.ub \in Bound, x \in Cell => Denotes(i, v[x]) /\ v[x] \in Int
    PROVE  Describes(Refine(x, s, i), v)
<1>1. CASE x \in Cell /\ ~isBottom(s[x])
  <2> SUFFICES ASSUME NEW c \in Cell, v[c] # Undef
               PROVE  Denotes(operand(c, Refine(x, s, i)), v[c])
    BY DEF Describes
  <2>1. Refine(x, s, i) = [s EXCEPT ![x] = Meet(s[x], i)]
    BY <1>1 DEF Refine
  <2>2. CASE c = x
    <3>1. s[x] \in Proper
      BY <1>1 DEF AbstractState, isBottom
    <3>2. s[x].lb \in Bound /\ s[x].ub \in Bound
      BY <3>1, ProperBounds, IntervalAssumption DEF LowerBound, UpperBound, Bound
    <3>3. Denotes(s[x], v[x])
      BY <1>1, <2>2 DEF Describes, operand, Val, Known
    <3>4. Denotes(Meet(s[x], i), v[x]) /\ ~isBottom(Meet(s[x], i))
      BY <1>1, <3>2, <3>3, MeetKeeps
    <3>5. Refine(x, s, i)[c] = Meet(s[x], i)
      BY <1>1, <2>1, <2>2 DEF AbstractState
    <3> QED BY <2>2, <3>4, <3>5 DEF operand, Val, Known
  <2>3. CASE c # x
    <3>1. Refine(x, s, i)[c] = s[c]
      BY <2>1, <2>3 DEF AbstractState
    <3>2. Denotes(operand(c, s), v[c])
      BY DEF Describes
    <3> QED BY <3>1, <3>2 DEF operand, Val
  <2> QED BY <2>2, <2>3
<1>2. CASE ~(x \in Cell /\ ~isBottom(s[x]))
  BY <1>2 DEF Refine
<1> QED BY <1>1, <1>2

\* The state a branch is given describes every run that takes it: narrowing a
\* cell by a reversed or swapped predicate cuts off nothing a run can have
\* (isCmpBranchFeasible).
THEOREM BranchKeeps ==
    ASSUME NEW cond \in Condition, cond.l \in Cell \union Literal, cond.r \in Cell \union Literal,
           NEW s \in AbstractState, NEW v \in Values, Describes(s, v),
           Value(cond.l, v) \in Int \ {Undef}, Value(cond.r, v) \in Int \ {Undef}
    PROVE  \E t \in BranchStates(cond, Answer(Holds(cond, v)), s) : Describes(t, v)
<1> DEFINE x == operand(cond.l, s)
           y == operand(cond.r, s)
           a == Value(cond.l, v)
           b == Value(cond.r, v)
           pred == cond.pred
           taken == Answer(Holds(cond, v))
           swap == is_numeral(x) /\ ~is_numeral(y)
           p == IF swap THEN switchPredicate(pred) ELSE pred
           q == IF taken = 0 THEN reversePredicate(p) ELSE p
<1>1. pred \in Predicate /\ a \in Int /\ b \in Int
  BY DEF Condition, Predicate
<1>2. x \in Proper /\ y \in Proper /\ Denotes(x, a) /\ Denotes(y, b)
  BY OperandRight
<1>3. Holds(cond, v) = Related(pred, a, b)
  BY DEF Holds, Related
<1>4. contains(Compare(pred, x, y), taken)
  BY <1>1, <1>2, <1>3, CompareRight
<1>5. BranchStates(cond, taken, s) =
        IF is_numeral(x) = is_numeral(y) THEN {s}
        ELSE IF swap THEN {Refine(cond.r, s, Refinement(q, x))}
        ELSE {Refine(cond.l, s, Refinement(q, y))}
  BY <1>4 DEF BranchStates
<1>6. taken = IF Related(pred, a, b) THEN 1 ELSE 0
  BY <1>3 DEF Answer
<1>7. SUFFICES \E t \in BranchStates(cond, taken, s) : Describes(t, v)
  OBVIOUS
<1>8. is_numeral(x) \in BOOLEAN /\ is_numeral(y) \in BOOLEAN
  BY DEF is_numeral
<1> HIDE DEF x, y, a, b, pred, taken
<1>9. CASE is_numeral(x) = is_numeral(y)
  BY <1>5, <1>9
<1>10. CASE is_numeral(x) /\ ~is_numeral(y)
  <2>1. Says(q, b, a)
    BY <1>1, <1>6, <1>10, SwappedSays
  <2>2. Denotes(Refinement(q, x), b) /\ Refinement(q, x).lb \in Bound /\ Refinement(q, x).ub \in Bound
    BY <1>1, <1>2, <1>10, <2>1, RefinementRight
  <2>3. cond.r \in Cell => v[cond.r] = b
    BY DEF b, Value
  <2>4. Describes(Refine(cond.r, s, Refinement(q, x)), v)
    BY <1>1, <2>2, <2>3, RefineKeeps
  <2> QED BY <1>5, <1>10, <2>4
<1>11. CASE ~is_numeral(x) /\ is_numeral(y)
  <2>1. Says(q, a, b)
    BY <1>1, <1>6, <1>11, ReverseRight DEF Says
  <2>2. Denotes(Refinement(q, y), a) /\ Refinement(q, y).lb \in Bound /\ Refinement(q, y).ub \in Bound
    BY <1>1, <1>2, <1>11, <2>1, RefinementRight
  <2>3. cond.l \in Cell => v[cond.l] = a
    BY DEF a, Value
  <2>4. Describes(Refine(cond.l, s, Refinement(q, y)), v)
    BY <1>1, <2>2, <2>3, RefineKeeps
  <2> QED BY <1>5, <1>11, <2>4
<1> QED BY <1>8, <1>9, <1>10, <1>11

\* From a an edge path inside S leads to b.
Inside(g, S, a, b) ==
    \A T \in SUBSET S : a \in T /\ (\A u \in T : Range(g[u]) \cap S \subseteq T) => b \in T

LEMMA InsideSelf ==
    ASSUME NEW g, NEW S, NEW a PROVE Inside(g, S, a, a)
BY DEF Inside

LEMMA InsideStep ==
    ASSUME NEW g, NEW S, NEW a, NEW b \in S, b \in Range(g[a]) PROVE Inside(g, S, a, b)
BY DEF Inside

LEMMA InsideJoins ==
    ASSUME NEW g, NEW S, NEW a, NEW b, NEW c, Inside(g, S, a, b), Inside(g, S, b, c)
    PROVE  Inside(g, S, a, c)
BY DEF Inside

\* A larger set has the paths of a smaller one.
LEMMA InsideGrows ==
    ASSUME NEW g, NEW S, NEW Q, S \subseteq Q, NEW a \in S, NEW b, Inside(g, S, a, b)
    PROVE  Inside(g, Q, a, b)
<1> SUFFICES ASSUME NEW T \in SUBSET Q, a \in T, \A u \in T : Range(g[u]) \cap Q \subseteq T
             PROVE  b \in T
  BY DEF Inside
<1>1. T \cap S \in SUBSET S /\ a \in T \cap S
  OBVIOUS
<1>2. \A u \in T \cap S : Range(g[u]) \cap S \subseteq T \cap S
  OBVIOUS
<1> QED BY <1>1, <1>2 DEF Inside

\* A path is not cut by taking away nodes without an edge to those left.
LEMMA InsideShrinks ==
    ASSUME NEW g, NEW S, NEW Q, Q \subseteq S, NEW a \in Q, NEW b \in Q, Inside(g, S, a, b),
           \A u \in S : u \notin Q => Range(g[u]) \cap Q = {}
    PROVE  Inside(g, Q, a, b)
<1> SUFFICES ASSUME NEW T \in SUBSET Q, a \in T, \A u \in T : Range(g[u]) \cap Q \subseteq T
             PROVE  b \in T
  BY DEF Inside
<1> DEFINE U == T \union (S \ Q)
<1>1. U \in SUBSET S /\ a \in U
  OBVIOUS
<1>2. ASSUME NEW u \in U PROVE Range(g[u]) \cap S \subseteq U
  <2>1. CASE u \in T BY <2>1
  <2>2. CASE u \in S \ Q BY <2>2
  <2> QED BY <2>1, <2>2
<1>3. b \in U
  BY <1>1, <1>2 DEF Inside
<1> QED BY <1>3

\* A path to another node ends with an edge to it.
LEMMA InsideEnds ==
    ASSUME NEW g, NEW S, NEW a \in S, NEW b, a # b, Inside(g, S, a, b)
    PROVE  \E y \in S : b \in Range(g[y])
<1> SUFFICES ASSUME \A y \in S : b \notin Range(g[y]) PROVE FALSE
  OBVIOUS
<1>1. S \ {b} \in SUBSET S /\ a \in S \ {b} /\ \A u \in S \ {b} : Range(g[u]) \cap S \subseteq S \ {b}
  OBVIOUS
<1> QED BY <1>1 DEF Inside

\* A path does not leave a part that no edge leaves.
LEMMA InsideStays ==
    ASSUME NEW g, NEW S, NEW U, NEW a \in S \cap U, NEW b, Inside(g, S, a, b),
           \A u \in S \cap U : Range(g[u]) \cap S \subseteq U
    PROVE  b \in U
<1>1. S \cap U \in SUBSET S /\ \A u \in S \cap U : Range(g[u]) \cap S \subseteq S \cap U
  OBVIOUS
<1> QED BY <1>1 DEF Inside

-----------------------------------------------------------------------------
\* initWTO.

\* The calls of WTO::visit and WTO::component that have not returned. A call of
\* visit whose successor on the call stack is one of component has opened the
\* cycle of its node; the others are active.
CallFrame == [at : {"visit", "component"}, node : Node, todo : Seq(Node), head : Nat,
              loop : BOOLEAN]
OnStack(x) == cdn[x] # 0 /\ cdn[x] # UINT_MAX
IsPlaced(x) == cdn[x] = UINT_MAX
Visiting(i) == i \in 1..Len(frames) /\ frames[i].at = "visit"
Opened(i) == Visiting(i) /\ i < Len(frames) /\ frames[i + 1].at = "component"
Active(i) == Visiting(i) /\ ~Opened(i)
NodeOf(i) == frames[i].node
HeadOf(i) == frames[i].head
Loops(i) == frames[i].loop
Due(i, x) == x \in Range(frames[i].todo)
\* What a call of visit is numbered by: its node's number or, once the cycle is
\* open and the node placed, the number the cycle was found to go back to.
Nr(i) == IF Opened(i) THEN HeadOf(i) ELSE cdn[NodeOf(i)]
From(h) == {x \in Node : OnStack(x) /\ h <= cdn[x]}
\* y is on the stack since the i-th call began, and no later call began before it.
Under(i, y) ==
    /\ OnStack(y) /\ cdn[NodeOf(i)] <= cdn[y]
    /\ \A j \in Nat : Visiting(j) /\ i < j => cdn[y] < Nr(j)

Typed ==
    /\ succs \in [Node -> Seq(Node)]
    /\ cdn \in [Node -> Nat] /\ num \in Nat /\ num < UINT_MAX
    /\ stack \in Seq(Node) /\ frames \in Seq(CallFrame)
\* Nodes on the stack have numbers of their own, none above num.
Numbered ==
    /\ \A x \in Node : OnStack(x) => cdn[x] <= num
    /\ \A x, y \in Node : OnStack(x) /\ cdn[x] = cdn[y] => x = y
\* The stack holds, in the order of their numbers, the nodes that are numbered
\* and not yet placed.
Stacked ==
    /\ \A x \in Node : OnStack(x) <=> \E i \in 1..Len(stack) : stack[i] = x
    /\ \A i, j \in 1..Len(stack) : i < j => cdn[stack[i]] < cdn[stack[j]]
\* How the pending calls hang together, from the call on the entry e up.
Framed(e) ==
    /\ frames # <<>> => Visiting(1) /\ NodeOf(1) = e
    /\ frames # <<>> => \A y \in Node : OnStack(y) => Nr(1) <= cdn[y]
    /\ frames = <<>> => IsPlaced(e)
    /\ \A i \in 1..Len(frames) : ~Visiting(i) => i > 1 /\ Opened(i - 1)
    /\ \A i \in Nat : Opened(i) => /\ NodeOf(i + 1) = NodeOf(i) /\ frames[i].todo = <<>>
                                   /\ IsPlaced(NodeOf(i)) /\ HeadOf(i) <= num
    /\ \A i \in Nat : Active(i) => OnStack(NodeOf(i))
    /\ \A i \in 1..Len(frames) : Visiting(i + 1) => frames[i].todo # <<>> /\ Head(frames[i].todo) = NodeOf(i + 1)
    /\ \A i \in 1..Len(frames) : \A x \in Node : Due(i, x) => Follows(NodeOf(i), x)
\* Later calls of visit have larger numbers.
PathRight ==
    \A i, j \in Nat : Visiting(i) /\ Visiting(j) /\ i < j => Nr(i) < Nr(j)
\* The head number a call has learnt is that of a node its own node reaches
\* inside the part of the stack from there on.
HeadReached(i) ==
    \E x \in Node : OnStack(x) /\ cdn[x] = HeadOf(i)
                    /\ Inside(succs, From(HeadOf(i)), NodeOf(i), x)
HeadRight == \A i \in Nat : Active(i) =>
    /\ HeadReached(i)
    /\ HeadOf(i) <= cdn[NodeOf(i)]
    /\ \A k \in Nat : Opened(k) /\ k < i => Nr(k) < HeadOf(i)
\* A call that has seen a loop is inside a cycle that goes further back, or
\* something above its node leads back to it.
LoopRight == \A i \in Nat : Active(i) /\ Loops(i) =>
    HeadOf(i) < cdn[NodeOf(i)] \/ \E y \in From(cdn[NodeOf(i)]) : Follows(y, NodeOf(i))
\* No edge from what a call has visited leads further back than its head number.
LowLink == \A i \in Nat : Active(i) => \A y, x \in Node :
    Under(i, y) /\ Follows(y, x) /\ OnStack(x) => (y = NodeOf(i) /\ Due(i, x)) \/ HeadOf(i) <= cdn[x]
\* An edge from a node on the stack leads to a placed node, is yet to be
\* followed, or does not leave the calls that node was visited by.
Explored == \A y, x \in Node : OnStack(y) /\ Follows(y, x) =>
    \/ IsPlaced(x)
    \/ \E i \in Nat : Active(i) /\ y = NodeOf(i) /\ Due(i, x)
    \/ OnStack(x) /\ \A j \in Nat : Visiting(j) /\ cdn[y] < Nr(j) => cdn[x] < Nr(j)
\* A call that has seen no loop has left nothing on the stack above its node.
Quiet == \A i \in Nat : Active(i) /\ ~Loops(i) =>
    /\ HeadOf(i) = cdn[NodeOf(i)]
    /\ \A y \in Node : Under(i, y) => y = NodeOf(i)
    /\ \A x \in Node : Follows(NodeOf(i), x) => Due(i, x) \/ IsPlaced(x)
\* Of an open cycle the stack holds only what calls still pending have visited,
\* and every edge of its head is followed or yet to be.
Settled == \A i \in Nat : Opened(i) =>
    /\ \A y \in Node : OnStack(y) /\ Nr(i) <= cdn[y] => \E j \in Nat : Visiting(j) /\ i < j /\ Nr(j) <= cdn[y]
    /\ \A x \in Node : Follows(NodeOf(i), x) => Due(i + 1, x) \/ IsPlaced(x)
\* The node of a call reaches what is above it on the stack, and what is above
\* reaches the node of some call: that is why cycles are strongly connected.
Down == \A i \in Nat : Active(i) => \A y \in From(cdn[NodeOf(i)]) :
    (\A k \in Nat : Opened(k) /\ i < k => cdn[y] < Nr(k)) => Inside(succs, From(cdn[NodeOf(i)]), NodeOf(i), y)
UpTo(i, y) == y = NodeOf(i) \/ (cdn[NodeOf(i)] < cdn[y] /\ Inside(succs, From(cdn[NodeOf(i)]), y, NodeOf(i)))
Up == \A y \in Node : OnStack(y) => \E i \in Nat : Active(i) /\ UpTo(i, y)
\* A placed node that heads no open cycle leads only to placed nodes.
Finished == \A n \in Node : IsPlaced(n) =>
    (\E k \in Nat : Opened(k) /\ n = NodeOf(k)) \/ \A x \in Node : Follows(n, x) => IsPlaced(x)
Reached(e) ==
    /\ \A x \in Node : cdn[x] # 0 => x \in ReachableFrom(e)
    /\ \A i \in 1..Len(frames) : NodeOf(i) \in ReachableFrom(e)
\* The depth-first search from e is where it should be.
Dfs(e) ==
    /\ Numbered /\ Framed(e) /\ PathRight /\ HeadRight /\ LoopRight /\ LowLink /\ Explored
    /\ Quiet /\ Settled /\ Down /\ Up /\ Finished /\ Reached(e)

\* The nodes the k-th call opened a cycle for, with those of the cycles in it,
\* are in G, which is left only for placed nodes.
Sealed(k, G) ==
    /\ \A j \in Nat : Opened(j) /\ k <= j => NodeOf(j) \in G
    /\ \A x \in G : \A y \in Node : Follows(x, y) => y \in G \/ IsPlaced(y)
    /\ \A x \in Node : OnStack(x) => (x \in G <=> Nr(k) < cdn[x])
AllSealed == \A k \in Nat : Opened(k) => \E G \in SUBSET Node : Sealed(k, G)

LEMMA CallTypes ==
    ASSUME Typed
    PROVE  /\ Len(frames) \in Nat
           /\ \A i \in 1..Len(frames) :
                /\ NodeOf(i) \in Node /\ HeadOf(i) \in Nat /\ Loops(i) \in BOOLEAN /\ Nr(i) \in Nat
                /\ frames[i].todo \in Seq(Node) /\ frames[i] \in CallFrame
                /\ ~Visiting(i) => frames[i].at = "component"
                /\ \A x : Due(i, x) => x \in Node
           /\ \A i : Visiting(i) => i \in Nat /\ i \in 1..Len(frames)
           /\ \A x \in Node : cdn[x] \in Nat
<1>1. Len(frames) \in Nat /\ \A i \in 1..Len(frames) : frames[i] \in CallFrame
  BY DEF Typed
<1>2. ASSUME NEW i \in 1..Len(frames)
      PROVE  /\ NodeOf(i) \in Node /\ HeadOf(i) \in Nat /\ Loops(i) \in BOOLEAN
             /\ frames[i].todo \in Seq(Node)
             /\ ~Visiting(i) => frames[i].at = "component"
  BY <1>1 DEF CallFrame, NodeOf, HeadOf, Loops, Visiting
<1>3. ASSUME NEW i \in 1..Len(frames) PROVE Nr(i) \in Nat
  BY <1>2 DEF Nr, Typed
<1>4. ASSUME NEW i \in 1..Len(frames), NEW x, Due(i, x) PROVE x \in Node
  BY <1>2, <1>4 DEF Due, Range
<1>5. \A i : Visiting(i) => i \in Nat /\ i \in 1..Len(frames)
  BY <1>1 DEF Visiting
<1> QED BY <1>1, <1>2, <1>3, <1>4, <1>5 DEF Typed

\* What every return has in common: the first p calls are left.
Kept(p) ==
    /\ p \in Nat /\ p <= Len(frames) /\ Len(frames)' = p
    /\ \A i \in Nat : (Visiting(i)' <=> Visiting(i) /\ i <= p) /\ (Opened(i)' <=> Opened(i) /\ i <= p)
    /\ \A i \in 1..p : NodeOf(i)' = NodeOf(i)
    /\ \A i \in 1..p : \A y \in Node : (Due(i, y)' => Due(i, y)) /\ (i # p /\ Due(i, y) => Due(i, y)')
    /\ \A i \in 1..p : i # p => HeadOf(i)' = HeadOf(i) /\ Loops(i)' = Loops(i)
    /\ \A i \in 1..p : i # p => frames'[i] = frames[i]
    /\ ~Opened(p) /\ Len(frames) > 0
    /\ frames' = <<>> <=> p = 0
    /\ succs' = succs /\ num' = num

\* The p-th call learns that x has been placed: it had been before, or is with this step.
PopPlaced(p, x) ==
    /\ Kept(p) /\ x \in Node
    /\ \A i \in 1..p : HeadOf(i)' = HeadOf(i) /\ Loops(i)' = Loops(i)
    /\ p > 0 => \A y \in Node : Due(p, y) => Due(p, y)' \/ y = x
    /\ \A y \in Node : cdn'[y] = IF y = x THEN UINT_MAX ELSE cdn[y]
    /\ \A j \in Nat : Visiting(j) /\ p < j => \A y \in Node : OnStack(y)' => cdn[y] < Nr(j)
    /\ OnStack(x) => \A y \in Node : OnStack(y)' => cdn[y] < cdn[x]
    /\ p < Len(frames) => \A y \in Node : Follows(x, y) => IsPlaced(y)
    /\ p = Len(frames) => IsPlaced(x)
    /\ p = 0 => x = NodeOf(1)
    /\ cdn[x] # 0
    /\ \A i \in 1..p : Active(i) => NodeOf(i) # x
    /\ \A k \in Nat : Opened(k) /\ p < k => NodeOf(k) = x

\* The open cycles stay as they are.
SameOpen ==
    \A i \in Nat : /\ Opened(i)' <=> Opened(i)
                   /\ Opened(i) => NodeOf(i)' = NodeOf(i) /\ HeadOf(i)' = HeadOf(i)

LEMMA KeptOpen ==
    ASSUME Typed, NEW p, Kept(p), \A i \in Nat : Opened(i) => i <= p PROVE SameOpen
<1>1. \A i \in Nat : Opened(i) => i \in 1..p /\ i # p
  BY CallTypes DEF Kept, Opened
<1> QED BY <1>1 DEF Kept, SameOpen

\* What changes when x is taken from the stack or has been before.
Shrinks(p, x) ==
    /\ \A i \in Nat : Active(i)' <=> Active(i) /\ i <= p
    /\ \A y \in Node : OnStack(y)' <=> OnStack(y) /\ y # x
    /\ \A y \in Node : OnStack(y)' => cdn'[y] = cdn[y]
    /\ \A y \in Node : IsPlaced(y)' <=> IsPlaced(y) \/ y = x
    /\ \A y, z : Follows(y, z)' <=> Follows(y, z)
    /\ \A i \in 1..p : Visiting(i) => Nr(i)' = Nr(i)
    /\ \A i \in 1..p : Active(i) => cdn'[NodeOf(i)] = cdn[NodeOf(i)]
    /\ \A h \in Nat : From(h)' = From(h) \ {x}

LEMMA PopShrinks ==
    ASSUME Typed, NEW e, Dfs(e), NEW p, NEW x, PopPlaced(p, x)
    PROVE  Shrinks(p, x)
<1> USE DEF PopPlaced, Kept
<1>0. p \in Nat /\ x \in Node /\ UINT_MAX # 0 /\ Len(frames) \in Nat
  BY WTOAssumption, CallTypes
<1>1. \A i \in Nat : Active(i)' <=> Active(i) /\ i <= p
  BY DEF Active
<1>2. \A y \in Node : OnStack(y)' <=> OnStack(y) /\ y # x
  BY <1>0 DEF OnStack
<1>3. \A y \in Node : OnStack(y)' => cdn'[y] = cdn[y]
  BY <1>0 DEF OnStack
<1>4. \A y \in Node : IsPlaced(y)' <=> IsPlaced(y) \/ y = x
  BY <1>0 DEF IsPlaced
<1>5. \A y, z : Follows(y, z)' <=> Follows(y, z)
  BY DEF Follows
<1>6. ASSUME NEW i \in 1..p, Active(i) PROVE cdn'[NodeOf(i)] = cdn[NodeOf(i)]
  <2>1. NodeOf(i) \in Node /\ NodeOf(i) # x
    BY <1>0, <1>6, CallTypes
  <2> QED BY <2>1
<1>7. ASSUME NEW i \in 1..p, Visiting(i) PROVE Nr(i)' = Nr(i)
  <2>1. CASE Opened(i)
    BY <2>1, <1>0, <1>7 DEF Nr
  <2>2. CASE ~Opened(i)
    <3>1. cdn'[NodeOf(i)] = cdn[NodeOf(i)] /\ ~Opened(i)' /\ NodeOf(i)' = NodeOf(i)
      BY <2>2, <1>0, <1>6, <1>7 DEF Active
    <3> QED BY <2>2, <3>1 DEF Nr
  <2> QED BY <2>1, <2>2
<1>8. ASSUME NEW h \in Nat PROVE From(h)' = From(h) \ {x}
  BY <1>2, <1>3 DEF From
<1> QED BY <1>1, <1>2, <1>3, <1>4, <1>5, <1>6, <1>7, <1>8 DEF Shrinks

LEMMA PopPlacedPaths ==
    ASSUME Typed, NEW e, Dfs(e), NEW p, NEW x, PopPlaced(p, x), NEW h \in Nat,
           NEW a \in From(h), NEW b \in From(h), a # x, b # x, Inside(succs, From(h), a, b)
    PROVE  Inside(succs, From(h)', a, b)
<1>0. Shrinks(p, x) BY PopShrinks
<1>1. From(h)' = From(h) \ {x} BY <1>0 DEF Shrinks
<1>2. ASSUME NEW u \in From(h), u \notin From(h) \ {x} PROVE Range(succs[u]) \cap (From(h) \ {x}) = {}
  <2>1. u = x /\ OnStack(x) /\ x \in Node
    BY <1>2 DEF From
  <2>2. \A y \in Node : Follows(x, y) => IsPlaced(y)
    BY <2>1, CallTypes DEF PopPlaced, Kept, OnStack, IsPlaced
  <2> QED BY <2>1, <2>2 DEF Follows, From, OnStack, IsPlaced
<1> QED BY <1>1, <1>2, InsideShrinks

LEMMA PopPlacedKeeps ==
    ASSUME Typed, NEW e, Dfs(e), NEW p, NEW x, PopPlaced(p, x)
    PROVE  Dfs(e)'
<1> USE DEF Dfs
<1>s. Shrinks(p, x) BY PopShrinks
<1>t. /\ p \in Nat /\ Len(frames) \in Nat /\ x \in Node /\ p <= Len(frames)
      /\ \A y \in Node : cdn[y] \in Nat /\ cdn'[y] \in Nat
      /\ \A i \in Nat : Visiting(i) => i \in 1..Len(frames) /\ Nr(i) \in Nat /\ NodeOf(i) \in Node /\ HeadOf(i) \in Nat
      /\ num \in Nat /\ num' = num /\ succs' = succs
      /\ \A i \in Nat : Visiting(i)' <=> Visiting(i) /\ i <= p
      /\ \A i \in Nat : Opened(i)' <=> Opened(i) /\ i <= p
      /\ \A i \in 1..p : NodeOf(i)' = NodeOf(i) /\ HeadOf(i)' = HeadOf(i) /\ Loops(i)' = Loops(i)
  <2>1. \A y \in Node : cdn'[y] \in Nat
    BY CallTypes, WTOAssumption DEF PopPlaced
  <2> QED BY <2>1, CallTypes DEF PopPlaced, Kept, Typed
<1>1. Numbered'
  <2>1. \A y \in Node : OnStack(y)' => cdn'[y] = cdn[y] /\ OnStack(y) BY <1>s DEF Shrinks
  <2>2. ASSUME NEW y \in Node, NEW z \in Node, OnStack(y)', cdn'[y] = cdn'[z] PROVE y = z
    <3>1. OnStack(z)' BY <2>2 DEF OnStack
    <3> QED BY <2>1, <2>2, <3>1 DEF Numbered
  <2> QED BY <1>t, <2>1, <2>2 DEF Numbered
<1>2. Framed(e)'
  <2>0. Framed(e) OBVIOUS
  <2>1. frames' # <<>> => Visiting(1)' /\ NodeOf(1)' = e
    BY <1>t, <2>0 DEF Framed, PopPlaced, Kept
  <2>2. frames' # <<>> => \A y \in Node : OnStack(y)' => Nr(1)' <= cdn'[y]
    <3>1. frames' # <<>> => 1 \in 1..p /\ frames # <<>> BY <1>t DEF PopPlaced, Kept
    <3>2. frames # <<>> => Visiting(1) /\ \A y \in Node : OnStack(y) => Nr(1) <= cdn[y] BY <2>0 DEF Framed
    <3> QED BY <3>1, <3>2, <1>s DEF Shrinks
  <2>3. frames' = <<>> => IsPlaced(e)'
    <3>1. frames # <<>> BY DEF PopPlaced, Kept
    <3>2. p = 0 => x = e BY <2>0, <3>1 DEF Framed, PopPlaced
    <3> QED BY <1>s, <1>t, <3>2 DEF PopPlaced, Kept, Shrinks
  <2>4. \A i \in 1..Len(frames)' : ~Visiting(i)' => i > 1 /\ Opened(i - 1)'
    BY <1>t, <2>0 DEF Framed, PopPlaced, Kept
  <2>5. ASSUME NEW i \in Nat, Opened(i)'
        PROVE  /\ NodeOf(i + 1)' = NodeOf(i)' /\ frames'[i].todo = <<>>
               /\ IsPlaced(NodeOf(i))' /\ HeadOf(i)' <= num'
    <3>1. Opened(i) /\ i \in 1..p /\ i # p
      BY <1>t, <2>5 DEF PopPlaced, Kept, Opened
    <3>2. i + 1 \in 1..p BY <1>t, <3>1
    <3>3. /\ NodeOf(i + 1) = NodeOf(i) /\ frames[i].todo = <<>>
          /\ IsPlaced(NodeOf(i)) /\ HeadOf(i) <= num /\ NodeOf(i) \in Node
      BY <3>1, <2>0, <1>t DEF Framed, Opened
    <3>4. frames'[i] = frames[i] BY <3>1 DEF PopPlaced, Kept
    <3>5. IsPlaced(NodeOf(i))'
      <4>1. cdn'[NodeOf(i)] = UINT_MAX BY <3>3 DEF PopPlaced, IsPlaced
      <4> QED BY <4>1, <3>1, <1>t DEF IsPlaced
    <3> QED BY <1>t, <3>1, <3>2, <3>3, <3>4, <3>5
  <2>6. \A i \in Nat : Active(i)' => OnStack(NodeOf(i))'
    <3>1. ASSUME NEW i \in Nat, Active(i)' PROVE OnStack(NodeOf(i))'
      <4>1. Active(i) /\ i \in 1..p /\ OnStack(NodeOf(i)) /\ cdn'[NodeOf(i)] = cdn[NodeOf(i)] /\ NodeOf(i)' = NodeOf(i)
        BY <1>s, <1>t, <2>0, <3>1 DEF Shrinks, Framed, Active
      <4> QED BY <4>1 DEF OnStack
    <3> QED BY <3>1
  <2>7. ASSUME NEW i \in 1..Len(frames)', Visiting(i + 1)'
        PROVE  frames'[i].todo # <<>> /\ Head(frames'[i].todo) = NodeOf(i + 1)'
    <3>1. i \in 1..p /\ i + 1 \in 1..p /\ i # p /\ i + 1 \in Nat /\ Visiting(i + 1)
      BY <1>t, <2>7 DEF PopPlaced, Kept
    <3>2. frames[i].todo # <<>> /\ Head(frames[i].todo) = NodeOf(i + 1) /\ frames'[i] = frames[i]
      BY <1>t, <2>0, <3>1 DEF Framed, PopPlaced, Kept
    <3> QED BY <1>t, <3>1, <3>2
  <2>8. ASSUME NEW i \in 1..Len(frames)', NEW y \in Node, Due(i, y)' PROVE Follows(NodeOf(i), y)'
    <3>1. i \in 1..p /\ i \in 1..Len(frames) /\ Due(i, y) BY <1>t, <2>8 DEF PopPlaced, Kept
    <3>2. Follows(NodeOf(i), y) BY <2>0, <3>1 DEF Framed
    <3> QED BY <1>t, <3>1, <3>2 DEF Follows
  <2> QED BY <2>1, <2>2, <2>3, <2>4, <2>5, <2>6, <2>7, <2>8 DEF Framed
<1>3. PathRight'
  BY <1>s, <1>t DEF PathRight, Shrinks
<1>4. HeadRight'
  <2> SUFFICES ASSUME NEW i \in Nat, Active(i)'
               PROVE  /\ HeadReached(i)'
                      /\ HeadOf(i)' <= cdn'[NodeOf(i)']
                      /\ \A k \in Nat : Opened(k)' /\ k < i => Nr(k)' < HeadOf(i)'
    BY DEF HeadRight
  <2>1. Active(i) /\ i \in 1..p /\ cdn'[NodeOf(i)] = cdn[NodeOf(i)] /\ NodeOf(i) \in Node
        /\ HeadOf(i) \in Nat /\ OnStack(NodeOf(i))
    BY <1>s, <1>t DEF Shrinks, Active, Framed
  <2>2. HeadReached(i) /\ HeadOf(i) <= cdn[NodeOf(i)] /\ \A k \in Nat : Opened(k) /\ k < i => Nr(k) < HeadOf(i)
    BY <2>1 DEF HeadRight
  <2>3. NodeOf(i) # x
    BY <2>1 DEF PopPlaced
  <2>4. PICK z \in Node : OnStack(z) /\ cdn[z] = HeadOf(i) /\ Inside(succs, From(HeadOf(i)), NodeOf(i), z)
    BY <2>2 DEF HeadReached
  <2>5. z # x
    <3>1. OnStack(NodeOf(i))' /\ NodeOf(i)' = NodeOf(i) BY <1>s, <1>t, <2>1, <2>3 DEF Shrinks
    <3>2. OnStack(x) => cdn[NodeOf(i)] < cdn[x] BY <2>1, <3>1 DEF PopPlaced
    <3> QED BY <3>2, <2>1, <2>2, <2>4, <1>t
  <2>6. NodeOf(i) \in From(HeadOf(i)) /\ z \in From(HeadOf(i))
    BY <2>1, <2>2, <2>4 DEF From
  <2>7. Inside(succs, From(HeadOf(i))', NodeOf(i), z)
    BY <2>1, <2>3, <2>4, <2>5, <2>6, <1>t, PopPlacedPaths
  <2>8. OnStack(z)' /\ cdn'[z] = HeadOf(i)
    BY <1>s, <2>4, <2>5 DEF Shrinks
  <2>9. HeadReached(i)'
    BY <2>7, <2>8, <2>1, <1>t DEF HeadReached
  <2>10. ASSUME NEW k \in Nat, Opened(k)', k < i PROVE Nr(k)' < HeadOf(i)'
    <3>1. Opened(k) /\ k \in 1..p /\ Visiting(k) BY <1>t, <2>10 DEF Opened
    <3>2. Nr(k)' = Nr(k) BY <1>s, <3>1 DEF Shrinks
    <3> QED BY <2>1, <2>2, <2>10, <1>t, <3>1, <3>2
  <2> QED BY <2>1, <2>2, <2>9, <2>10, <1>t
<1>5. LoopRight'
  <2> SUFFICES ASSUME NEW i \in Nat, Active(i)', Loops(i)', ~(HeadOf(i)' < cdn'[NodeOf(i)'])
               PROVE  \E y \in From(cdn[NodeOf(i)])' : Follows(y, NodeOf(i))'
    BY DEF LoopRight
  <2>1. Active(i) /\ i \in 1..p /\ cdn'[NodeOf(i)] = cdn[NodeOf(i)] /\ NodeOf(i) \in Node
        /\ Visiting(i) /\ OnStack(NodeOf(i)) /\ NodeOf(i) # x /\ NodeOf(i)' = NodeOf(i)
    BY <1>s, <1>t DEF Shrinks, Active, Framed, PopPlaced
  <2>2. PICK y \in From(cdn[NodeOf(i)]) : Follows(y, NodeOf(i))
    BY <2>1, <1>t DEF LoopRight
  <2>3. y # x
    <3>1. ~IsPlaced(NodeOf(i)) BY <2>1 DEF OnStack, IsPlaced
    <3>2. y \in Node /\ ~IsPlaced(y) BY DEF From, OnStack, IsPlaced
    <3> QED BY <2>1, <2>2, <3>1, <3>2, <1>t DEF PopPlaced
  <2>4. \A h \in Nat : y \in From(h) => y \in From(h)'
    BY <1>s, <2>3 DEF Shrinks
  <2>5. PICK h \in Nat : h = cdn[NodeOf(i)] BY <1>t, <2>1
  <2>6. From(cdn[NodeOf(i)])' = From(h)' BY <2>1, <2>5
  <2>7. y \in From(h)' BY <2>4, <2>5
  <2> QED BY <1>s, <2>1, <2>2, <2>6, <2>7 DEF Shrinks
<1>u. ASSUME NEW i \in Nat, Active(i)', NEW y \in Node, Under(i, y)' PROVE Under(i, y)
  <2>1. Active(i) /\ i \in 1..p /\ cdn'[NodeOf(i)] = cdn[NodeOf(i)] /\ Visiting(i) /\ NodeOf(i)' = NodeOf(i)
    BY <1>s, <1>t, <1>u DEF Shrinks, Active
  <2>2. OnStack(y)' /\ cdn'[y] = cdn[y] /\ OnStack(y)
    BY <1>s, <1>u DEF Shrinks, Under
  <2>3. ASSUME NEW j \in Nat, Visiting(j), i < j PROVE cdn[y] < Nr(j)
    <3>1. CASE j <= p
      <4>1. Visiting(j)' /\ Nr(j)' = Nr(j) BY <1>s, <1>t, <2>3, <3>1 DEF Shrinks
      <4> QED BY <1>u, <4>1, <2>2, <2>3 DEF Under
    <3>2. CASE p < j
      BY <3>2, <2>2, <2>3 DEF PopPlaced
    <3> QED BY <3>1, <3>2, <1>t
  <2> QED BY <1>u, <2>1, <2>2, <2>3 DEF Under
<1>6. LowLink'
  <2> SUFFICES ASSUME NEW i \in Nat, Active(i)', NEW y \in Node, NEW z \in Node,
                      Under(i, y)', Follows(y, z)', OnStack(z)'
               PROVE  (y = NodeOf(i)' /\ Due(i, z)') \/ HeadOf(i)' <= cdn'[z]
    BY DEF LowLink
  <2>1. Under(i, y) /\ Follows(y, z) /\ OnStack(z) /\ Active(i) /\ cdn'[z] = cdn[z] /\ i \in 1..p /\ z # x
    BY <1>u, <1>s, <1>t DEF Shrinks, Active
  <2>2. (y = NodeOf(i) /\ Due(i, z)) \/ HeadOf(i) <= cdn[z]
    BY <2>1 DEF LowLink
  <2>3. Due(i, z) => Due(i, z)'
    BY <2>1, <1>t DEF PopPlaced, Kept
  <2> QED BY <2>1, <2>2, <2>3, <1>t
<1>7. Explored'
  <2> SUFFICES ASSUME NEW y \in Node, NEW z \in Node, OnStack(y)', Follows(y, z)', ~IsPlaced(z)',
                      ~(\E i \in Nat : Active(i)' /\ y = NodeOf(i)' /\ Due(i, z)')
               PROVE  OnStack(z)' /\ \A j \in Nat : Visiting(j)' /\ cdn'[y] < Nr(j)' => cdn'[z] < Nr(j)'
    BY DEF Explored
  <2>1. OnStack(y) /\ y # x /\ Follows(y, z) /\ ~IsPlaced(z) /\ z # x /\ cdn'[y] = cdn[y]
    BY <1>s DEF Shrinks
  <2>2. ASSUME NEW i \in Nat, Active(i), y = NodeOf(i), Due(i, z) PROVE FALSE
    <3>1. CASE i <= p
      <4>1. Active(i)' /\ i \in 1..p /\ NodeOf(i)' = y BY <1>s, <1>t, <2>2, <3>1 DEF Shrinks, Active
      <4>2. Due(i, z)' BY <4>1, <2>1, <2>2, <1>t DEF PopPlaced, Kept
      <4> QED BY <4>1, <4>2
    <3>2. CASE p < i
      BY <3>2, <2>2, <1>t DEF PopPlaced, Active, Nr
    <3> QED BY <3>1, <3>2, <1>t
  <2>3. OnStack(z) /\ \A j \in Nat : Visiting(j) /\ cdn[y] < Nr(j) => cdn[z] < Nr(j)
    BY <2>1, <2>2 DEF Explored
  <2>4. OnStack(z)' /\ cdn'[z] = cdn[z] BY <2>3, <2>1, <1>s DEF Shrinks
  <2> QED BY <1>s, <1>t, <2>1, <2>3, <2>4 DEF Shrinks
<1>8. Quiet'
  <2> SUFFICES ASSUME NEW i \in Nat, Active(i)', ~Loops(i)'
               PROVE  /\ HeadOf(i)' = cdn'[NodeOf(i)']
                      /\ \A y \in Node : Under(i, y)' => y = NodeOf(i)'
                      /\ \A z \in Node : Follows(NodeOf(i), z)' => Due(i, z)' \/ IsPlaced(z)'
    BY DEF Quiet
  <2>1. Active(i) /\ i \in 1..p /\ cdn'[NodeOf(i)] = cdn[NodeOf(i)] /\ ~Loops(i) /\ NodeOf(i)' = NodeOf(i)
    BY <1>s, <1>t DEF Shrinks, Active
  <2>2. /\ HeadOf(i) = cdn[NodeOf(i)]
        /\ \A y \in Node : Under(i, y) => y = NodeOf(i)
        /\ \A z \in Node : Follows(NodeOf(i), z) => Due(i, z) \/ IsPlaced(z)
    BY <2>1 DEF Quiet
  <2>3. \A z \in Node : Due(i, z) => Due(i, z)' \/ z = x
    BY <2>1, <1>t DEF PopPlaced, Kept
  <2>4. ASSUME NEW z \in Node, Follows(NodeOf(i), z)' PROVE Due(i, z)' \/ IsPlaced(z)'
    <3>1. Follows(NodeOf(i), z) BY <2>1, <2>4, <1>s DEF Shrinks
    <3> QED BY <2>2, <2>3, <3>1, <1>s DEF Shrinks
  <2> QED BY <2>1, <2>2, <2>4, <1>u, <1>t
<1>9. Settled'
  <2> SUFFICES ASSUME NEW i \in Nat, Opened(i)'
               PROVE  /\ \A y \in Node : OnStack(y)' /\ Nr(i)' <= cdn'[y] =>
                           \E j \in Nat : Visiting(j)' /\ i < j /\ Nr(j)' <= cdn'[y]
                      /\ \A z \in Node : Follows(NodeOf(i), z)' => Due(i + 1, z)' \/ IsPlaced(z)'
    BY DEF Settled
  <2>1. Opened(i) /\ i \in 1..p /\ i # p /\ i + 1 \in 1..p /\ Visiting(i) /\ NodeOf(i)' = NodeOf(i) /\ Nr(i)' = Nr(i)
    <3>1. Opened(i) /\ i \in 1..p /\ Visiting(i) /\ i # p BY <1>t DEF Opened, PopPlaced, Kept
    <3> QED BY <3>1, <1>t, <1>s DEF Shrinks
  <2>2. ASSUME NEW y \in Node, OnStack(y)', Nr(i)' <= cdn'[y]
        PROVE  \E j \in Nat : Visiting(j)' /\ i < j /\ Nr(j)' <= cdn'[y]
    <3>1. OnStack(y) /\ cdn'[y] = cdn[y] BY <2>2, <1>s DEF Shrinks
    <3>2. PICK j \in Nat : Visiting(j) /\ i < j /\ Nr(j) <= cdn[y] BY <2>1, <2>2, <3>1 DEF Settled
    <3>3. j <= p BY <2>2, <3>1, <3>2, <1>t DEF PopPlaced
    <3> QED BY <3>1, <3>2, <3>3, <1>t, <1>s DEF Shrinks
  <2>3. ASSUME NEW z \in Node, Follows(NodeOf(i), z)' PROVE Due(i + 1, z)' \/ IsPlaced(z)'
    <3>1. Due(i + 1, z) \/ IsPlaced(z) BY <2>1, <2>3, <1>s DEF Settled, Shrinks
    <3>2. Due(i + 1, z) => Due(i + 1, z)' \/ z = x BY <2>1, <1>t DEF PopPlaced, Kept
    <3> QED BY <3>1, <3>2, <1>s DEF Shrinks
  <2> QED BY <2>2, <2>3
<1>10. Down'
  <2> SUFFICES ASSUME NEW i \in Nat, Active(i)', NEW y \in From(cdn[NodeOf(i)])',
                      \A k \in Nat : Opened(k)' /\ i < k => cdn'[y] < Nr(k)'
               PROVE  Inside(succs, From(cdn[NodeOf(i)]), NodeOf(i), y)'
    BY DEF Down
  <2>1. Active(i) /\ i \in 1..p /\ cdn'[NodeOf(i)] = cdn[NodeOf(i)] /\ NodeOf(i) \in Node
        /\ Visiting(i) /\ OnStack(NodeOf(i)) /\ NodeOf(i) # x /\ NodeOf(i)' = NodeOf(i)
    BY <1>s, <1>t DEF Shrinks, Active, Framed, PopPlaced
  <2>2. PICK h \in Nat : h = cdn[NodeOf(i)] BY <1>t, <2>1
  <2>3. From(cdn[NodeOf(i)])' = From(h)' BY <2>1, <2>2
  <2>4. y \in From(h) /\ y # x /\ y \in Node /\ OnStack(y)' /\ cdn'[y] = cdn[y]
    <3>1. y \in From(h) /\ y # x BY <2>3, <1>s DEF Shrinks
    <3> QED BY <3>1, <1>s DEF Shrinks, From
  <2>5. \A k \in Nat : Opened(k) /\ i < k => cdn[y] < Nr(k)
    <3>1. ASSUME NEW k \in Nat, Opened(k), i < k PROVE cdn[y] < Nr(k)
      <4>1. CASE k <= p
        <5>1. Opened(k)' /\ Nr(k)' = Nr(k) BY <4>1, <3>1, <1>t, <1>s DEF Shrinks, Opened
        <5> QED BY <5>1, <3>1, <2>4
      <4>2. CASE p < k
        BY <4>2, <3>1, <2>4 DEF PopPlaced, Opened
      <4> QED BY <4>1, <4>2, <1>t
    <3> QED BY <3>1
  <2>6. Inside(succs, From(h), NodeOf(i), y) BY <2>1, <2>2, <2>4, <2>5 DEF Down
  <2>7. NodeOf(i) \in From(h) BY <2>1, <2>2, <1>t DEF From
  <2>8. Inside(succs, From(h)', NodeOf(i), y)
    BY <2>1, <2>4, <2>6, <2>7, PopPlacedPaths
  <2> QED BY <2>1, <2>3, <2>8, <1>t
<1>11. Up'
  <2> SUFFICES ASSUME NEW y \in Node, OnStack(y)' PROVE \E i \in Nat : Active(i)' /\ UpTo(i, y)'
    BY DEF Up
  <2>1. OnStack(y) /\ y # x /\ cdn'[y] = cdn[y] BY <1>s DEF Shrinks
  <2>2. PICK i \in Nat : Active(i) /\ UpTo(i, y) BY <2>1 DEF Up
  <2>3. Visiting(i) /\ ~Opened(i) /\ NodeOf(i) \in Node /\ OnStack(NodeOf(i)) /\ Nr(i) = cdn[NodeOf(i)]
    BY <1>t, <2>2 DEF Active, Framed, Nr
  <2>4. cdn[NodeOf(i)] <= cdn[y] BY <2>2, <2>3, <1>t DEF UpTo
  <2>5. i <= p BY <2>3, <2>4, <1>t DEF PopPlaced
  <2>6. i \in 1..p /\ Active(i)' /\ NodeOf(i)' = NodeOf(i) /\ NodeOf(i) # x /\ cdn'[NodeOf(i)] = cdn[NodeOf(i)]
    BY <2>2, <2>3, <2>5, <1>s, <1>t DEF Shrinks, PopPlaced
  <2>7. PICK h \in Nat : h = cdn[NodeOf(i)] BY <1>t, <2>3
  <2>8. y \in From(h) /\ NodeOf(i) \in From(h) BY <2>1, <2>3, <2>4, <2>7, <1>t DEF From
  <2>9. Inside(succs, From(h), y, NodeOf(i)) => Inside(succs, From(h)', y, NodeOf(i))
    BY <2>1, <2>6, <2>8, PopPlacedPaths
  <2>10. UpTo(i, y)' BY <2>1, <2>2, <2>6, <2>7, <2>9, <1>t DEF UpTo
  <2> QED BY <2>6, <2>10
<1>12. Finished'
  <2> SUFFICES ASSUME NEW n \in Node, IsPlaced(n)', NEW z \in Node, Follows(n, z)', ~IsPlaced(z)'
               PROVE  \E k \in Nat : Opened(k)' /\ n = NodeOf(k)'
    BY DEF Finished
  <2>1. (IsPlaced(n) \/ n = x) /\ Follows(n, z) /\ ~IsPlaced(z) BY <1>s DEF Shrinks
  <2>2. CASE p < Len(frames)
    <3>1. n # x /\ IsPlaced(n) BY <2>1, <2>2 DEF PopPlaced
    <3>2. PICK k \in Nat : Opened(k) /\ n = NodeOf(k) BY <2>1, <3>1 DEF Finished
    <3>3. k <= p BY <3>1, <3>2, <1>t DEF PopPlaced
    <3> QED BY <3>2, <3>3, <1>t DEF Opened
  <2>3. CASE p = Len(frames)
    <3>1. IsPlaced(n) BY <2>1, <2>3 DEF PopPlaced
    <3>2. PICK k \in Nat : Opened(k) /\ n = NodeOf(k) BY <2>1, <3>1 DEF Finished
    <3>3. k <= p BY <3>2, <2>3, <1>t DEF Opened
    <3> QED BY <3>2, <3>3, <1>t DEF Opened
  <2> QED BY <2>2, <2>3, <1>t
<1>13. Reached(e)'
  <2>1. ReachableFrom(e)' = ReachableFrom(e) BY <1>t DEF ReachableFrom
  <2>2. \A y \in Node : cdn'[y] # 0 => y \in ReachableFrom(e)
    BY <1>t DEF Reached, PopPlaced
  <2>3. \A i \in 1..Len(frames)' : NodeOf(i)' \in ReachableFrom(e)
    BY <1>t DEF Reached, PopPlaced, Kept
  <2> QED BY <2>1, <2>2, <2>3 DEF Reached
<1> QED BY <1>1, <1>2, <1>3, <1>4, <1>5, <1>6, <1>7, <1>8, <1>9, <1>10, <1>11, <1>12, <1>13

\* The p-th call, of visit, learns that the node x on the stack leads to number m.
PopStack(p, x, m) ==
    /\ Kept(p) /\ x \in Node /\ p > 0 /\ m \in Nat /\ Active(p) /\ cdn' = cdn
    /\ Follows(NodeOf(p), x) /\ OnStack(x) /\ m <= cdn[x]
    /\ HeadOf(p)' = IF m <= HeadOf(p) THEN m ELSE HeadOf(p)
    /\ Loops(p)' <=> Loops(p) \/ m <= HeadOf(p)
    /\ \A y \in Node : Due(p, y) => Due(p, y)' \/ y = x
    /\ \A k \in Nat : Opened(k) /\ k < p => Nr(k) < m
    /\ \E z \in Node : OnStack(z) /\ cdn[z] = m /\ Inside(succs, From(m), x, z)
    /\ p < Len(frames) => /\ p + 1 = Len(frames) /\ Active(p + 1) /\ NodeOf(p + 1) = x
                          /\ m = HeadOf(p + 1) /\ m < cdn[x] /\ \A y \in Node : ~Due(p + 1, y)

LEMMA PopStackKeeps ==
    ASSUME Typed, NEW e, Dfs(e), NEW p, NEW x, NEW m, PopStack(p, x, m)
    PROVE  Dfs(e)'
<1> USE DEF Dfs
<1>t. /\ p \in Nat /\ p \in 1..p /\ Len(frames) \in Nat /\ Len(frames)' = p /\ x \in Node /\ p <= Len(frames) /\ m \in Nat
      /\ \A y \in Node : cdn[y] \in Nat
      /\ \A i \in Nat : Visiting(i) => i \in 1..Len(frames) /\ Nr(i) \in Nat /\ NodeOf(i) \in Node /\ HeadOf(i) \in Nat
      /\ num \in Nat /\ num' = num /\ succs' = succs /\ cdn' = cdn /\ frames # <<>> /\ frames' # <<>>
      /\ \A i \in Nat : Visiting(i)' <=> Visiting(i) /\ i <= p
      /\ \A i \in Nat : Opened(i)' <=> Opened(i) /\ i <= p
      /\ \A i \in 1..p : NodeOf(i)' = NodeOf(i)
      /\ \A i \in 1..p : i # p => HeadOf(i)' = HeadOf(i) /\ Loops(i)' = Loops(i)
      /\ \A j \in Nat : Visiting(j) /\ p < j => j = p + 1 /\ p < Len(frames)
      /\ Active(p) /\ NodeOf(p) \in Node /\ OnStack(x)
  <2>1. Active(p) /\ Visiting(p) /\ frames # <<>> BY DEF PopStack, Active, Kept
  <2>2. /\ p \in Nat /\ p \in 1..p /\ Len(frames) \in Nat /\ Len(frames)' = p /\ x \in Node /\ p <= Len(frames) /\ m \in Nat
        /\ \A y \in Node : cdn[y] \in Nat
        /\ num \in Nat /\ num' = num /\ succs' = succs /\ cdn' = cdn /\ OnStack(x)
    BY CallTypes DEF PopStack, Kept, Typed
  <2>3. frames' # <<>> BY <2>2 DEF PopStack, Kept
  <2>4. \A i \in Nat : Visiting(i) => i \in 1..Len(frames) /\ Nr(i) \in Nat /\ NodeOf(i) \in Node /\ HeadOf(i) \in Nat
    BY CallTypes
  <2>5. /\ \A i \in Nat : Visiting(i)' <=> Visiting(i) /\ i <= p
        /\ \A i \in Nat : Opened(i)' <=> Opened(i) /\ i <= p
        /\ \A i \in 1..p : NodeOf(i)' = NodeOf(i)
        /\ \A i \in 1..p : i # p => HeadOf(i)' = HeadOf(i) /\ Loops(i)' = Loops(i)
    BY DEF PopStack, Kept
  <2>6. p < Len(frames) => p + 1 = Len(frames) BY DEF PopStack
  <2>7. \A j \in Nat : Visiting(j) /\ p < j => j = p + 1 /\ p < Len(frames)
    BY <2>2, <2>4, <2>6
  <2> QED BY <2>1, <2>2, <2>3, <2>4, <2>5, <2>7
<1>s. /\ \A i \in Nat : Active(i)' <=> Active(i) /\ i <= p
      /\ \A y : OnStack(y)' <=> OnStack(y)
      /\ \A y : IsPlaced(y)' <=> IsPlaced(y)
      /\ \A y, z : Follows(y, z)' <=> Follows(y, z)
      /\ \A h \in Nat : From(h)' = From(h)
      /\ \A i \in 1..p : Visiting(i) => Nr(i)' = Nr(i)
      /\ \A i \in Nat : Active(i) => Nr(i) = cdn[NodeOf(i)] /\ Visiting(i) /\ ~Opened(i)
  <2>1. \A i \in Nat : Active(i)' <=> Active(i) /\ i <= p BY <1>t DEF Active
  <2>2. \A y : (OnStack(y)' <=> OnStack(y)) /\ (IsPlaced(y)' <=> IsPlaced(y)) BY <1>t DEF OnStack, IsPlaced
  <2>3. \A y, z : Follows(y, z)' <=> Follows(y, z) BY <1>t DEF Follows
  <2>4. \A h \in Nat : From(h)' = From(h) BY <1>t, <2>2 DEF From
  <2>5. \A i \in 1..p : Visiting(i) => Nr(i)' = Nr(i) BY <1>t DEF Nr, Active
  <2>6. \A i \in Nat : Active(i) => Nr(i) = cdn[NodeOf(i)] /\ Visiting(i) /\ ~Opened(i) BY DEF Active, Nr
  <2> QED BY <2>1, <2>2, <2>3, <2>4, <2>5, <2>6
<1>h. HeadOf(p) \in Nat /\ HeadOf(p)' \in Nat /\ HeadOf(p)' <= HeadOf(p) /\ HeadOf(p)' <= m
      /\ HeadOf(p) <= cdn[NodeOf(p)] /\ cdn[NodeOf(p)] \in Nat /\ NodeOf(p)' = NodeOf(p) /\ OnStack(NodeOf(p))
  <2>1. HeadOf(p) \in Nat BY <1>t, <1>s
  <2>2. HeadOf(p) <= cdn[NodeOf(p)] /\ OnStack(NodeOf(p)) BY <1>t DEF HeadRight, Framed
  <2> QED BY <1>t, <2>1, <2>2 DEF PopStack
<1>1. Numbered'
  BY <1>t, <1>s DEF Numbered
<1>2. Framed(e)'
  <2>0. Framed(e) OBVIOUS
  <2>1. Visiting(1)' /\ NodeOf(1)' = e
    BY <1>t, <2>0 DEF Framed
  <2>2. \A y \in Node : OnStack(y)' => Nr(1)' <= cdn'[y]
    <3>1. Visiting(1) /\ 1 \in 1..p /\ \A y \in Node : OnStack(y) => Nr(1) <= cdn[y]
      BY <1>t, <2>0, <2>1 DEF Framed
    <3> QED BY <3>1, <1>s, <1>t
  <2>4. \A i \in 1..Len(frames)' : ~Visiting(i)' => i > 1 /\ Opened(i - 1)'
    BY <1>t, <2>0 DEF Framed
  <2>5. ASSUME NEW i \in Nat, Opened(i)'
        PROVE  /\ NodeOf(i + 1)' = NodeOf(i)' /\ frames'[i].todo = <<>>
               /\ IsPlaced(NodeOf(i))' /\ HeadOf(i)' <= num'
    <3>1. Opened(i) /\ i \in 1..p /\ i # p
      BY <1>t, <2>5 DEF PopStack, Kept, Opened
    <3>2. i + 1 \in 1..p BY <1>t, <3>1
    <3>3. /\ NodeOf(i + 1) = NodeOf(i) /\ frames[i].todo = <<>>
          /\ IsPlaced(NodeOf(i)) /\ HeadOf(i) <= num
      BY <3>1, <2>0, <1>t DEF Framed
    <3>4. frames'[i] = frames[i] BY <3>1 DEF PopStack, Kept
    <3> QED BY <1>t, <3>1, <3>2, <3>3, <3>4 DEF IsPlaced
  <2>6. \A i \in Nat : Active(i)' => OnStack(NodeOf(i))'
    <3>1. ASSUME NEW i \in Nat, Active(i)' PROVE OnStack(NodeOf(i))'
      <4>1. Active(i) /\ i \in 1..p /\ OnStack(NodeOf(i)) /\ NodeOf(i)' = NodeOf(i)
        BY <1>s, <1>t, <2>0, <3>1 DEF Framed
      <4> QED BY <4>1, <1>t DEF OnStack
    <3> QED BY <3>1
  <2>7. ASSUME NEW i \in 1..Len(frames)', Visiting(i + 1)'
        PROVE  frames'[i].todo # <<>> /\ Head(frames'[i].todo) = NodeOf(i + 1)'
    <3>1. i \in 1..p /\ i + 1 \in 1..p /\ i # p /\ i + 1 \in Nat /\ Visiting(i + 1)
      BY <1>t, <2>7
    <3>2. frames[i].todo # <<>> /\ Head(frames[i].todo) = NodeOf(i + 1) /\ frames'[i] = frames[i]
      BY <1>t, <2>0, <3>1 DEF Framed, PopStack, Kept
    <3> QED BY <1>t, <3>1, <3>2
  <2>8. ASSUME NEW i \in 1..Len(frames)', NEW y \in Node, Due(i, y)' PROVE Follows(NodeOf(i), y)'
    <3>1. i \in 1..p /\ i \in 1..Len(frames) /\ Due(i, y) BY <1>t, <2>8 DEF PopStack, Kept
    <3>2. Follows(NodeOf(i), y) BY <2>0, <3>1 DEF Framed
    <3> QED BY <1>t, <3>1, <3>2 DEF Follows
  <2> QED BY <1>t, <2>1, <2>2, <2>4, <2>5, <2>6, <2>7, <2>8 DEF Framed
<1>3. PathRight'
  BY <1>s, <1>t DEF PathRight
<1>z. PICK z \in Node : OnStack(z) /\ cdn[z] = m /\ Inside(succs, From(m), x, z)
  BY DEF PopStack
<1>4. HeadRight'
  <2> SUFFICES ASSUME NEW i \in Nat, Active(i)'
               PROVE  /\ HeadReached(i)'
                      /\ HeadOf(i)' <= cdn'[NodeOf(i)']
                      /\ \A k \in Nat : Opened(k)' /\ k < i => Nr(k)' < HeadOf(i)'
    BY DEF HeadRight
  <2>1. Active(i) /\ i \in 1..p /\ NodeOf(i)' = NodeOf(i) /\ Visiting(i)
    BY <1>s, <1>t
  <2>2. HeadReached(i) /\ HeadOf(i) <= cdn[NodeOf(i)] /\ \A k \in Nat : Opened(k) /\ k < i => Nr(k) < HeadOf(i)
    BY <2>1 DEF HeadRight
  <2>3. CASE i = p /\ m <= HeadOf(p)
    <3>1. HeadOf(i)' = m BY <2>3 DEF PopStack
    <3>2. m <= cdn[NodeOf(p)] BY <1>h, <2>3, <1>t
    <3>3. x \in From(m) /\ NodeOf(p) \in From(m) BY <1>t, <1>h, <3>2 DEF From, PopStack
    <3>4. Inside(succs, From(m), NodeOf(p), x) BY <3>3, InsideStep DEF PopStack, Follows
    <3>5. Inside(succs, From(m), NodeOf(p), z) BY <3>4, <1>z, InsideJoins
    <3>6. Inside(succs, From(HeadOf(i)), NodeOf(i), z)' BY <2>1, <2>3, <3>1, <3>5, <1>s, <1>t
    <3>7. HeadReached(i)' BY <3>6, <3>1, <1>z, <1>s, <1>t DEF HeadReached
    <3>8. \A k \in Nat : Opened(k)' /\ k < i => Nr(k)' < HeadOf(i)'
      BY <2>3, <3>1, <1>s, <1>t DEF PopStack, Opened
    <3> QED BY <3>1, <3>2, <3>7, <3>8, <2>1, <2>3, <1>t
  <2>4. CASE ~(i = p /\ m <= HeadOf(p))
    <3>1. HeadOf(i)' = HeadOf(i) /\ HeadOf(i) \in Nat BY <2>4, <2>1, <1>t DEF PopStack
    <3>2. PICK w \in Node : OnStack(w) /\ cdn[w] = HeadOf(i) /\ Inside(succs, From(HeadOf(i)), NodeOf(i), w)
      BY <2>2 DEF HeadReached
    <3>3. Inside(succs, From(HeadOf(i)), NodeOf(i), w)' BY <2>1, <3>1, <3>2, <1>s, <1>t
    <3>4. HeadReached(i)' BY <3>1, <3>2, <3>3, <1>s, <1>t DEF HeadReached
    <3>5. \A k \in Nat : Opened(k)' /\ k < i => Nr(k)' < HeadOf(i)'
      <4>1. ASSUME NEW k \in Nat, Opened(k)', k < i PROVE Nr(k)' < HeadOf(i)'
        <5>1. Opened(k) /\ k \in 1..p /\ Visiting(k) BY <1>t, <4>1 DEF Opened
        <5> QED BY <5>1, <4>1, <3>1, <2>2, <1>s
      <4> QED BY <4>1
    <3> QED BY <3>1, <3>4, <3>5, <2>1, <2>2, <1>t
  <2> QED BY <2>3, <2>4
<1>5. LoopRight'
  <2> SUFFICES ASSUME NEW i \in Nat, Active(i)', Loops(i)', ~(HeadOf(i)' < cdn'[NodeOf(i)'])
               PROVE  \E y \in From(cdn[NodeOf(i)])' : Follows(y, NodeOf(i))'
    BY DEF LoopRight
  <2>1. Active(i) /\ i \in 1..p /\ NodeOf(i) \in Node /\ Visiting(i) /\ NodeOf(i)' = NodeOf(i)
    BY <1>s, <1>t
  <2>2. PICK h \in Nat : h = cdn[NodeOf(i)] BY <1>t, <2>1
  <2>3. From(cdn[NodeOf(i)])' = From(h) BY <2>1, <2>2, <1>s, <1>t
  <2>4. CASE i = p /\ ~Loops(p)
    <3>1. m <= HeadOf(p) /\ HeadOf(p)' = m BY <2>4 DEF PopStack
    <3>2. m = h BY <1>h, <2>2, <2>1, <2>4, <3>1, <1>t
    <3>3. z = NodeOf(p) BY <3>2, <2>2, <2>4, <1>z, <1>t, <2>1 DEF Numbered
    <3>4. x \in From(h) BY <3>2, <1>t DEF From, PopStack
    <3>5. \E y \in From(h) : Follows(y, NodeOf(p))
      <4>1. CASE x = NodeOf(p) BY <4>1, <3>4 DEF PopStack
      <4>2. CASE x # NodeOf(p) BY <4>2, <3>2, <3>3, <3>4, <1>z, InsideEnds DEF Follows
      <4> QED BY <4>1, <4>2
    <3> QED BY <3>5, <2>3, <2>1, <2>4, <1>s
  <2>5. CASE ~(i = p /\ ~Loops(p))
    <3>1. Loops(i) /\ ~(HeadOf(i) < cdn[NodeOf(i)])
      BY <2>5, <2>1, <1>t, <1>h
    <3>2. \E y \in From(h) : Follows(y, NodeOf(i)) BY <3>1, <2>1, <2>2 DEF LoopRight
    <3> QED BY <3>2, <2>3, <2>1, <1>s
  <2> QED BY <2>4, <2>5
<1>u. ASSUME NEW i \in Nat, Active(i)', NEW y \in Node, Under(i, y)'
      PROVE  Under(i, y) \/ (i = p /\ p < Len(frames) /\ Under(p + 1, y))
  <2>1. Active(i) /\ i \in 1..p /\ Visiting(i) /\ NodeOf(i)' = NodeOf(i)
    BY <1>s, <1>t, <1>u
  <2>2. OnStack(y) /\ cdn[NodeOf(i)] <= cdn[y] BY <1>s, <1>t, <1>u, <2>1 DEF Under
  <2>3. \A j \in Nat : Visiting(j) /\ i < j /\ j <= p => cdn[y] < Nr(j)
    <3>1. ASSUME NEW j \in Nat, Visiting(j), i < j, j <= p PROVE cdn[y] < Nr(j)
      <4>1. Visiting(j)' /\ Nr(j)' = Nr(j) BY <3>1, <1>s, <1>t
      <4> QED BY <4>1, <3>1, <1>u, <1>t DEF Under
    <3> QED BY <3>1
  <2>4. CASE p = Len(frames)
    <3>1. \A j \in Nat : Visiting(j) => j <= p BY <2>4, <1>t
    <3> QED BY <3>1, <2>2, <2>3 DEF Under
  <2>5. CASE i < p
    <3>1. cdn[y] < Nr(p) /\ Visiting(p) BY <2>3, <2>5, <1>s, <1>t
    <3>2. ASSUME NEW j \in Nat, Visiting(j), p < j PROVE cdn[y] < Nr(j)
      BY <3>1, <3>2, <1>t DEF PathRight
    <3> QED BY <3>2, <2>2, <2>3, <1>t DEF Under
  <2>6. CASE i = p /\ p < Len(frames)
    <3>1. p + 1 \in Nat /\ Active(p + 1) /\ Visiting(p + 1) /\ Nr(p + 1) = cdn[NodeOf(p + 1)]
      BY <2>6, <1>s, <1>t DEF PopStack
    <3>2. \A j \in Nat : ~(Visiting(j) /\ p + 1 < j) BY <1>t
    <3>3. CASE cdn[y] < Nr(p + 1)
      BY <3>3, <2>2, <2>3, <2>6, <1>t DEF Under
    <3>4. CASE ~(cdn[y] < Nr(p + 1))
      BY <3>1, <3>2, <3>4, <2>2, <2>6, <1>t DEF Under
    <3> QED BY <3>3, <3>4
  <2> QED BY <2>4, <2>5, <2>6, <2>1, <1>t
<1>6. LowLink'
  <2> SUFFICES ASSUME NEW i \in Nat, Active(i)', NEW y \in Node, NEW w \in Node,
                      Under(i, y)', Follows(y, w)', OnStack(w)'
               PROVE  (y = NodeOf(i)' /\ Due(i, w)') \/ HeadOf(i)' <= cdn'[w]
    BY DEF LowLink
  <2>1. Follows(y, w) /\ OnStack(w) /\ Active(i) /\ i \in 1..p /\ NodeOf(i)' = NodeOf(i) /\ cdn[w] \in Nat
    BY <1>s, <1>t
  <2>2. CASE Under(i, y)
    <3>1. (y = NodeOf(i) /\ Due(i, w)) \/ HeadOf(i) <= cdn[w]
      BY <2>1, <2>2 DEF LowLink
    <3>2. Due(i, w) => Due(i, w)' \/ (i = p /\ w = x)
      BY <2>1, <1>t DEF PopStack, Kept
    <3>3. i = p /\ w = x => HeadOf(i)' <= cdn[w] BY <1>h, <1>t, <2>1 DEF PopStack
    <3>4. HeadOf(i) <= cdn[w] => HeadOf(i)' <= cdn[w]
      <4>1. CASE i = p BY <4>1, <1>h, <2>1
      <4>2. CASE i # p BY <4>2, <1>t, <2>1
      <4> QED BY <4>1, <4>2
    <3> QED BY <2>1, <3>1, <3>2, <3>3, <3>4, <1>t
  <2>3. CASE i = p /\ p < Len(frames) /\ Under(p + 1, y)
    <3>1. Active(p + 1) /\ m = HeadOf(p + 1) /\ ~Due(p + 1, w) /\ p + 1 \in Nat BY <2>3, <1>t DEF PopStack
    <3>2. m <= cdn[w] BY <3>1, <2>1, <2>3 DEF LowLink
    <3> QED BY <3>2, <2>3, <1>h, <2>1, <1>t
  <2> QED BY <1>u, <2>2, <2>3
<1>7. Explored'
  <2> SUFFICES ASSUME NEW y \in Node, NEW w \in Node, OnStack(y)', Follows(y, w)', ~IsPlaced(w)',
                      ~(\E i \in Nat : Active(i)' /\ y = NodeOf(i)' /\ Due(i, w)')
               PROVE  OnStack(w)' /\ \A j \in Nat : Visiting(j)' /\ cdn'[y] < Nr(j)' => cdn'[w] < Nr(j)'
    BY DEF Explored
  <2>1. OnStack(y) /\ Follows(y, w) /\ ~IsPlaced(w) BY <1>s
  <2>2. ASSUME NEW i \in Nat, Active(i), y = NodeOf(i), Due(i, w) PROVE i = p /\ w = x
    <3>1. CASE i <= p
      <4>1. Active(i)' /\ i \in 1..p /\ NodeOf(i)' = y BY <1>s, <1>t, <2>2, <3>1
      <4>2. ~Due(i, w)' BY <4>1
      <4> QED BY <4>1, <4>2, <2>2, <1>t DEF PopStack, Kept
    <3>2. CASE p < i
      BY <3>2, <2>2, <1>s, <1>t DEF PopStack
    <3> QED BY <3>1, <3>2, <1>t
  <2>3. CASE y = NodeOf(p) /\ w = x
    <3>1. \A j \in Nat : Visiting(j)' => ~(cdn[y] < Nr(j))
      BY <2>3, <1>s, <1>t DEF PathRight
    <3> QED BY <3>1, <2>3, <1>s, <1>t
  <2>4. CASE ~(y = NodeOf(p) /\ w = x)
    <3>1. OnStack(w) /\ \A j \in Nat : Visiting(j) /\ cdn[y] < Nr(j) => cdn[w] < Nr(j)
      BY <2>1, <2>2, <2>4 DEF Explored
    <3> QED BY <3>1, <1>s, <1>t
  <2> QED BY <2>3, <2>4
<1>8. Quiet'
  <2> SUFFICES ASSUME NEW i \in Nat, Active(i)', ~Loops(i)'
               PROVE  /\ HeadOf(i)' = cdn'[NodeOf(i)']
                      /\ \A y \in Node : Under(i, y)' => y = NodeOf(i)'
                      /\ \A w \in Node : Follows(NodeOf(i), w)' => Due(i, w)' \/ IsPlaced(w)'
    BY DEF Quiet
  <2>1. Active(i) /\ i \in 1..p /\ ~Loops(i) /\ NodeOf(i)' = NodeOf(i)
    BY <1>s, <1>t DEF PopStack
  <2>2. /\ HeadOf(i) = cdn[NodeOf(i)]
        /\ \A y \in Node : Under(i, y) => y = NodeOf(i)
        /\ \A w \in Node : Follows(NodeOf(i), w) => Due(i, w) \/ IsPlaced(w)
    BY <2>1 DEF Quiet
  <2>3. i # p
    <3> SUFFICES ASSUME i = p PROVE FALSE OBVIOUS
    <3>1. HeadOf(p) < m BY <2>1, <1>h, <1>t DEF PopStack
    <3>2. ASSUME NEW j \in Nat, Visiting(j), p < j PROVE cdn[z] < Nr(j)
      <4>1. Active(p + 1) /\ NodeOf(p + 1) = x /\ m < cdn[x] /\ j = p + 1 BY <3>2, <1>t DEF PopStack
      <4> QED BY <4>1, <3>2, <1>s, <1>z
    <3>3. Under(p, z) BY <3>1, <3>2, <2>2, <1>z, <1>t, <1>h DEF Under
    <3> QED BY <3>1, <3>3, <2>2, <1>z, <1>t, <1>h
  <2>4. \A w \in Node : Due(i, w) => Due(i, w)'
    BY <2>1, <2>3, <1>t DEF PopStack, Kept
  <2>5. \A y \in Node : Under(i, y)' => y = NodeOf(i)' BY <2>1, <2>2, <2>3, <1>u
  <2> QED BY <2>1, <2>2, <2>3, <2>4, <2>5, <1>s, <1>t
<1>9. Settled'
  <2> SUFFICES ASSUME NEW i \in Nat, Opened(i)'
               PROVE  /\ \A y \in Node : OnStack(y)' /\ Nr(i)' <= cdn'[y] =>
                           \E j \in Nat : Visiting(j)' /\ i < j /\ Nr(j)' <= cdn'[y]
                      /\ \A w \in Node : Follows(NodeOf(i), w)' => Due(i + 1, w)' \/ IsPlaced(w)'
    BY DEF Settled
  <2>1. Opened(i) /\ i \in 1..p /\ i # p /\ i + 1 \in 1..p /\ Visiting(i) /\ NodeOf(i)' = NodeOf(i) /\ Nr(i)' = Nr(i)
    <3>1. Opened(i) /\ i \in 1..p /\ Visiting(i) /\ i # p BY <1>t DEF Opened, PopStack, Kept
    <3> QED BY <3>1, <1>t, <1>s
  <2>2. ASSUME NEW y \in Node, OnStack(y)', Nr(i)' <= cdn'[y]
        PROVE  \E j \in Nat : Visiting(j)' /\ i < j /\ Nr(j)' <= cdn'[y]
    <3>1. OnStack(y) /\ cdn'[y] = cdn[y] BY <2>2, <1>s, <1>t
    <3>2. PICK j \in Nat : Visiting(j) /\ i < j /\ Nr(j) <= cdn[y] BY <2>1, <2>2, <3>1 DEF Settled
    <3>3. CASE j <= p BY <3>1, <3>2, <3>3, <1>t, <1>s
    <3>4. CASE p < j
      <4>1. Visiting(p) /\ Nr(p) < Nr(j) BY <3>2, <3>4, <1>s, <1>t DEF PathRight
      <4>2. Nr(p) <= cdn[y] /\ i < p BY <4>1, <3>2, <2>1, <1>t
      <4> QED BY <4>1, <4>2, <1>s, <1>t
    <3> QED BY <3>3, <3>4, <1>t
  <2>3. ASSUME NEW w \in Node, Follows(NodeOf(i), w)' PROVE Due(i + 1, w)' \/ IsPlaced(w)'
    <3>1. Due(i + 1, w) \/ IsPlaced(w) BY <2>1, <2>3, <1>s DEF Settled
    <3>2. i + 1 # p BY <2>1, <1>s, <1>t DEF Opened, Visiting
    <3>3. Due(i + 1, w) => Due(i + 1, w)' BY <2>1, <3>2, <1>t DEF PopStack, Kept
    <3> QED BY <3>1, <3>3, <1>s
  <2> QED BY <2>2, <2>3
<1>10. Down'
  <2> SUFFICES ASSUME NEW i \in Nat, Active(i)', NEW y \in From(cdn[NodeOf(i)])',
                      \A k \in Nat : Opened(k)' /\ i < k => cdn'[y] < Nr(k)'
               PROVE  Inside(succs, From(cdn[NodeOf(i)]), NodeOf(i), y)'
    BY DEF Down
  <2>1. Active(i) /\ i \in 1..p /\ NodeOf(i) \in Node /\ Visiting(i) /\ NodeOf(i)' = NodeOf(i)
    BY <1>s, <1>t
  <2>2. PICK h \in Nat : h = cdn[NodeOf(i)] BY <1>t, <2>1
  <2>3. From(cdn[NodeOf(i)])' = From(h) BY <2>1, <2>2, <1>s, <1>t
  <2>5. \A k \in Nat : Opened(k) /\ i < k => cdn[y] < Nr(k)
    <3>1. ASSUME NEW k \in Nat, Opened(k), i < k PROVE cdn[y] < Nr(k)
      <4>0. Visiting(k) BY <3>1 DEF Opened
      <4>1. k <= p
        BY <3>1, <4>0, <1>s, <1>t DEF PopStack
      <4>2. Opened(k)' /\ Nr(k)' = Nr(k) BY <4>0, <4>1, <3>1, <1>t, <1>s
      <4> QED BY <4>2, <3>1, <1>t
    <3> QED BY <3>1
  <2>6. Inside(succs, From(h), NodeOf(i), y) BY <2>1, <2>2, <2>3, <2>5 DEF Down
  <2> QED BY <2>1, <2>3, <2>6, <1>t
<1>11. Up'
  <2>1. ASSUME NEW i \in Nat, Active(i), i <= p, NEW y \in Node, UpTo(i, y) PROVE Active(i)' /\ UpTo(i, y)'
    <3>1. i \in 1..p /\ NodeOf(i)' = NodeOf(i) /\ NodeOf(i) \in Node BY <2>1, <1>s, <1>t
    <3>2. PICK h \in Nat : h = cdn[NodeOf(i)] BY <3>1, <1>t
    <3> QED BY <2>1, <3>1, <3>2, <1>s, <1>t DEF UpTo
  <2> SUFFICES ASSUME NEW y \in Node, OnStack(y) PROVE \E i \in Nat : Active(i) /\ i <= p /\ UpTo(i, y)
    BY <2>1, <1>s DEF Up
  <2>2. PICK i \in Nat : Active(i) /\ UpTo(i, y) BY DEF Up
  <2>3. CASE i <= p BY <2>2, <2>3
  <2>4. CASE p < i
    <3>1. i = p + 1 /\ NodeOf(i) = x /\ m < cdn[x] BY <2>2, <2>4, <1>s, <1>t DEF PopStack
    <3>2. PICK k \in Nat : Active(k) /\ UpTo(k, z) BY <1>z DEF Up
    <3>3. Visiting(k) /\ NodeOf(k) \in Node /\ cdn[NodeOf(k)] <= m /\ OnStack(NodeOf(k))
      BY <3>2, <1>z, <1>s, <1>t DEF UpTo, Framed
    <3>4. k <= p
      <4> SUFFICES ASSUME p < k PROVE FALSE BY <1>t
      <4>1. k = i BY <3>1, <3>3, <1>t
      <4> QED BY <4>1, <3>1, <3>3, <1>t
    <3>5. PICK h \in Nat : h = cdn[NodeOf(k)] BY <3>3, <1>t
    <3>6. From(m) \subseteq From(h) /\ From(cdn[x]) \subseteq From(h) /\ x \in From(m)
      BY <3>1, <3>3, <3>5, <1>t DEF From
    <3>7. Inside(succs, From(h), x, z) BY <3>6, <1>z, InsideGrows
    <3>8. Inside(succs, From(h), z, NodeOf(k)) BY <3>2, <3>5, InsideSelf DEF UpTo
    <3>9. Inside(succs, From(h), x, NodeOf(k)) BY <3>7, <3>8, InsideJoins
    <3>10. Inside(succs, From(h), y, x) /\ cdn[x] <= cdn[y]
      <4>1. CASE y = x BY <4>1, <1>t, InsideSelf
      <4>2. CASE y # x
        <5>1. cdn[x] < cdn[y] /\ Inside(succs, From(cdn[x]), y, x) BY <4>2, <2>2, <3>1 DEF UpTo
        <5>2. y \in From(cdn[x]) BY <5>1, <1>t DEF From
        <5> QED BY <5>1, <5>2, <3>6, InsideGrows, <1>t
      <4> QED BY <4>1, <4>2
    <3>11. Inside(succs, From(h), y, NodeOf(k)) BY <3>9, <3>10, InsideJoins
    <3>12. cdn[NodeOf(k)] < cdn[y] BY <3>1, <3>3, <3>10, <1>t
    <3> QED BY <3>2, <3>4, <3>5, <3>11, <3>12 DEF UpTo
  <2> QED BY <2>3, <2>4, <1>t
<1>12. Finished'
  <2> SUFFICES ASSUME NEW n \in Node, IsPlaced(n)', NEW w \in Node, Follows(n, w)', ~IsPlaced(w)'
               PROVE  \E k \in Nat : Opened(k)' /\ n = NodeOf(k)'
    BY DEF Finished
  <2>1. IsPlaced(n) /\ Follows(n, w) /\ ~IsPlaced(w) BY <1>s
  <2>2. PICK k \in Nat : Opened(k) /\ n = NodeOf(k) BY <2>1 DEF Finished
  <2>3. Visiting(k) BY <2>2 DEF Opened
  <2>4. k <= p BY <2>2, <2>3, <1>s, <1>t DEF PopStack
  <2> QED BY <2>2, <2>3, <2>4, <1>t
<1>13. Reached(e)'
  <2>1. ReachableFrom(e)' = ReachableFrom(e) BY <1>t DEF ReachableFrom
  <2> QED BY <2>1, <1>t DEF Reached
<1> QED BY <1>1, <1>2, <1>3, <1>4, <1>5, <1>6, <1>7, <1>8, <1>9, <1>10, <1>11, <1>12, <1>13

\* The top call visits its next successor x.
Descends(l, x) ==
    /\ x \in Node /\ l \in Nat /\ l = Len(frames) /\ l > 0 /\ cdn[x] = 0 /\ num' = num + 1 /\ num' < UINT_MAX /\ succs' = succs
    /\ \A y \in Node : cdn'[y] = IF y = x THEN num + 1 ELSE cdn[y]
    /\ Len(frames)' = l + 1
    /\ \A i \in Nat : (Visiting(i)' <=> Visiting(i) \/ i = l + 1) /\ (Opened(i)' <=> Opened(i))
    /\ \A i \in 1..l :
         /\ frames'[i] = frames[i] /\ NodeOf(i)' = NodeOf(i) /\ HeadOf(i)' = HeadOf(i) /\ Loops(i)' = Loops(i)
         /\ \A y \in Node : Due(i, y)' <=> Due(i, y)
    /\ NodeOf(l + 1)' = x /\ HeadOf(l + 1)' = num + 1 /\ ~Loops(l + 1)'
    /\ \A y \in Node : Due(l + 1, y)' <=> Follows(x, y)
    /\ frames[l].todo # <<>> /\ Head(frames[l].todo) = x
    /\ Due(l, x) /\ Follows(NodeOf(l), x)

LEMMA DescendKeeps ==
    ASSUME Typed, NEW e, Dfs(e), NEW l, NEW x, Descends(l, x)
    PROVE  Dfs(e)'
<1> USE DEF Dfs
<1>l. l \in Nat /\ l = Len(frames) /\ l > 0 /\ l + 1 \in Nat
  BY DEF Descends
<1>t. /\ x \in Node /\ Len(frames)' = l + 1 /\ num \in Nat /\ num' = num + 1 /\ num + 1 < UINT_MAX /\ succs' = succs
      /\ UINT_MAX \in Nat /\ cdn[x] = 0 /\ cdn'[x] = num + 1 /\ frames # <<>>
      /\ \A y \in Node : cdn[y] \in Nat /\ cdn'[y] \in Nat /\ (y # x => cdn'[y] = cdn[y])
      /\ \A i \in Nat : Visiting(i) => i \in 1..l /\ Nr(i) \in Nat /\ NodeOf(i) \in Node /\ HeadOf(i) \in Nat
      /\ \A i \in Nat : (Visiting(i)' <=> Visiting(i) \/ i = l + 1) /\ (Opened(i)' <=> Opened(i))
      /\ \A i \in 1..l : NodeOf(i)' = NodeOf(i) /\ HeadOf(i)' = HeadOf(i) /\ Loops(i)' = Loops(i)
      /\ \A i \in 1..l : \A y \in Node : Due(i, y)' <=> Due(i, y)
      /\ NodeOf(l + 1)' = x /\ HeadOf(l + 1)' = num + 1 /\ ~Loops(l + 1)'
      /\ \A y \in Node : Due(l + 1, y)' <=> Follows(x, y)
  <2>1. \A y \in Node : cdn[y] \in Nat /\ cdn'[y] \in Nat /\ (y # x => cdn'[y] = cdn[y])
    <3>1. \A y \in Node : cdn'[y] = IF y = x THEN num + 1 ELSE cdn[y] BY DEF Descends
    <3>2. num + 1 \in Nat /\ \A y \in Node : cdn[y] \in Nat BY DEF Typed
    <3> QED BY <3>1, <3>2
  <2>2. /\ \A i \in Nat : (Visiting(i)' <=> Visiting(i) \/ i = l + 1) /\ (Opened(i)' <=> Opened(i))
        /\ \A i \in 1..l : NodeOf(i)' = NodeOf(i) /\ HeadOf(i)' = HeadOf(i) /\ Loops(i)' = Loops(i)
        /\ NodeOf(l + 1)' = x /\ HeadOf(l + 1)' = num + 1 /\ ~Loops(l + 1)'
        /\ \A y \in Node : Due(l + 1, y)' <=> Follows(x, y)
    BY <1>l DEF Descends
  <2>3. \A i \in 1..l : \A y \in Node : Due(i, y)' <=> Due(i, y) BY <1>l DEF Descends
  <2>4. \A i \in Nat : Visiting(i) => i \in 1..l /\ Nr(i) \in Nat /\ NodeOf(i) \in Node /\ HeadOf(i) \in Nat
    BY <1>l, CallTypes
  <2>5. /\ x \in Node /\ Len(frames)' = l + 1 /\ num \in Nat /\ num' = num + 1 /\ num + 1 < UINT_MAX /\ succs' = succs
        /\ cdn[x] = 0 /\ cdn'[x] = num + 1
    BY <1>l DEF Descends, Typed
  <2>6. frames # <<>> BY <1>l
  <2> QED BY <2>1, <2>2, <2>3, <2>4, <2>5, <2>6, WTOAssumption
<1>s. /\ \A i \in Nat : Active(i)' <=> Active(i) \/ i = l + 1
      /\ \A y \in Node : OnStack(y)' <=> OnStack(y) \/ y = x
      /\ \A y \in Node : OnStack(y) => y # x /\ cdn'[y] = cdn[y] /\ cdn[y] <= num
      /\ \A y \in Node : IsPlaced(y)' <=> IsPlaced(y)
      /\ \A y, z : Follows(y, z)' <=> Follows(y, z)
      /\ \A h \in Nat : From(h) \subseteq From(h)' /\ From(h)' \subseteq From(h) \union {x}
      /\ \A i \in 1..l : Visiting(i) => Nr(i)' = Nr(i) /\ Nr(i) <= num
      /\ Nr(l + 1)' = num + 1
      /\ \A i \in Nat : Active(i) => Nr(i) = cdn[NodeOf(i)] /\ Visiting(i) /\ ~Opened(i) /\ OnStack(NodeOf(i))
      /\ \A i \in Nat : Active(i) => NodeOf(i) # x /\ NodeOf(i)' = NodeOf(i) /\ cdn'[NodeOf(i)] = cdn[NodeOf(i)] /\ i \in 1..l
  <2>0. ~Opened(l + 1) BY <1>l DEF Opened, Visiting
  <2>1. \A i \in Nat : Active(i)' <=> Active(i) \/ i = l + 1 BY <2>0, <1>l, <1>t DEF Active
  <2>2. \A y \in Node : (OnStack(y)' <=> OnStack(y) \/ y = x) /\ (IsPlaced(y)' <=> IsPlaced(y)) BY <1>t DEF OnStack, IsPlaced
  <2>3. \A y, z : Follows(y, z)' <=> Follows(y, z) BY <1>t DEF Follows
  <2>4. \A y \in Node : OnStack(y) => y # x /\ cdn'[y] = cdn[y] /\ cdn[y] <= num BY <1>t DEF OnStack, Numbered
  <2>5. \A h \in Nat : From(h) \subseteq From(h)' /\ From(h)' \subseteq From(h) \union {x} BY <1>t, <2>2, <2>4 DEF From
  <2>6. \A i \in Nat : Active(i) => Nr(i) = cdn[NodeOf(i)] /\ Visiting(i) /\ ~Opened(i) /\ OnStack(NodeOf(i)) BY DEF Active, Nr, Framed
  <2>7. \A i \in Nat : Active(i) => NodeOf(i) # x /\ NodeOf(i)' = NodeOf(i) /\ cdn'[NodeOf(i)] = cdn[NodeOf(i)] /\ i \in 1..l
    BY <2>4, <2>6, <1>t
  <2>8. ASSUME NEW i \in 1..l, Visiting(i) PROVE Nr(i)' = Nr(i) /\ Nr(i) <= num
    <3>1. CASE Opened(i) BY <3>1, <1>l, <1>t DEF Nr, Framed
    <3>2. CASE Active(i)
      <4>1. ~Opened(i)' BY <3>2, <1>l, <1>t DEF Active
      <4>2. Nr(i)' = cdn[NodeOf(i)] BY <4>1, <2>7, <3>2, <1>l DEF Nr
      <4> QED BY <4>2, <2>4, <2>6, <3>2, <1>t, <1>l
    <3> QED BY <3>1, <3>2, <2>8 DEF Active
  <2>9. Nr(l + 1)' = num + 1 BY <2>0, <1>l, <1>t DEF Nr
  <2> QED BY <2>1, <2>2, <2>3, <2>4, <2>5, <2>6, <2>7, <2>8, <2>9
<1>1. Numbered'
  <2>1. \A y \in Node : OnStack(y)' => cdn'[y] <= num' BY <1>t, <1>s DEF Numbered
  <2>2. ASSUME NEW y \in Node, NEW z \in Node, OnStack(y)', cdn'[y] = cdn'[z] PROVE y = z
    <3>1. OnStack(z)' BY <2>2 DEF OnStack
    <3>2. CASE OnStack(y) /\ OnStack(z) BY <3>2, <2>2, <1>s DEF Numbered
    <3>3. CASE ~(OnStack(y) /\ OnStack(z)) BY <3>1, <3>3, <2>2, <1>s, <1>t
    <3> QED BY <3>2, <3>3
  <2> QED BY <2>1, <2>2 DEF Numbered
<1>2. Framed(e)'
  <2>0. Framed(e) OBVIOUS
  <2>1. Visiting(1)' /\ NodeOf(1)' = e /\ frames' # <<>>
    <3>1. Visiting(1) /\ NodeOf(1) = e BY <1>t, <2>0 DEF Framed
    <3> QED BY <1>t, <1>l, <3>1
  <2>2. \A y \in Node : OnStack(y)' => Nr(1)' <= cdn'[y]
    <3>1. Visiting(1) /\ 1 \in 1..l /\ \A y \in Node : OnStack(y) => Nr(1) <= cdn[y]
      BY <1>l, <1>t, <2>0 DEF Framed
    <3> QED BY <3>1, <1>s, <1>t
  <2>4. \A i \in 1..Len(frames)' : ~Visiting(i)' => i > 1 /\ Opened(i - 1)'
    BY <1>l, <1>t, <2>0 DEF Framed
  <2>5. ASSUME NEW i \in Nat, Opened(i)'
        PROVE  /\ NodeOf(i + 1)' = NodeOf(i)' /\ frames'[i].todo = <<>>
               /\ IsPlaced(NodeOf(i))' /\ HeadOf(i)' <= num'
    <3>1. Opened(i) /\ i \in 1..l /\ i + 1 \in 1..l /\ Visiting(i)
      BY <1>l, <1>t, <2>5 DEF Opened
    <3>3. /\ NodeOf(i + 1) = NodeOf(i) /\ frames[i].todo = <<>>
          /\ IsPlaced(NodeOf(i)) /\ HeadOf(i) <= num /\ NodeOf(i) \in Node /\ HeadOf(i) \in Nat
      BY <3>1, <2>0, <1>t DEF Framed
    <3>4. frames'[i] = frames[i] BY <3>1, <1>l DEF Descends
    <3>5. IsPlaced(NodeOf(i))'
      <4>1. cdn'[NodeOf(i)] = UINT_MAX BY <3>3, <1>s, <1>t DEF IsPlaced
      <4> QED BY <4>1, <3>1, <1>t DEF IsPlaced
    <3> QED BY <1>t, <3>1, <3>3, <3>4, <3>5
  <2>6. ASSUME NEW i \in Nat, Active(i)' PROVE OnStack(NodeOf(i))'
    <3>1. CASE i = l + 1
      <4>1. cdn'[x] # 0 /\ cdn'[x] # UINT_MAX BY <1>t
      <4> QED BY <4>1, <3>1, <1>t DEF OnStack
    <3>2. CASE Active(i) BY <3>2, <1>s DEF OnStack
    <3> QED BY <3>1, <3>2, <1>s, <2>6
  <2>7. ASSUME NEW i \in 1..Len(frames)', Visiting(i + 1)'
        PROVE  frames'[i].todo # <<>> /\ Head(frames'[i].todo) = NodeOf(i + 1)'
    <3>1. i + 1 \in Nat /\ (Visiting(i + 1) \/ i + 1 = l + 1) BY <1>l, <1>t, <2>7
    <3>2. CASE i = l BY <3>2, <1>l, <1>t DEF Descends
    <3>3. CASE i # l
      <4>1. i \in 1..l /\ i + 1 \in 1..l /\ Visiting(i + 1) BY <3>1, <3>3, <1>l, <1>t
      <4>2. frames[i].todo # <<>> /\ Head(frames[i].todo) = NodeOf(i + 1) /\ frames'[i] = frames[i]
        BY <1>l, <2>0, <4>1 DEF Framed, Descends
      <4> QED BY <1>t, <4>1, <4>2
    <3> QED BY <3>2, <3>3
  <2>8. ASSUME NEW i \in 1..Len(frames)', NEW y \in Node, Due(i, y)' PROVE Follows(NodeOf(i), y)'
    <3>1. CASE i = l + 1
      <4>1. Follows(x, y) BY <3>1, <1>t, <2>8
      <4> QED BY <4>1, <3>1, <1>t DEF Follows
    <3>2. CASE i # l + 1
      <4>1. i \in 1..l /\ Due(i, y) BY <3>2, <1>l, <1>t, <2>8
      <4>2. Follows(NodeOf(i), y) BY <2>0, <4>1, <1>l DEF Framed
      <4> QED BY <1>t, <4>1, <4>2 DEF Follows
    <3> QED BY <3>1, <3>2
  <2> QED BY <1>t, <2>1, <2>2, <2>4, <2>5, <2>6, <2>7, <2>8 DEF Framed
<1>3. PathRight'
  <2> SUFFICES ASSUME NEW i \in Nat, NEW j \in Nat, Visiting(i)', Visiting(j)', i < j PROVE Nr(i)' < Nr(j)'
    BY DEF PathRight
  <2>1. Visiting(i) /\ i \in 1..l BY <1>l, <1>t
  <2>2. CASE j = l + 1 BY <2>1, <2>2, <1>s, <1>t
  <2>3. CASE j # l + 1
    <3>1. Visiting(j) /\ j \in 1..l BY <2>3, <1>t
    <3>2. Nr(i) < Nr(j) BY <2>1, <3>1 DEF PathRight
    <3> QED BY <2>1, <3>1, <3>2, <1>s
  <2> QED BY <2>2, <2>3
<1>4. HeadRight'
  <2> SUFFICES ASSUME NEW i \in Nat, Active(i)'
               PROVE  /\ HeadReached(i)'
                      /\ HeadOf(i)' <= cdn'[NodeOf(i)']
                      /\ \A k \in Nat : Opened(k)' /\ k < i => Nr(k)' < HeadOf(i)'
    BY DEF HeadRight
  <2>1. CASE i = l + 1
    <3>1. HeadReached(i)'
      <4>1. OnStack(x)' /\ cdn'[x] = HeadOf(i)' /\ Inside(succs', From(HeadOf(i))', NodeOf(i)', x)
        BY <2>1, <1>t, <1>s, InsideSelf
      <4> QED BY <4>1, <1>t DEF HeadReached
    <3>2. \A k \in Nat : Opened(k)' /\ k < i => Nr(k)' < HeadOf(i)'
      <4>1. ASSUME NEW k \in Nat, Opened(k)' PROVE Nr(k)' < HeadOf(i)'
        <5>1. Visiting(k) /\ k \in 1..l BY <4>1, <1>t DEF Opened
        <5> QED BY <5>1, <2>1, <1>s, <1>t
      <4> QED BY <4>1
    <3> QED BY <2>1, <3>1, <3>2, <1>t
  <2>2. CASE Active(i)
    <3>1. HeadReached(i) /\ HeadOf(i) <= cdn[NodeOf(i)] /\ \A k \in Nat : Opened(k) /\ k < i => Nr(k) < HeadOf(i)
      BY <2>2 DEF HeadRight
    <3>2. HeadOf(i)' = HeadOf(i) /\ HeadOf(i) \in Nat /\ NodeOf(i)' = NodeOf(i) /\ i \in 1..l BY <2>2, <1>s, <1>t
    <3>3. PICK w \in Node : OnStack(w) /\ cdn[w] = HeadOf(i) /\ Inside(succs, From(HeadOf(i)), NodeOf(i), w)
      BY <3>1 DEF HeadReached
    <3>4. PICK h \in Nat : h = HeadOf(i) BY <3>2
    <3>5. NodeOf(i) \in From(h) BY <3>1, <3>4, <2>2, <1>s, <1>t DEF From
    <3>6. Inside(succs, From(h)', NodeOf(i), w) BY <3>3, <3>4, <3>5, <1>s, InsideGrows
    <3>7. HeadReached(i)' BY <3>2, <3>3, <3>4, <3>6, <1>s, <1>t DEF HeadReached
    <3>8. ASSUME NEW k \in Nat, Opened(k)', k < i PROVE Nr(k)' < HeadOf(i)'
      <4>1. Opened(k) /\ k \in 1..l /\ Visiting(k) BY <1>t, <3>8 DEF Opened
      <4> QED BY <4>1, <3>1, <3>2, <3>8, <1>s
    <3> QED BY <3>1, <3>2, <3>7, <3>8, <2>2, <1>s
  <2> QED BY <2>1, <2>2, <1>s
<1>5. LoopRight'
  <2> SUFFICES ASSUME NEW i \in Nat, Active(i)', Loops(i)', ~(HeadOf(i)' < cdn'[NodeOf(i)'])
               PROVE  \E y \in From(cdn[NodeOf(i)])' : Follows(y, NodeOf(i))'
    BY DEF LoopRight
  <2>1. Active(i) /\ i \in 1..l /\ NodeOf(i) \in Node /\ Visiting(i) /\ NodeOf(i)' = NodeOf(i) /\ cdn'[NodeOf(i)] = cdn[NodeOf(i)]
    BY <1>s, <1>t
  <2>2. PICK h \in Nat : h = cdn[NodeOf(i)] BY <1>t, <2>1
  <2>3. From(cdn[NodeOf(i)])' = From(h)' BY <2>1, <2>2
  <2>4. PICK y \in From(h) : Follows(y, NodeOf(i)) BY <2>1, <2>2, <1>t DEF LoopRight
  <2>5. y \in From(h)' BY <2>4, <1>s
  <2> QED BY <2>3, <2>4, <2>5, <2>1, <1>s
<1>u. ASSUME NEW i \in Nat, Active(i)', NEW y \in Node, Under(i, y)'
      PROVE  (Active(i) /\ Under(i, y)) \/ (i = l + 1 /\ y = x)
  <2>1. CASE i = l + 1
    <3>1. num + 1 <= cdn'[y] BY <2>1, <1>u, <1>t DEF Under
    <3> QED BY <3>1, <2>1, <1>u, <1>s, <1>t DEF Under
  <2>2. CASE Active(i)
    <3>1. Visiting(l + 1)' /\ i < l + 1 BY <2>2, <1>s, <1>t, <1>l
    <3>2. cdn'[y] < num + 1 BY <3>1, <1>u, <1>l, <1>s DEF Under
    <3>3. y # x /\ cdn'[y] = cdn[y] /\ OnStack(y) BY <3>2, <1>u, <1>s, <1>t DEF Under
    <3>4. ASSUME NEW j \in Nat, Visiting(j), i < j PROVE cdn[y] < Nr(j)
      <4>1. Visiting(j)' /\ Nr(j)' = Nr(j) BY <3>4, <1>s, <1>t
      <4> QED BY <4>1, <3>3, <3>4, <1>u DEF Under
    <3> QED BY <3>3, <3>4, <2>2, <1>u, <1>s DEF Under
  <2> QED BY <2>1, <2>2, <1>s, <1>u
<1>6. LowLink'
  <2> SUFFICES ASSUME NEW i \in Nat, Active(i)', NEW y \in Node, NEW w \in Node,
                      Under(i, y)', Follows(y, w)', OnStack(w)'
               PROVE  (y = NodeOf(i)' /\ Due(i, w)') \/ HeadOf(i)' <= cdn'[w]
    BY DEF LowLink
  <2>1. Follows(y, w) BY <1>s
  <2>2. CASE i = l + 1
    <3>1. y = x BY <2>2, <1>u, <1>s, <1>t
    <3> QED BY <3>1, <2>1, <2>2, <1>t
  <2>3. CASE i # l + 1
    <3>1. Active(i) /\ Under(i, y) /\ i \in 1..l /\ Visiting(i) BY <2>3, <1>u, <1>s, <1>t
    <3>2. CASE w = x
      <4>1. HeadOf(i) <= num
        <5>1. HeadOf(i) <= cdn[NodeOf(i)] /\ cdn[NodeOf(i)] <= num BY <3>1, <1>s, <1>t DEF HeadRight
        <5> QED BY <5>1, <3>1, <1>t
      <4> QED BY <4>1, <3>1, <3>2, <1>t
    <3>3. CASE w # x
      <4>1. OnStack(w) BY <3>3, <1>s
      <4> QED BY <4>1, <3>1, <2>1, <1>s, <1>t DEF LowLink
    <3> QED BY <3>2, <3>3
  <2> QED BY <2>2, <2>3
<1>7. Explored'
  <2> SUFFICES ASSUME NEW y \in Node, NEW w \in Node, OnStack(y)', Follows(y, w)', ~IsPlaced(w)',
                      ~(\E i \in Nat : Active(i)' /\ y = NodeOf(i)' /\ Due(i, w)')
               PROVE  OnStack(w)' /\ \A j \in Nat : Visiting(j)' /\ cdn'[y] < Nr(j)' => cdn'[w] < Nr(j)'
    BY DEF Explored
  <2>1. Follows(y, w) /\ ~IsPlaced(w) BY <1>s
  <2>2. y # x
    <3>1. y = x => Active(l + 1)' /\ y = NodeOf(l + 1)' /\ Due(l + 1, w)' /\ l + 1 \in Nat BY <2>1, <1>s, <1>t, <1>l
    <3> QED BY <3>1
  <2>3. OnStack(y) BY <2>2, <1>s
  <2>4. ASSUME NEW i \in Nat, Active(i), y = NodeOf(i), Due(i, w) PROVE FALSE
    <3>1. Active(i)' /\ y = NodeOf(i)' /\ Due(i, w)' BY <2>4, <1>s, <1>t
    <3> QED BY <3>1
  <2>5. OnStack(w) /\ \A j \in Nat : Visiting(j) /\ cdn[y] < Nr(j) => cdn[w] < Nr(j)
    BY <2>1, <2>3, <2>4 DEF Explored
  <2>6. ASSUME NEW j \in Nat, Visiting(j)', cdn'[y] < Nr(j)' PROVE cdn'[w] < Nr(j)'
    <3>1. CASE j = l + 1 BY <3>1, <2>5, <1>s, <1>t
    <3>2. CASE j # l + 1
      <4>1. Visiting(j) /\ Nr(j)' = Nr(j) BY <3>2, <2>6, <1>t, <1>s
      <4> QED BY <4>1, <2>3, <2>5, <2>6, <1>s
    <3> QED BY <3>1, <3>2
  <2> QED BY <2>5, <2>6, <1>s
<1>8. Quiet'
  <2> SUFFICES ASSUME NEW i \in Nat, Active(i)', ~Loops(i)'
               PROVE  /\ HeadOf(i)' = cdn'[NodeOf(i)']
                      /\ \A y \in Node : Under(i, y)' => y = NodeOf(i)'
                      /\ \A w \in Node : Follows(NodeOf(i), w)' => Due(i, w)' \/ IsPlaced(w)'
    BY DEF Quiet
  <2>1. CASE i = l + 1
    <3>1. \A y \in Node : Under(i, y)' => y = x BY <2>1, <1>u, <1>s, <1>t
    <3>2. ASSUME NEW w \in Node, Follows(NodeOf(i), w)' PROVE Due(i, w)'
      <4>1. Follows(x, w) BY <3>2, <2>1, <1>t DEF Follows
      <4> QED BY <4>1, <2>1, <1>t
    <3> QED BY <2>1, <3>1, <3>2, <1>t
  <2>2. CASE i # l + 1
    <3>1. Active(i) /\ i \in 1..l /\ ~Loops(i) BY <2>2, <1>s, <1>t
    <3>2. /\ HeadOf(i) = cdn[NodeOf(i)]
          /\ \A y \in Node : Under(i, y) => y = NodeOf(i)
          /\ \A w \in Node : Follows(NodeOf(i), w) => Due(i, w) \/ IsPlaced(w)
      BY <3>1 DEF Quiet
    <3>3. \A y \in Node : Under(i, y)' => y = NodeOf(i)' BY <2>2, <3>1, <3>2, <1>u, <1>s
    <3>4. ASSUME NEW w \in Node, Follows(NodeOf(i), w)' PROVE Due(i, w)' \/ IsPlaced(w)'
      <4>1. Follows(NodeOf(i), w) BY <3>4, <3>1, <1>t DEF Follows
      <4> QED BY <4>1, <3>1, <3>2, <1>s, <1>t
    <3> QED BY <3>1, <3>2, <3>3, <3>4, <1>s, <1>t
  <2> QED BY <2>1, <2>2
<1>9. Settled'
  <2> SUFFICES ASSUME NEW i \in Nat, Opened(i)'
               PROVE  /\ \A y \in Node : OnStack(y)' /\ Nr(i)' <= cdn'[y] =>
                           \E j \in Nat : Visiting(j)' /\ i < j /\ Nr(j)' <= cdn'[y]
                      /\ \A w \in Node : Follows(NodeOf(i), w)' => Due(i + 1, w)' \/ IsPlaced(w)'
    BY DEF Settled
  <2>1. Opened(i) /\ i \in 1..l /\ i + 1 \in 1..l /\ Visiting(i) /\ NodeOf(i)' = NodeOf(i) /\ Nr(i)' = Nr(i)
    <3>1. Opened(i) /\ i \in 1..l /\ Visiting(i) /\ i + 1 \in 1..l BY <1>l, <1>t DEF Opened
    <3> QED BY <3>1, <1>t, <1>s
  <2>2. ASSUME NEW y \in Node, OnStack(y)', Nr(i)' <= cdn'[y]
        PROVE  \E j \in Nat : Visiting(j)' /\ i < j /\ Nr(j)' <= cdn'[y]
    <3>1. CASE y = x
      <4>1. Visiting(l + 1)' /\ i < l + 1 /\ Nr(l + 1)' <= cdn'[y] /\ l + 1 \in Nat BY <3>1, <2>1, <1>l, <1>t, <1>s
      <4> QED BY <4>1
    <3>2. CASE y # x
      <4>1. OnStack(y) /\ cdn'[y] = cdn[y] BY <2>2, <3>2, <1>s
      <4>2. PICK j \in Nat : Visiting(j) /\ i < j /\ Nr(j) <= cdn[y] BY <2>1, <2>2, <4>1 DEF Settled
      <4> QED BY <4>1, <4>2, <1>t, <1>s
    <3> QED BY <3>1, <3>2
  <2>3. ASSUME NEW w \in Node, Follows(NodeOf(i), w)' PROVE Due(i + 1, w)' \/ IsPlaced(w)'
    <3>1. Follows(NodeOf(i), w) BY <2>1, <2>3 , <1>t DEF Follows
    <3>2. Due(i + 1, w) \/ IsPlaced(w) BY <2>1, <3>1 DEF Settled
    <3> QED BY <2>1, <3>2, <1>s, <1>t
  <2> QED BY <2>2, <2>3
<1>10. Down'
  <2> SUFFICES ASSUME NEW i \in Nat, Active(i)', NEW y \in From(cdn[NodeOf(i)])',
                      \A k \in Nat : Opened(k)' /\ i < k => cdn'[y] < Nr(k)'
               PROVE  Inside(succs, From(cdn[NodeOf(i)]), NodeOf(i), y)'
    BY DEF Down
  <2>0. CASE i = l + 1
    <3>1. y \in Node /\ num + 1 <= cdn'[y] /\ OnStack(y)' BY <2>0, <1>t DEF From
    <3>2. y = x BY <3>1, <1>s, <1>t
    <3> QED BY <2>0, <3>2, <1>t, InsideSelf
  <2>1. CASE Active(i)
    <3>1. i \in 1..l /\ NodeOf(i) \in Node /\ Visiting(i) /\ NodeOf(i)' = NodeOf(i) /\ cdn'[NodeOf(i)] = cdn[NodeOf(i)]
          /\ OnStack(NodeOf(i))
      BY <2>1, <1>s, <1>t
    <3>2. PICK h \in Nat : h = cdn[NodeOf(i)] BY <1>t, <3>1
    <3>3. From(cdn[NodeOf(i)])' = From(h)' BY <3>1, <3>2
    <3>4. NodeOf(i) \in From(h) /\ From(h) \subseteq From(h)' BY <3>1, <3>2, <1>s, <1>t DEF From
    <3>5. CASE y # x
      <4>1. y \in From(h) /\ OnStack(y) /\ cdn'[y] = cdn[y] /\ y \in Node BY <3>5, <3>3, <1>s DEF From
      <4>2. \A k \in Nat : Opened(k) /\ i < k => cdn[y] < Nr(k)
        BY <4>1, <1>s, <1>t DEF Opened
      <4>3. Inside(succs, From(h), NodeOf(i), y) BY <2>1, <3>2, <4>1, <4>2 DEF Down
      <4> QED BY <4>3, <3>1, <3>3, <3>4, <1>t, InsideGrows
    <3>6. CASE y = x
      <4>1. ASSUME NEW k \in Nat, Opened(k), i < k PROVE FALSE
        <5>1. Visiting(k) /\ k \in 1..l /\ Opened(k)' BY <4>1, <1>t DEF Opened
        <5>2. cdn'[x] < Nr(k)' BY <5>1, <4>1, <3>6
        <5> QED BY <5>1, <5>2, <1>s, <1>t
      <4>2. Active(l)
        <5>1. Visiting(l) => Active(l) BY <1>l, <1>t DEF Active, Opened
        <5>2. CASE ~Visiting(l)
          <6>1. Opened(l - 1) /\ l - 1 \in Nat BY <5>2, <1>l DEF Framed
          <6>2. i # l /\ i # l - 1 BY <6>1, <2>1, <5>2, <1>s
          <6> QED BY <6>1, <6>2, <4>1, <3>1, <1>l
        <5> QED BY <5>1, <5>2
      <4>3. cdn[NodeOf(i)] <= cdn[NodeOf(l)] /\ NodeOf(l) \in Node /\ OnStack(NodeOf(l))
        <5>1. i = l \/ i < l BY <3>1, <1>l
        <5>2. i < l => Nr(i) < Nr(l) BY <4>2, <3>1, <1>s, <1>l DEF PathRight
        <5> QED BY <5>1, <5>2, <4>2, <2>1, <3>1, <1>s, <1>t, <1>l
      <4>4. NodeOf(l) \in From(h) BY <4>3, <3>2 DEF From
      <4>5. Inside(succs, From(h), NodeOf(i), NodeOf(l)) BY <2>1, <3>2, <4>1, <4>4 DEF Down
      <4>6. Inside(succs, From(h)', NodeOf(i), NodeOf(l)) BY <4>5, <3>4, InsideGrows
      <4>7. x \in From(h)' BY <3>3, <3>6
      <4>8. Inside(succs, From(h)', NodeOf(l), x) BY <4>7, <1>l, InsideStep DEF Descends, Follows
      <4> QED BY <4>6, <4>8, <3>1, <3>3, <3>6, <1>t, InsideJoins
    <3> QED BY <3>5, <3>6
  <2> QED BY <2>0, <2>1, <1>s
<1>11. Up'
  <2> SUFFICES ASSUME NEW y \in Node, OnStack(y)' PROVE \E i \in Nat : Active(i)' /\ UpTo(i, y)'
    BY DEF Up
  <2>1. CASE y = x
    <3>1. l + 1 \in Nat /\ Active(l + 1)' /\ UpTo(l + 1, y)' BY <2>1, <1>l, <1>s, <1>t DEF UpTo
    <3> QED BY <3>1
  <2>2. CASE y # x
    <3>1. OnStack(y) /\ cdn'[y] = cdn[y] BY <2>2, <1>s
    <3>2. PICK i \in Nat : Active(i) /\ UpTo(i, y) BY <3>1 DEF Up
    <3>3. NodeOf(i) \in Node /\ NodeOf(i)' = NodeOf(i) /\ cdn'[NodeOf(i)] = cdn[NodeOf(i)] /\ Active(i)' BY <3>2, <1>s, <1>t
    <3>4. PICK h \in Nat : h = cdn[NodeOf(i)] BY <3>3, <1>t
    <3>5. cdn[NodeOf(i)] < cdn[y] => y \in From(h) BY <3>1, <3>4, <1>t DEF From
    <3>6. cdn[NodeOf(i)] < cdn[y] /\ Inside(succs, From(h), y, NodeOf(i)) => Inside(succs, From(h)', y, NodeOf(i))
      BY <3>5, <1>s, InsideGrows
    <3>7. UpTo(i, y)' BY <3>1, <3>2, <3>3, <3>4, <3>6, <1>t DEF UpTo
    <3> QED BY <3>3, <3>7
  <2> QED BY <2>1, <2>2
<1>12. Finished'
  <2> SUFFICES ASSUME NEW n \in Node, IsPlaced(n)', NEW w \in Node, Follows(n, w)', ~IsPlaced(w)'
               PROVE  \E k \in Nat : Opened(k)' /\ n = NodeOf(k)'
    BY DEF Finished
  <2>1. IsPlaced(n) /\ Follows(n, w) /\ ~IsPlaced(w) BY <1>s
  <2>2. PICK k \in Nat : Opened(k) /\ n = NodeOf(k) BY <2>1 DEF Finished
  <2> QED BY <2>2, <1>t DEF Opened
<1>13. Reached(e)'
  <2>1. ReachableFrom(e)' = ReachableFrom(e) BY <1>t DEF ReachableFrom
  <2>2. NodeOf(l) \in ReachableFrom(e) /\ Follows(NodeOf(l), x) BY <1>l DEF Reached, Descends
  <2>3. x \in ReachableFrom(e) BY <2>2, <1>t DEF ReachableFrom, Follows
  <2>4. \A y \in Node : cdn'[y] # 0 => y \in ReachableFrom(e) BY <1>t, <2>3 DEF Reached
  <2>5. \A i \in 1..Len(frames)' : NodeOf(i)' \in ReachableFrom(e)
    <3>1. ASSUME NEW i \in 1..Len(frames)' PROVE NodeOf(i)' \in ReachableFrom(e)
      <4>1. CASE i = l + 1 BY <4>1, <2>3, <1>t
      <4>2. CASE i # l + 1 BY <4>2, <1>l, <1>t DEF Reached
      <4> QED BY <4>1, <4>2
    <3> QED BY <3>1
  <2> QED BY <2>1, <2>4, <2>5 DEF Reached
<1> QED BY <1>1, <1>2, <1>3, <1>4, <1>5, <1>6, <1>7, <1>8, <1>9, <1>10, <1>11, <1>12, <1>13

\* The top call, of visit, finds its node n to be the head of a cycle.
Opens(l, n) ==
    /\ l \in Nat /\ l = Len(frames) /\ l > 0 /\ n \in Node /\ n = NodeOf(l) /\ num' = num /\ succs' = succs
    /\ Active(l) /\ HeadOf(l) = cdn[n] /\ Loops(l) /\ frames[l].todo = <<>> /\ \A y : ~Due(l, y)
    /\ \A y \in Node : cdn'[y] = IF y = n THEN UINT_MAX
                                 ELSE IF OnStack(y) /\ cdn[n] < cdn[y] THEN 0 ELSE cdn[y]
    /\ Len(frames)' = l + 1
    /\ \A i \in Nat : (Visiting(i)' <=> Visiting(i)) /\ (Opened(i)' <=> Opened(i) \/ i = l)
    /\ \A i \in 1..l :
         /\ frames'[i] = frames[i] /\ NodeOf(i)' = NodeOf(i) /\ HeadOf(i)' = HeadOf(i) /\ Loops(i)' = Loops(i)
         /\ \A y \in Node : Due(i, y)' <=> Due(i, y)
    /\ NodeOf(l + 1)' = n
    /\ \A y \in Node : Due(l + 1, y)' <=> Follows(n, y)

\* No edge leaves the part of the stack from the head on, except to placed nodes.
LEMMA CycleCloses ==
    ASSUME Typed, NEW e, Dfs(e), NEW l, NEW n, Opens(l, n),
           NEW y \in From(cdn[n]), NEW w \in Node, Follows(y, w)
    PROVE  w \in From(cdn[n]) \/ IsPlaced(w)
<1> USE DEF Dfs
<1>1. l \in Nat /\ n = NodeOf(l) /\ Active(l) /\ Visiting(l) /\ HeadOf(l) = cdn[n] /\ \A z : ~Due(l, z)
  BY DEF Opens, Active
<1>2. Nr(l) = cdn[n] /\ n \in Node /\ \A z \in Node : cdn[z] \in Nat
  BY <1>1, CallTypes DEF Active, Nr
<1>3. y \in Node /\ OnStack(y) /\ cdn[n] <= cdn[y] BY DEF From
<1>4. \A j \in Nat : Visiting(j) => j <= l BY <1>1, CallTypes DEF Opens
<1>5. Under(l, y) BY <1>1, <1>3, <1>4 DEF Under
<1>6. ASSUME NEW i \in Nat, Active(i), y = NodeOf(i), Due(i, w) PROVE FALSE
  <2>1. Visiting(i) /\ Nr(i) = cdn[y] BY <1>6 DEF Active, Nr
  <2>2. i # l /\ i <= l BY <1>1, <1>4, <1>6, <2>1
  <2>3. Nr(i) < Nr(l) BY <1>1, <2>1, <2>2 DEF PathRight
  <2> QED BY <2>1, <2>3, <1>2, <1>3
<1>7. IsPlaced(w) \/ OnStack(w) BY <1>3, <1>6 DEF Explored
<1>8. OnStack(w) => cdn[n] <= cdn[w] BY <1>1, <1>3, <1>5 DEF LowLink
<1> QED BY <1>7, <1>8 DEF From

\* That part is a cycle: edge paths inside it lead from every node to every other.
LEMMA CycleConnects ==
    ASSUME Typed, NEW e, Dfs(e), NEW l, NEW n, Opens(l, n)
    PROVE  /\ n \in From(cdn[n])
           /\ Connected(From(cdn[n]))
           /\ \E m \in From(cdn[n]) : Follows(m, n)
<1> USE DEF Dfs
<1>1. l \in Nat /\ n = NodeOf(l) /\ Active(l) /\ Visiting(l) /\ HeadOf(l) = cdn[n] /\ Loops(l)
  BY DEF Opens, Active
<1>2. Nr(l) = cdn[n] /\ n \in Node /\ \A z \in Node : cdn[z] \in Nat
  BY <1>1, CallTypes DEF Active, Nr
<1>3. \A j \in Nat : Visiting(j) => j <= l /\ NodeOf(j) \in Node BY <1>1, CallTypes DEF Opens
<1> DEFINE S == From(cdn[n])
<1>4. n \in S BY <1>1, <1>2 DEF From, Framed
<1>5. \E m \in S : Follows(m, n) BY <1>1, <1>2 DEF LoopRight
<1>6. \A y \in S : Inside(succs, S, n, y)
  BY <1>1, <1>3 DEF Down, Opened
<1>7. ASSUME NEW y \in S PROVE Inside(succs, S, y, n)
  <2>1. y \in Node /\ OnStack(y) /\ cdn[n] <= cdn[y] BY DEF From
  <2>2. PICK i \in Nat : Active(i) /\ UpTo(i, y) BY <2>1 DEF Up
  <2>3. Visiting(i) /\ Nr(i) = cdn[NodeOf(i)] /\ i <= l /\ NodeOf(i) \in Node /\ OnStack(NodeOf(i))
    BY <2>2, <1>3 DEF Active, Nr, Framed
  <2>4. CASE i = l BY <2>2, <2>4, <1>1, InsideSelf DEF UpTo
  <2>5. CASE i < l
    <3>1. cdn[NodeOf(i)] < cdn[n] BY <2>3, <2>5, <1>1, <1>2 DEF PathRight
    <3>2. y # NodeOf(i) BY <3>1, <2>1, <1>2
    <3>3. Inside(succs, From(cdn[NodeOf(i)]), y, NodeOf(i)) BY <2>2, <3>2 DEF UpTo
    <3>4. y \in From(cdn[NodeOf(i)]) \cap S BY <3>1, <2>1, <2>3, <1>2 DEF From
    <3>5. ASSUME NEW u \in From(cdn[NodeOf(i)]) \cap S PROVE Range(succs[u]) \cap From(cdn[NodeOf(i)]) \subseteq S
      <4>1. ASSUME NEW w \in Range(succs[u]), w \in From(cdn[NodeOf(i)]) PROVE w \in S
        <5>1. w \in Node /\ ~IsPlaced(w) /\ Follows(u, w) BY <4>1 DEF From, OnStack, IsPlaced, Follows
        <5> QED BY <5>1, CycleCloses
      <4> QED BY <4>1
    <3>6. NodeOf(i) \in S BY <3>3, <3>4, <3>5, InsideStays
    <3> QED BY <3>1, <3>6, <1>2, <2>3 DEF From
  <2> QED BY <2>3, <2>4, <2>5, <1>1
<1>8. Connected(S)
  <2> SUFFICES ASSUME NEW T \in SUBSET S, T # {}, \A m \in T : Range(succs[m]) \cap S \subseteq T
               PROVE  T = S
    BY DEF Connected
  <2>1. PICK y \in T : TRUE OBVIOUS
  <2>2. n \in T BY <1>7, <2>1 DEF Inside
  <2>3. \A z \in S : z \in T BY <1>6, <2>2 DEF Inside
  <2> QED BY <2>3
<1> QED BY <1>4, <1>5, <1>8

LEMMA OpenKeeps ==
    ASSUME Typed, NEW e, Dfs(e), NEW l, NEW n, Opens(l, n)
    PROVE  Dfs(e)'
<1> USE DEF Dfs
<1>l. l \in Nat /\ l = Len(frames) /\ l > 0 /\ l + 1 \in Nat /\ n \in Node /\ n = NodeOf(l)
  BY DEF Opens
<1>t. /\ Len(frames)' = l + 1 /\ num \in Nat /\ num' = num /\ succs' = succs
      /\ UINT_MAX \in Nat /\ UINT_MAX # 0 /\ cdn'[n] = UINT_MAX /\ frames # <<>>
      /\ \A y \in Node : cdn[y] \in Nat /\ cdn'[y] \in Nat
      /\ \A i \in Nat : Visiting(i) => i \in 1..l /\ Nr(i) \in Nat /\ NodeOf(i) \in Node /\ HeadOf(i) \in Nat
      /\ \A i \in Nat : (Visiting(i)' <=> Visiting(i)) /\ (Opened(i)' <=> Opened(i) \/ i = l)
      /\ \A i \in 1..l : NodeOf(i)' = NodeOf(i) /\ HeadOf(i)' = HeadOf(i) /\ Loops(i)' = Loops(i)
      /\ \A i \in 1..l : \A y \in Node : Due(i, y)' <=> Due(i, y)
      /\ NodeOf(l + 1)' = n
      /\ \A y \in Node : Due(l + 1, y)' <=> Follows(n, y)
      /\ Visiting(l) /\ Active(l) /\ HeadOf(l) = cdn[n] /\ \A y : ~Due(l, y)
  <2>1. \A y \in Node : cdn[y] \in Nat /\ cdn'[y] \in Nat
    <3>1. \A y \in Node : cdn'[y] \in {UINT_MAX, 0, cdn[y]} BY DEF Opens
    <3>2. \A y \in Node : cdn[y] \in Nat BY DEF Typed
    <3> QED BY <3>1, <3>2, WTOAssumption
  <2>2. /\ \A i \in Nat : (Visiting(i)' <=> Visiting(i)) /\ (Opened(i)' <=> Opened(i) \/ i = l)
        /\ \A i \in 1..l : NodeOf(i)' = NodeOf(i) /\ HeadOf(i)' = HeadOf(i) /\ Loops(i)' = Loops(i)
        /\ \A i \in 1..l : \A y \in Node : Due(i, y)' <=> Due(i, y)
        /\ NodeOf(l + 1)' = n
        /\ \A y \in Node : Due(l + 1, y)' <=> Follows(n, y)
    BY DEF Opens
  <2>3. /\ Active(l) /\ HeadOf(l) = cdn[n] /\ \A y : ~Due(l, y)
        /\ Len(frames)' = l + 1 /\ num' = num /\ succs' = succs
    BY DEF Opens
  <2>4. \A i \in Nat : Visiting(i) => i \in 1..l /\ Nr(i) \in Nat /\ NodeOf(i) \in Node /\ HeadOf(i) \in Nat
    BY <1>l, CallTypes
  <2>5. cdn'[n] = UINT_MAX /\ frames # <<>> /\ num \in Nat BY <1>l DEF Opens, Typed
  <2>6. Visiting(l) BY <2>3 DEF Active
  <2> QED BY <2>1, <2>2, <2>3, <2>4, <2>5, <2>6, WTOAssumption
<1> DEFINE c == cdn[n]
           S == From(c)
<1>c. c \in Nat /\ c = Nr(l) /\ OnStack(n) BY <1>l, <1>t DEF Active, Nr, Framed
<1>s. /\ \A i \in Nat : Active(i)' <=> Active(i) /\ i # l
      /\ \A y \in Node : y \in S <=> OnStack(y) /\ c <= cdn[y]
      /\ \A y \in Node : OnStack(y)' <=> OnStack(y) /\ y \notin S
      /\ \A y \in Node : OnStack(y)' => cdn'[y] = cdn[y] /\ cdn[y] < c /\ OnStack(y)
      /\ \A y \in Node : IsPlaced(y)' <=> IsPlaced(y) \/ y = n
      /\ \A y, z : Follows(y, z)' <=> Follows(y, z)
      /\ \A h \in Nat : From(h)' = From(h) \ S
      /\ \A i \in 1..l : Visiting(i) => Nr(i)' = Nr(i)
      /\ \A i \in Nat : Active(i) => Nr(i) = cdn[NodeOf(i)] /\ Visiting(i) /\ ~Opened(i) /\ OnStack(NodeOf(i)) /\ i \in 1..l
      /\ \A i \in Nat : Active(i) /\ i # l =>
           /\ i < l /\ NodeOf(i) \notin S /\ cdn[NodeOf(i)] < c
           /\ NodeOf(i)' = NodeOf(i) /\ cdn'[NodeOf(i)] = cdn[NodeOf(i)]
           /\ HeadOf(i)' = HeadOf(i) /\ NodeOf(i) \in Node
  <2>1. \A i \in Nat : Active(i)' <=> Active(i) /\ i # l BY <1>t DEF Active
  <2>2. \A y \in Node : y \in S <=> OnStack(y) /\ c <= cdn[y] BY DEF From
  <2>3. ASSUME NEW y \in Node
        PROVE  /\ OnStack(y)' <=> OnStack(y) /\ y \notin S
               /\ OnStack(y)' => cdn'[y] = cdn[y] /\ cdn[y] < c /\ OnStack(y)
               /\ IsPlaced(y)' <=> IsPlaced(y) \/ y = n
    <3>1. CASE y = n BY <3>1, <2>2, <1>t, <1>c DEF OnStack, IsPlaced
    <3>2. CASE y # n /\ OnStack(y) /\ c < cdn[y]
      <4>1. cdn'[y] = 0 BY <3>2 DEF Opens
      <4>2. y \in S BY <3>2, <2>2, <1>c, <1>t
      <4>3. ~OnStack(y)' /\ ~IsPlaced(y)' /\ ~IsPlaced(y) BY <4>1, <3>2, <1>t DEF OnStack, IsPlaced
      <4> QED BY <4>2, <4>3, <3>2
    <3>3. CASE y # n /\ ~(OnStack(y) /\ c < cdn[y])
      <4>1. cdn'[y] = cdn[y] BY <3>3 DEF Opens
      <4>2. OnStack(y) => cdn[y] # c BY <3>3, <1>l, <1>c DEF Numbered
      <4> QED BY <4>1, <4>2, <3>3, <2>2, <1>t, <1>c DEF OnStack, IsPlaced
    <3> QED BY <3>1, <3>2, <3>3
  <2>4. \A y, z : Follows(y, z)' <=> Follows(y, z) BY <1>t DEF Follows
  <2>5. \A h \in Nat : From(h)' = From(h) \ S BY <2>3 DEF From
  <2>6. \A i \in Nat : Active(i) => Nr(i) = cdn[NodeOf(i)] /\ Visiting(i) /\ ~Opened(i) /\ OnStack(NodeOf(i)) /\ i \in 1..l
    BY <1>t DEF Active, Nr, Framed
  <2>7. ASSUME NEW i \in Nat, Active(i), i # l
        PROVE  /\ i < l /\ NodeOf(i) \notin S /\ cdn[NodeOf(i)] < c
               /\ NodeOf(i)' = NodeOf(i) /\ cdn'[NodeOf(i)] = cdn[NodeOf(i)]
               /\ HeadOf(i)' = HeadOf(i) /\ NodeOf(i) \in Node
    <3>1. i \in 1..l /\ i < l /\ NodeOf(i) \in Node /\ Visiting(i) BY <2>6, <2>7, <1>t, <1>l
    <3>2. cdn[NodeOf(i)] < c BY <3>1, <2>6, <2>7, <1>l, <1>t, <1>c DEF PathRight
    <3>3. NodeOf(i) \notin S /\ OnStack(NodeOf(i)) BY <3>1, <3>2, <2>2, <2>6, <2>7, <1>c, <1>t
    <3>4. OnStack(NodeOf(i)) => cdn'[NodeOf(i)] = cdn[NodeOf(i)]
      BY <3>1, <3>3, <2>3
    <3> QED BY <3>1, <3>2, <3>3, <3>4, <1>t
  <2>8. ASSUME NEW i \in 1..l, Visiting(i) PROVE Nr(i)' = Nr(i)
    <3>1. CASE Opened(i) BY <3>1, <1>l, <1>t DEF Nr
    <3>2. CASE i = l
      <4>1. Nr(i)' = HeadOf(l)' BY <3>2, <1>l, <1>t DEF Nr
      <4> QED BY <4>1, <3>2, <1>l, <1>t, <1>c
    <3>3. CASE ~Opened(i) /\ i # l
      <4>1. Active(i) /\ ~Opened(i)' BY <3>3, <2>8, <1>l, <1>t DEF Active
      <4>2. Nr(i)' = cdn'[NodeOf(i)] BY <4>1, <2>7, <3>3, <1>l DEF Nr
      <4> QED BY <4>1, <4>2, <2>6, <2>7, <3>3, <1>l
    <3> QED BY <3>1, <3>2, <3>3
  <2> HIDE DEF c, S
  <2> QED BY <2>1, <2>2, <2>3, <2>4, <2>5, <2>6, <2>7, <2>8
<1>p. ASSUME NEW h \in Nat, NEW a \in From(h), NEW b \in From(h), a \notin S, b \notin S, Inside(succs, From(h), a, b)
      PROVE  Inside(succs, From(h)', a, b)
  <2>1. From(h)' = From(h) \ S BY <1>s
  <2>2. ASSUME NEW u \in From(h), u \notin From(h) \ S PROVE Range(succs[u]) \cap (From(h) \ S) = {}
    <3>1. u \in S BY <2>2
    <3>2. \A w \in Node : Follows(u, w) => w \in S \/ IsPlaced(w) BY <3>1, CycleCloses
    <3> QED BY <3>2 DEF Follows, From, OnStack, IsPlaced
  <2>3. a \in From(h) \ S /\ b \in From(h) \ S BY <1>p
  <2>4. Inside(succs, From(h) \ S, a, b) BY <2>2, <2>3, <1>p, InsideShrinks
  <2> QED BY <2>1, <2>4
<1>k. ASSUME NEW u \in S, NEW w \in Node, Follows(u, w) PROVE w \in S \/ IsPlaced(w)
  BY <1>k, CycleCloses
<1> HIDE DEF c, S
<1>1. Numbered'
  <2>2. ASSUME NEW y \in Node, NEW z \in Node, OnStack(y)', cdn'[y] = cdn'[z] PROVE y = z
    <3>1. OnStack(z)' BY <2>2 DEF OnStack
    <3> QED BY <3>1, <2>2, <1>s DEF Numbered
  <2> QED BY <1>s, <1>t, <2>2 DEF Numbered
<1>2. Framed(e)'
  <2>0. Framed(e) OBVIOUS
  <2>1. Visiting(1)' /\ NodeOf(1)' = e /\ frames' # <<>>
    <3>1. Visiting(1) /\ NodeOf(1) = e BY <1>t, <2>0 DEF Framed
    <3> QED BY <1>t, <1>l, <3>1
  <2>2. \A y \in Node : OnStack(y)' => Nr(1)' <= cdn'[y]
    <3>1. Visiting(1) /\ 1 \in 1..l /\ \A y \in Node : OnStack(y) => Nr(1) <= cdn[y]
      BY <1>l, <1>t, <2>0 DEF Framed
    <3> QED BY <3>1, <1>s, <1>t
  <2>4. ASSUME NEW i \in 1..Len(frames)', ~Visiting(i)' PROVE i > 1 /\ Opened(i - 1)'
    <3>1. CASE i = l + 1 BY <3>1, <1>l, <1>t
    <3>2. CASE i # l + 1
      <4>1. i \in 1..Len(frames) /\ ~Visiting(i) /\ i \in Nat BY <3>2, <2>4, <1>l, <1>t
      <4>2. i > 1 /\ Opened(i - 1) BY <4>1, <2>0 DEF Framed
      <4>3. i - 1 \in Nat BY <4>1, <4>2
      <4> QED BY <4>2, <4>3, <1>t
    <3> QED BY <3>1, <3>2
  <2>5. ASSUME NEW i \in Nat, Opened(i)'
        PROVE  /\ NodeOf(i + 1)' = NodeOf(i)' /\ frames'[i].todo = <<>>
               /\ IsPlaced(NodeOf(i))' /\ HeadOf(i)' <= num'
    <3>1. CASE i = l
      <4>1. frames'[i] = frames[i] /\ frames[l].todo = <<>> BY <3>1, <1>l DEF Opens
      <4>2. HeadOf(l) <= num BY <1>c, <1>t, <1>l DEF Numbered
      <4>3. IsPlaced(NodeOf(l))' BY <1>l, <1>t DEF IsPlaced
      <4> QED BY <3>1, <4>1, <4>2, <4>3, <1>l, <1>t
    <3>2. CASE i # l
      <4>1. Opened(i) /\ i \in 1..l /\ i + 1 \in 1..l /\ Visiting(i)
        BY <1>l, <1>t, <2>5, <3>2 DEF Opened
      <4>3. /\ NodeOf(i + 1) = NodeOf(i) /\ frames[i].todo = <<>>
            /\ IsPlaced(NodeOf(i)) /\ HeadOf(i) <= num /\ NodeOf(i) \in Node /\ HeadOf(i) \in Nat
        BY <4>1, <2>0, <1>t DEF Framed
      <4>4. frames'[i] = frames[i] BY <4>1, <1>l DEF Opens
      <4>5. IsPlaced(NodeOf(i))'
        <5>1. cdn'[NodeOf(i)] = UINT_MAX
          <6>1. \A y \in Node : IsPlaced(y) => IsPlaced(y)' BY <1>s
          <6>2. \A y \in Node : IsPlaced(y) => cdn'[y] = UINT_MAX BY <6>1 DEF IsPlaced
          <6> QED BY <6>2, <4>3
        <5> QED BY <5>1, <4>1, <1>t DEF IsPlaced
      <4> QED BY <1>t, <4>1, <4>3, <4>4, <4>5
    <3> QED BY <3>1, <3>2
  <2>6. ASSUME NEW i \in Nat, Active(i)' PROVE OnStack(NodeOf(i))'
    <3>1. Active(i) /\ i # l BY <1>s, <2>6
    <3> QED BY <3>1, <1>s DEF OnStack
  <2>7. ASSUME NEW i \in 1..Len(frames)', Visiting(i + 1)'
        PROVE  frames'[i].todo # <<>> /\ Head(frames'[i].todo) = NodeOf(i + 1)'
    <3>1. i \in Nat /\ i + 1 \in Nat BY <1>l, <1>t
    <3>2. Visiting(i + 1) /\ i \in 1..l /\ i + 1 \in 1..l BY <3>1, <1>l, <1>t, <2>7
    <3>3. frames[i].todo # <<>> /\ Head(frames[i].todo) = NodeOf(i + 1) /\ frames'[i] = frames[i]
      BY <1>l, <2>0, <3>2 DEF Framed, Opens
    <3> QED BY <1>t, <3>2, <3>3
  <2>8. ASSUME NEW i \in 1..Len(frames)', NEW y \in Node, Due(i, y)' PROVE Follows(NodeOf(i), y)'
    <3>1. CASE i = l + 1
      <4>1. Follows(n, y) BY <3>1, <1>t, <2>8
      <4> QED BY <4>1, <3>1, <1>t DEF Follows
    <3>2. CASE i # l + 1
      <4>1. i \in 1..l /\ Due(i, y) BY <3>2, <1>l, <1>t, <2>8
      <4>2. Follows(NodeOf(i), y) BY <2>0, <4>1, <1>l DEF Framed
      <4> QED BY <1>t, <4>1, <4>2 DEF Follows
    <3> QED BY <3>1, <3>2
  <2> QED BY <1>t, <2>1, <2>2, <2>4, <2>5, <2>6, <2>7, <2>8 DEF Framed
<1>3. PathRight'
  BY <1>s, <1>t DEF PathRight
<1>4. HeadRight'
  <2> SUFFICES ASSUME NEW i \in Nat, Active(i)'
               PROVE  /\ HeadReached(i)'
                      /\ HeadOf(i)' <= cdn'[NodeOf(i)']
                      /\ \A k \in Nat : Opened(k)' /\ k < i => Nr(k)' < HeadOf(i)'
    BY DEF HeadRight
  <2>0. Active(i) /\ i # l BY <1>s
  <2>1. HeadReached(i) /\ HeadOf(i) <= cdn[NodeOf(i)] /\ \A k \in Nat : Opened(k) /\ k < i => Nr(k) < HeadOf(i)
    BY <2>0 DEF HeadRight
  <2>2. HeadOf(i)' = HeadOf(i) /\ HeadOf(i) \in Nat /\ NodeOf(i)' = NodeOf(i) /\ i \in 1..l /\ i < l BY <2>0, <1>s, <1>t
  <2>3. PICK w \in Node : OnStack(w) /\ cdn[w] = HeadOf(i) /\ Inside(succs, From(HeadOf(i)), NodeOf(i), w)
    BY <2>1 DEF HeadReached
  <2>4. PICK h \in Nat : h = HeadOf(i) BY <2>2
  <2>5. NodeOf(i) \in From(h) /\ NodeOf(i) \notin S BY <2>0, <2>1, <2>4, <1>s DEF From
  <2>6. w \in From(h) /\ w \notin S BY <2>0, <2>1, <2>3, <2>4, <1>s, <1>t, <1>c DEF From
  <2>7. Inside(succs, From(h)', NodeOf(i), w) BY <2>3, <2>4, <2>5, <2>6, <1>p
  <2>8. OnStack(w)' /\ cdn'[w] = cdn[w] BY <2>3, <2>6, <1>s
  <2>9. HeadReached(i)' BY <2>2, <2>3, <2>4, <2>7, <2>8, <1>t DEF HeadReached
  <2>10. ASSUME NEW k \in Nat, Opened(k)', k < i PROVE Nr(k)' < HeadOf(i)'
    <3>1. Opened(k) /\ k \in 1..l /\ Visiting(k) BY <1>t, <2>2, <2>10 DEF Opened
    <3> QED BY <3>1, <2>1, <2>2, <2>10, <1>s
  <2> QED BY <2>0, <2>1, <2>2, <2>9, <2>10, <1>s
<1>5. LoopRight'
  <2> SUFFICES ASSUME NEW i \in Nat, Active(i)', Loops(i)', ~(HeadOf(i)' < cdn'[NodeOf(i)'])
               PROVE  \E y \in From(cdn[NodeOf(i)])' : Follows(y, NodeOf(i))'
    BY DEF LoopRight
  <2>1. Active(i) /\ i # l /\ i \in 1..l /\ NodeOf(i)' = NodeOf(i) /\ cdn'[NodeOf(i)] = cdn[NodeOf(i)]
        /\ NodeOf(i) \in Node /\ NodeOf(i) \notin S /\ OnStack(NodeOf(i))
    BY <1>s, <1>t
  <2>2. PICK h \in Nat : h = cdn[NodeOf(i)] BY <1>t, <2>1
  <2>3. From(cdn[NodeOf(i)])' = From(h)' BY <2>1, <2>2
  <2>4. PICK y \in From(h) : Follows(y, NodeOf(i)) BY <2>1, <2>2, <1>t DEF LoopRight
  <2>5. y \notin S
    <3>1. ~IsPlaced(NodeOf(i)) BY <2>1 DEF OnStack, IsPlaced
    <3> QED BY <3>1, <2>1, <2>4, <1>k
  <2>6. y \in From(h)' BY <2>4, <2>5, <1>s
  <2> QED BY <2>3, <2>4, <2>6, <2>1, <1>s
<1>u. ASSUME NEW i \in Nat, Active(i)', NEW y \in Node, Under(i, y)' PROVE Under(i, y)
  <2>1. Active(i) /\ i # l /\ NodeOf(i)' = NodeOf(i) /\ cdn'[NodeOf(i)] = cdn[NodeOf(i)] BY <1>u, <1>s
  <2>2. OnStack(y) /\ cdn'[y] = cdn[y] BY <1>u, <1>s DEF Under
  <2>3. ASSUME NEW j \in Nat, Visiting(j), i < j PROVE cdn[y] < Nr(j)
    <3>1. Visiting(j)' /\ Nr(j)' = Nr(j) BY <2>3, <1>s, <1>t
    <3> QED BY <3>1, <2>2, <2>3, <1>u DEF Under
  <2> QED BY <2>1, <2>2, <2>3, <1>u DEF Under
<1>6. LowLink'
  <2> SUFFICES ASSUME NEW i \in Nat, Active(i)', NEW y \in Node, NEW w \in Node,
                      Under(i, y)', Follows(y, w)', OnStack(w)'
               PROVE  (y = NodeOf(i)' /\ Due(i, w)') \/ HeadOf(i)' <= cdn'[w]
    BY DEF LowLink
  <2>1. Follows(y, w) /\ OnStack(w) /\ Active(i) /\ Under(i, y) /\ i \in 1..l /\ cdn'[w] = cdn[w] BY <1>s, <1>u
  <2> QED BY <2>1, <1>t DEF LowLink
<1>7. Explored'
  <2> SUFFICES ASSUME NEW y \in Node, NEW w \in Node, OnStack(y)', Follows(y, w)', ~IsPlaced(w)',
                      ~(\E i \in Nat : Active(i)' /\ y = NodeOf(i)' /\ Due(i, w)')
               PROVE  OnStack(w)' /\ \A j \in Nat : Visiting(j)' /\ cdn'[y] < Nr(j)' => cdn'[w] < Nr(j)'
    BY DEF Explored
  <2>1. Follows(y, w) /\ ~IsPlaced(w) /\ OnStack(y) /\ cdn'[y] = cdn[y] /\ cdn[y] < c BY <1>s
  <2>4. ASSUME NEW i \in Nat, Active(i), y = NodeOf(i), Due(i, w) PROVE FALSE
    <3>1. i # l BY <2>4, <1>t
    <3>2. Active(i)' /\ y = NodeOf(i)' /\ Due(i, w)' BY <2>4, <3>1, <1>s, <1>t
    <3> QED BY <3>2
  <2>5. OnStack(w) /\ \A j \in Nat : Visiting(j) /\ cdn[y] < Nr(j) => cdn[w] < Nr(j)
    BY <2>1, <2>4 DEF Explored
  <2>6. cdn[w] < c BY <2>1, <2>5, <1>c, <1>l, <1>t
  <2>7. OnStack(w)' /\ cdn'[w] = cdn[w] BY <2>5, <2>6, <1>s, <1>c, <1>t
  <2>8. ASSUME NEW j \in Nat, Visiting(j)', cdn'[y] < Nr(j)' PROVE cdn'[w] < Nr(j)'
    <3>1. Visiting(j) /\ Nr(j)' = Nr(j) BY <2>8, <1>t, <1>s
    <3> QED BY <3>1, <2>1, <2>5, <2>7, <2>8
  <2> QED BY <2>7, <2>8
<1>8. Quiet'
  <2> SUFFICES ASSUME NEW i \in Nat, Active(i)', ~Loops(i)'
               PROVE  /\ HeadOf(i)' = cdn'[NodeOf(i)']
                      /\ \A y \in Node : Under(i, y)' => y = NodeOf(i)'
                      /\ \A w \in Node : Follows(NodeOf(i), w)' => Due(i, w)' \/ IsPlaced(w)'
    BY DEF Quiet
  <2>1. Active(i) /\ i # l /\ i \in 1..l /\ ~Loops(i) BY <1>s, <1>t
  <2>2. /\ HeadOf(i) = cdn[NodeOf(i)]
        /\ \A y \in Node : Under(i, y) => y = NodeOf(i)
        /\ \A w \in Node : Follows(NodeOf(i), w) => Due(i, w) \/ IsPlaced(w)
    BY <2>1 DEF Quiet
  <2>3. \A y \in Node : Under(i, y)' => y = NodeOf(i)' BY <2>1, <2>2, <1>u, <1>s
  <2>4. ASSUME NEW w \in Node, Follows(NodeOf(i), w)' PROVE Due(i, w)' \/ IsPlaced(w)'
    <3>1. Follows(NodeOf(i), w) BY <2>4, <2>1, <1>t DEF Follows
    <3> QED BY <3>1, <2>1, <2>2, <1>s, <1>t
  <2> QED BY <2>1, <2>2, <2>3, <2>4, <1>s, <1>t
<1>9. Settled'
  <2> SUFFICES ASSUME NEW i \in Nat, Opened(i)'
               PROVE  /\ \A y \in Node : OnStack(y)' /\ Nr(i)' <= cdn'[y] =>
                           \E j \in Nat : Visiting(j)' /\ i < j /\ Nr(j)' <= cdn'[y]
                      /\ \A w \in Node : Follows(NodeOf(i), w)' => Due(i + 1, w)' \/ IsPlaced(w)'
    BY DEF Settled
  <2>0. CASE i = l
    <3>1. \A y \in Node : OnStack(y)' => cdn'[y] < Nr(i)' BY <2>0, <1>s, <1>t, <1>c, <1>l
    <3>2. ASSUME NEW w \in Node, Follows(NodeOf(i), w)' PROVE Due(i + 1, w)'
      <4>1. Follows(n, w) BY <3>2, <2>0, <1>l, <1>t DEF Follows
      <4> QED BY <4>1, <2>0, <1>t
    <3>3. Nr(i)' \in Nat BY <2>0, <1>s, <1>c, <1>t, <1>l
    <3>4. \A y \in Node : cdn'[y] \in Nat BY <1>t
    <3> QED BY <3>1, <3>2, <3>3, <3>4
  <2>1. CASE i # l
    <3>1. Opened(i) /\ i \in 1..l /\ i + 1 \in 1..l /\ Visiting(i) /\ NodeOf(i)' = NodeOf(i) /\ Nr(i)' = Nr(i)
      <4>1. Opened(i) /\ i \in 1..l /\ Visiting(i) /\ i + 1 \in 1..l BY <2>1, <1>l, <1>t DEF Opened
      <4> QED BY <4>1, <1>t, <1>s
    <3>2. ASSUME NEW y \in Node, OnStack(y)', Nr(i)' <= cdn'[y]
          PROVE  \E j \in Nat : Visiting(j)' /\ i < j /\ Nr(j)' <= cdn'[y]
      <4>1. OnStack(y) /\ cdn'[y] = cdn[y] BY <3>2, <1>s
      <4>2. PICK j \in Nat : Visiting(j) /\ i < j /\ Nr(j) <= cdn[y] BY <3>1, <3>2, <4>1 DEF Settled
      <4> QED BY <4>1, <4>2, <1>t, <1>s
    <3>3. ASSUME NEW w \in Node, Follows(NodeOf(i), w)' PROVE Due(i + 1, w)' \/ IsPlaced(w)'
      <4>1. Follows(NodeOf(i), w) BY <3>1, <3>3, <1>t DEF Follows
      <4>2. Due(i + 1, w) \/ IsPlaced(w) BY <3>1, <4>1 DEF Settled
      <4> QED BY <3>1, <4>2, <1>s, <1>t
    <3> QED BY <3>2, <3>3
  <2> QED BY <2>0, <2>1
<1>10. Down'
  <2> SUFFICES ASSUME NEW i \in Nat, Active(i)', NEW y \in From(cdn[NodeOf(i)])',
                      \A k \in Nat : Opened(k)' /\ i < k => cdn'[y] < Nr(k)'
               PROVE  Inside(succs, From(cdn[NodeOf(i)]), NodeOf(i), y)'
    BY DEF Down
  <2>1. Active(i) /\ i # l /\ NodeOf(i) \in Node /\ Visiting(i) /\ NodeOf(i)' = NodeOf(i) /\ cdn'[NodeOf(i)] = cdn[NodeOf(i)]
        /\ OnStack(NodeOf(i)) /\ NodeOf(i) \notin S
    BY <1>s
  <2>2. PICK h \in Nat : h = cdn[NodeOf(i)] BY <1>t, <2>1
  <2>3. From(cdn[NodeOf(i)])' = From(h)' BY <2>1, <2>2
  <2>4. y \in From(h) /\ y \notin S /\ y \in Node BY <2>3, <1>s DEF From
  <2>5. OnStack(y)' /\ cdn'[y] = cdn[y]
    <3>1. OnStack(y) BY <2>4 DEF From
    <3> QED BY <3>1, <2>4, <1>s
  <2>6. ASSUME NEW k \in Nat, Opened(k), i < k PROVE cdn[y] < Nr(k)
    <3>1. Opened(k)' /\ Visiting(k) /\ Nr(k)' = Nr(k) BY <2>6, <1>s, <1>t DEF Opened
    <3> QED BY <3>1, <2>5, <2>6
  <2>7. NodeOf(i) \in From(h) BY <2>1, <2>2, <1>t DEF From
  <2>8. Inside(succs, From(h), NodeOf(i), y) BY <2>1, <2>2, <2>4, <2>6 DEF Down
  <2>9. Inside(succs, From(h)', NodeOf(i), y) BY <2>1, <2>4, <2>7, <2>8, <1>p
  <2> QED BY <2>9, <2>1, <2>3, <1>t
<1>11. Up'
  <2> SUFFICES ASSUME NEW y \in Node, OnStack(y)' PROVE \E i \in Nat : Active(i)' /\ UpTo(i, y)'
    BY DEF Up
  <2>1. OnStack(y) /\ cdn'[y] = cdn[y] /\ cdn[y] < c /\ y \notin S BY <1>s
  <2>2. PICK i \in Nat : Active(i) /\ UpTo(i, y) BY <2>1 DEF Up
  <2>3. i # l BY <2>1, <2>2, <1>l, <1>c, <1>t DEF UpTo, c
  <2>4. NodeOf(i) \in Node /\ NodeOf(i)' = NodeOf(i) /\ cdn'[NodeOf(i)] = cdn[NodeOf(i)] /\ Active(i)'
        /\ NodeOf(i) \notin S /\ OnStack(NodeOf(i))
    BY <2>2, <2>3, <1>s
  <2>5. PICK h \in Nat : h = cdn[NodeOf(i)] BY <2>4, <1>t
  <2>6. NodeOf(i) \in From(h) /\ (cdn[NodeOf(i)] < cdn[y] => y \in From(h)) BY <2>1, <2>4, <2>5, <1>t DEF From
  <2>7. cdn[NodeOf(i)] < cdn[y] /\ Inside(succs, From(h), y, NodeOf(i)) => Inside(succs, From(h)', y, NodeOf(i))
    BY <2>1, <2>4, <2>6, <1>p
  <2>8. UpTo(i, y)' BY <2>1, <2>2, <2>4, <2>5, <2>7, <1>t DEF UpTo
  <2> QED BY <2>4, <2>8
<1>12. Finished'
  <2> SUFFICES ASSUME NEW m \in Node, IsPlaced(m)', NEW w \in Node, Follows(m, w)', ~IsPlaced(w)'
               PROVE  \E k \in Nat : Opened(k)' /\ m = NodeOf(k)'
    BY DEF Finished
  <2>1. CASE m = n BY <2>1, <1>l, <1>t
  <2>2. CASE m # n
    <3>1. IsPlaced(m) /\ Follows(m, w) /\ ~IsPlaced(w) BY <2>2, <1>s
    <3>2. PICK k \in Nat : Opened(k) /\ m = NodeOf(k) BY <3>1 DEF Finished
    <3> QED BY <3>2, <1>t DEF Opened
  <2> QED BY <2>1, <2>2
<1>13. Reached(e)'
  <2>1. ReachableFrom(e)' = ReachableFrom(e) BY <1>t DEF ReachableFrom
  <2>2. NodeOf(l) \in ReachableFrom(e) BY <1>l DEF Reached
  <2>3. \A y \in Node : cdn'[y] # 0 => y \in ReachableFrom(e)
    <3>1. \A y \in Node : cdn'[y] # 0 => y = n \/ cdn'[y] = cdn[y] BY DEF Opens
    <3> QED BY <3>1, <2>2, <1>l DEF Reached
  <2>5. ASSUME NEW i \in 1..Len(frames)' PROVE NodeOf(i)' \in ReachableFrom(e)
    <3>1. CASE i = l + 1 BY <3>1, <2>2, <1>l, <1>t
    <3>2. CASE i # l + 1 BY <3>2, <1>l, <1>t DEF Reached
    <3> QED BY <3>1, <3>2
  <2> QED BY <2>1, <2>3, <2>5 DEF Reached
<1> QED BY <1>1, <1>2, <1>3, <1>4, <1>5, <1>6, <1>7, <1>8, <1>9, <1>10, <1>11, <1>12, <1>13

LEMMA TailElements ==
    ASSUME NEW s \in Seq(Node), s # <<>>
    PROVE  /\ Tail(s) \in Seq(Node) /\ Head(s) \in Node /\ Head(s) \in Range(s)
           /\ \A y : y \in Range(Tail(s)) => y \in Range(s)
           /\ \A y : y \in Range(s) => y = Head(s) \/ y \in Range(Tail(s))
<1>1. /\ Tail(s) \in Seq(Node) /\ Len(s) \in Nat /\ Len(s) > 0 /\ Len(Tail(s)) = Len(s) - 1
      /\ \A i \in 1..Len(Tail(s)) : Tail(s)[i] = s[i + 1]
      /\ DOMAIN s = 1..Len(s) /\ DOMAIN Tail(s) = 1..Len(Tail(s)) /\ Head(s) = s[1] /\ s[1] \in Node
  BY HeadTailProperties, LenProperties
<1>2. ASSUME NEW y, y \in Range(Tail(s)) PROVE y \in Range(s)
  <2>1. PICK i \in 1..Len(Tail(s)) : y = Tail(s)[i] BY <1>1, <1>2 DEF Range
  <2>2. i + 1 \in 1..Len(s) /\ y = s[i + 1] BY <2>1, <1>1
  <2> QED BY <2>2, <1>1 DEF Range
<1>3. ASSUME NEW y, y \in Range(s) PROVE y = Head(s) \/ y \in Range(Tail(s))
  <2>1. PICK i \in 1..Len(s) : y = s[i] BY <1>1, <1>3 DEF Range
  <2>2. CASE i = 1 BY <2>1, <2>2, <1>1
  <2>3. CASE i # 1
    <3>1. i - 1 \in 1..Len(Tail(s)) /\ (i - 1) + 1 = i BY <2>1, <2>3, <1>1
    <3>2. Tail(s)[i - 1] = y BY <3>1, <2>1, <1>1
    <3> QED BY <3>1, <3>2, <1>1 DEF Range
  <2> QED BY <2>2, <2>3
<1>4. Head(s) \in Range(s) BY <1>1 DEF Range
<1> QED BY <1>1, <1>2, <1>3, <1>4

LEMMA SawRight ==
    ASSUME NEW f \in CallFrame, f.todo # <<>>, NEW m \in Nat
    PROVE  /\ Saw(f, m) \in CallFrame /\ Saw(f, m).at = f.at /\ Saw(f, m).node = f.node
           /\ Saw(f, m).todo = Tail(f.todo)
           /\ Saw(f, m).head = IF f.at = "visit" /\ m <= f.head THEN m ELSE f.head
           /\ Saw(f, m).loop = (f.loop \/ (f.at = "visit" /\ m <= f.head))
<1>1. Tail(f.todo) \in Seq(Node) BY TailElements DEF CallFrame
<1> QED BY <1>1 DEF Saw, CallFrame

LEMMA ReturnRight ==
    ASSUME NEW F \in Seq(CallFrame), NEW p \in Nat, p <= Len(F), NEW m \in Nat,
           p > 0 => F[p].todo # <<>>,
           NEW G, G = ReturnTo(SubSeq(F, 1, p), m)
    PROVE  /\ G \in Seq(CallFrame) /\ Len(G) = p /\ (G = <<>> <=> p = 0)
           /\ \A i \in 1..p : i # p => G[i] = F[i]
           /\ p > 0 => G[p] = Saw(F[p], m)
<1> DEFINE H == SubSeq(F, 1, p)
<1>1. H \in Seq(CallFrame) /\ Len(H) = p /\ \A i \in 1..p : H[i] = F[i] BY SubSeqProperties
<1>2. CASE p = 0
  <2>1. H = <<>> BY <1>1, <1>2
  <2>2. G = <<>> BY <2>1, <1>2, SubSeqEmpty DEF ReturnTo
  <2>3. <<>> \in Seq(CallFrame) /\ Len(<<>>) = 0 BY EmptySeq
  <2>4. 1..p = {} BY <1>2
  <2>5. ~(p > 0) BY <1>2
  <2>6. Len(G) = p BY <2>2, <2>3, <1>2
  <2>7. G \in Seq(CallFrame) BY <2>2, <2>3
  <2>8. \A i \in 1..p : i # p => G[i] = F[i] BY <2>4
  <2>9. p > 0 => G[p] = Saw(F[p], m) BY <2>5
  <2>10. G = <<>> <=> p = 0 BY <2>2, <1>2
  <2> QED BY <2>6, <2>7, <2>8, <2>9, <2>10
<1>3. CASE p > 0
  <2>1. H # <<>> /\ Last(H) = F[p] /\ F[p] \in CallFrame BY <1>1, <1>3 DEF Last
  <2>2. Saw(F[p], m) \in CallFrame BY <2>1, <1>3, SawRight
  <2>3. Front(H) \in Seq(CallFrame) /\ Len(Front(H)) = p - 1 /\ \A i \in 1..(p - 1) : Front(H)[i] = F[i]
    <3>1. Front(H) = SubSeq(H, 1, p - 1) BY <1>1 DEF Front
    <3>2. \A i \in 1..(p - 1) : H[i] \in CallFrame BY <1>1, <1>3
    <3> QED BY <3>1, <3>2, <1>1, <1>3, SubSeqProperties
  <2>4. G = Append(Front(H), Saw(F[p], m)) BY <2>1 DEF ReturnTo
  <2> HIDE DEF H
  <2>5. Len(G) = p /\ G \in Seq(CallFrame) BY <2>2, <2>3, <2>4, <1>3, AppendProperties
  <2>6. G[p] = Saw(F[p], m) BY <2>2, <2>3, <2>4, <1>3, AppendProperties
  <2>7. \A i \in 1..(p - 1) : G[i] = F[i] BY <2>2, <2>3, <2>4, <1>3, AppendProperties
  <2> QED BY <2>5, <2>6, <2>7, <1>3
<1> QED BY <1>2, <1>3

\* A return to the p-th call.
Returns(p, m) ==
    /\ p \in Nat /\ p <= Len(frames) /\ m \in Nat /\ Len(frames) > 0
    /\ p > 0 => frames[p].todo # <<>>
    /\ p < Len(frames) => Visiting(p + 1)
    /\ frames' = ReturnTo(SubSeq(frames, 1, p), m)
    /\ succs' = succs /\ num' = num

LEMMA ReturnKeeps ==
    ASSUME Typed, NEW p, NEW m, Returns(p, m)
    PROVE  /\ Kept(p) /\ frames' \in Seq(CallFrame)
           /\ p > 0 => \A y \in Node : Due(p, y) => Due(p, y)' \/ y = Head(frames[p].todo)
           /\ p > 0 /\ Visiting(p) =>
                /\ HeadOf(p)' = IF m <= HeadOf(p) THEN m ELSE HeadOf(p)
                /\ Loops(p)' <=> Loops(p) \/ m <= HeadOf(p)
           /\ p > 0 /\ ~Visiting(p) => HeadOf(p)' = HeadOf(p) /\ Loops(p)' = Loops(p)
<1>0. frames \in Seq(CallFrame) /\ Len(frames) \in Nat BY CallTypes DEF Typed
<1>1. /\ frames' \in Seq(CallFrame) /\ Len(frames') = p /\ (frames' = <<>> <=> p = 0)
      /\ \A i \in 1..p : i # p => frames'[i] = frames[i]
      /\ p > 0 => frames'[p] = Saw(frames[p], m)
  <2>1. PICK g : g = frames' OBVIOUS
  <2>2. /\ p \in Nat /\ p <= Len(frames) /\ m \in Nat /\ (p > 0 => frames[p].todo # <<>>)
        /\ g = ReturnTo(SubSeq(frames, 1, p), m)
    BY <2>1 DEF Returns
  <2>3. /\ g \in Seq(CallFrame) /\ Len(g) = p /\ (g = <<>> <=> p = 0)
        /\ \A i \in 1..p : i # p => g[i] = frames[i]
        /\ p > 0 => g[p] = Saw(frames[p], m)
    <3>1. PICK F : F = frames OBVIOUS
    <3>2. F \in Seq(CallFrame) /\ p \in Nat /\ p <= Len(F) /\ m \in Nat /\ (p > 0 => F[p].todo # <<>>)
      BY <1>0, <2>2, <3>1
    <3>3. g = ReturnTo(SubSeq(F, 1, p), m) BY <2>2, <3>1
    <3>4. /\ g \in Seq(CallFrame) /\ Len(g) = p /\ (g = <<>> <=> p = 0)
          /\ \A i \in 1..p : i # p => g[i] = F[i]
          /\ p > 0 => g[p] = Saw(F[p], m)
      BY <3>2, <3>3, ReturnRight
    <3> QED BY <3>1, <3>4
  <2> QED BY <2>1, <2>3
<1>2. p \in Nat /\ m \in Nat /\ p <= Len(frames) BY DEF Returns
<1>3. ASSUME p > 0
      PROVE  /\ frames[p] \in CallFrame /\ frames[p].todo # <<>> /\ frames[p].todo \in Seq(Node)
             /\ frames'[p].at = frames[p].at /\ frames'[p].node = frames[p].node
             /\ frames'[p].todo = Tail(frames[p].todo)
             /\ frames'[p].head = IF frames[p].at = "visit" /\ m <= frames[p].head THEN m ELSE frames[p].head
             /\ frames'[p].loop = (frames[p].loop \/ (frames[p].at = "visit" /\ m <= frames[p].head))
             /\ frames[p].loop \in BOOLEAN
  <2>1. frames[p] \in CallFrame /\ frames[p].todo # <<>> BY <1>2, <1>3, CallTypes DEF Returns
  <2>2. frames[p].todo \in Seq(Node) /\ frames[p].loop \in BOOLEAN BY <2>1 DEF CallFrame
  <2> QED BY <2>1, <2>2, <1>1, <1>2, <1>3, SawRight
<1>4. \A i \in 1..p : frames'[i].at = frames[i].at /\ frames'[i].node = frames[i].node
  BY <1>1, <1>2, <1>3
<1>5. \A i \in Nat : Visiting(i)' <=> Visiting(i) /\ i <= p BY <1>1, <1>2, <1>4, <1>0 DEF Visiting
<1>6. ~Opened(p) BY <1>2, <1>0 DEF Opened, Returns, Visiting
<1>7. \A i \in Nat : Opened(i)' <=> Opened(i) /\ i <= p
  <2>1. ASSUME NEW i \in Nat, i < p PROVE Opened(i)' <=> Opened(i)
    <3>1. frames'[i + 1].at = frames[i + 1].at BY <2>1, <1>4, <1>2
    <3> QED BY <3>1, <2>1, <1>1, <1>2, <1>5, <1>0 DEF Opened
  <2>2. \A i \in Nat : Opened(i)' => i < p BY <1>1 DEF Opened
  <2> QED BY <2>1, <2>2, <1>6, <1>2
<1>8. \A i \in 1..p : NodeOf(i)' = NodeOf(i) BY <1>4 DEF NodeOf
<1>9. ASSUME p > 0, NEW y PROVE (Due(p, y)' => Due(p, y)) /\ (Due(p, y) => Due(p, y)' \/ y = Head(frames[p].todo))
  BY <1>3, <1>9, TailElements DEF Due
<1>10. ASSUME NEW i \in 1..p, NEW y \in Node PROVE (Due(i, y)' => Due(i, y)) /\ (i # p /\ Due(i, y) => Due(i, y)')
  <2>1. CASE i = p BY <2>1, <1>2, <1>9
  <2>2. CASE i # p BY <2>2, <1>1 DEF Due
  <2> QED BY <2>1, <2>2
<1>11. \A i \in 1..p : i # p => HeadOf(i)' = HeadOf(i) /\ Loops(i)' = Loops(i) BY <1>1 DEF HeadOf, Loops
<1>12. Len(frames)' = p /\ Len(frames) > 0 BY <1>1 DEF Returns
<1>13. Kept(p)
  BY <1>1, <1>2, <1>5, <1>6, <1>7, <1>8, <1>10, <1>11, <1>12 DEF Kept, Returns
<1>14. p > 0 /\ Visiting(p) =>
                /\ HeadOf(p)' = IF m <= HeadOf(p) THEN m ELSE HeadOf(p)
                /\ Loops(p)' <=> Loops(p) \/ m <= HeadOf(p)
  BY <1>3 DEF HeadOf, Loops, Visiting
<1>15. p > 0 /\ ~Visiting(p) => HeadOf(p)' = HeadOf(p) /\ Loops(p)' = Loops(p)
  BY <1>2, <1>3, <1>0 DEF HeadOf, Loops, Visiting
<1> QED BY <1>1, <1>9, <1>13, <1>14, <1>15

LEMMA SkipKeeps ==
    ASSUME Typed, Stacked, NEW e, Dfs(e), AllSealed, Skip, succs' = succs, num' < UINT_MAX
    PROVE  Typed' /\ Stacked' /\ Dfs(e)' /\ SameOpen
<1> USE DEF Dfs
<1>1. PICK l \in Nat : l = Len(frames) /\ l > 0 /\ frames # <<>>
  <2>1. frames # <<>> /\ frames \in Seq(CallFrame) BY DEF Skip, done, Typed
  <2>2. Len(frames) \in Nat /\ Len(frames) > 0 BY <2>1
  <2> QED BY <2>1, <2>2
<1>2. top = frames[l] BY <1>1 DEF top, Last
<1>3. PICK x : x = Head(frames[l].todo) OBVIOUS
<1>4. next = x BY <1>2, <1>3 DEF next
<1>5. /\ frames[l].todo # <<>> /\ frames[l].todo \in Seq(Node) /\ x \in Node /\ Due(l, x) /\ cdn[x] # 0
      /\ NodeOf(l) \in Node /\ HeadOf(l) \in Nat /\ cdn[x] \in Nat /\ Follows(NodeOf(l), x)
  <2>1. frames[l].todo # <<>> /\ cdn[x] # 0 BY <1>2, <1>4 DEF Skip
  <2>2. frames[l].todo \in Seq(Node) /\ NodeOf(l) \in Node /\ HeadOf(l) \in Nat BY <1>1, CallTypes
  <2>3. x \in Node /\ Due(l, x) BY <1>3, <2>1, <2>2, TailElements DEF Due
  <2>4. Follows(NodeOf(l), x) BY <2>3, <1>1 DEF Framed
  <2> QED BY <2>1, <2>2, <2>3, <2>4, CallTypes
<1>6. PICK m \in Nat : m = cdn[x] BY <1>5
<1>7. Returns(l, m) /\ cdn' = cdn /\ stack' = stack
  <2>1. SubSeq(frames, 1, l) = frames BY <1>1, SubSeqFull DEF Typed
  <2>2. frames' = ReturnTo(frames, m) /\ num' = num /\ cdn' = cdn /\ stack' = stack BY <1>4, <1>6 DEF Skip
  <2>3. frames' = ReturnTo(SubSeq(frames, 1, l), m) BY <2>1, <2>2
  <2>4. l <= Len(frames) /\ ~(l < Len(frames)) /\ Len(frames) > 0 BY <1>1
  <2> QED BY <2>2, <2>3, <2>4, <1>5 DEF Returns
<1>8. /\ Kept(l) /\ frames' \in Seq(CallFrame)
      /\ \A y \in Node : Due(l, y) => Due(l, y)' \/ y = x
      /\ Visiting(l) => /\ HeadOf(l)' = IF m <= HeadOf(l) THEN m ELSE HeadOf(l)
                        /\ Loops(l)' <=> Loops(l) \/ m <= HeadOf(l)
      /\ ~Visiting(l) => HeadOf(l)' = HeadOf(l) /\ Loops(l)' = Loops(l)
  BY <1>1, <1>3, <1>7, ReturnKeeps
<1>9. Typed' /\ Stacked'
  <2>1. Typed' BY <1>7, <1>8 DEF Typed, Skip
  <2>2. Stacked' BY <1>7 DEF Stacked, OnStack
  <2> QED BY <2>1, <2>2
<1>10. Visiting(l) => Active(l) /\ HeadOf(l) <= cdn[NodeOf(l)] /\ cdn[NodeOf(l)] < UINT_MAX /\ OnStack(NodeOf(l))
  <2>1. Visiting(l) => Active(l) BY <1>1 DEF Active, Opened
  <2>2. Active(l) => HeadOf(l) <= cdn[NodeOf(l)] BY <1>1 DEF HeadRight
  <2>3. Active(l) => OnStack(NodeOf(l)) /\ cdn[NodeOf(l)] <= num BY <1>1, <1>5 DEF Framed, Numbered
  <2>4. num < UINT_MAX /\ num \in Nat /\ cdn[NodeOf(l)] \in Nat BY <1>5, CallTypes DEF Typed
  <2> QED BY <2>1, <2>2, <2>3, <2>4, WTOAssumption
<1>11. ASSUME IsPlaced(x) PROVE Dfs(e)'
  <2>1. m = UINT_MAX BY <1>6, <1>11 DEF IsPlaced
  <2>2. HeadOf(l)' = HeadOf(l) /\ Loops(l)' = Loops(l)
    <3>1. CASE Visiting(l)
      <4>1. ~(m <= HeadOf(l)) BY <3>1, <2>1, <1>10, <1>5, CallTypes, WTOAssumption
      <4>2. Loops(l) \in BOOLEAN BY <1>1, CallTypes
      <4>3. frames'[l] \in CallFrame BY <1>1, <1>8 DEF Kept
      <4>4. Loops(l)' \in BOOLEAN BY <4>3 DEF CallFrame, Loops
      <4> QED BY <3>1, <4>1, <4>2, <4>4, <1>8
    <3>2. CASE ~Visiting(l) BY <3>2, <1>8
    <3> QED BY <3>1, <3>2
  <2>3. \A i \in 1..l : HeadOf(i)' = HeadOf(i) /\ Loops(i)' = Loops(i)
    BY <2>2, <1>8 DEF Kept
  <2>4. \A y \in Node : cdn'[y] = IF y = x THEN UINT_MAX ELSE cdn[y] BY <1>7, <1>11 DEF IsPlaced
  <2>5. \A j \in Nat : Visiting(j) => j <= l BY <1>1, CallTypes
  <2>6. \A i \in 1..l : Active(i) => NodeOf(i) # x BY <1>11 DEF Framed, OnStack, IsPlaced
  <2>7. PopPlaced(l, x)
    BY <1>1, <1>5, <1>8, <1>11, <2>3, <2>4, <2>5, <2>6 DEF PopPlaced, OnStack, IsPlaced, Opened
  <2> QED BY <2>7, PopPlacedKeeps
<1>12. ASSUME OnStack(x) PROVE Dfs(e)'
  <2>0. ~IsPlaced(x) BY <1>12 DEF OnStack, IsPlaced
  <2>1. ASSUME NEW k \in Nat, Opened(k), NodeOf(l) = NodeOf(k) \/ (Visiting(l) /\ k < l) PROVE Nr(k) < m
    <3>1. PICK G \in SUBSET Node : Sealed(k, G) BY <2>1 DEF AllSealed
    <3>2. NodeOf(l) \in G
      <4>1. CASE NodeOf(l) = NodeOf(k) BY <4>1, <3>1, <2>1 DEF Sealed
      <4>2. CASE Visiting(l) /\ k < l
        <5>1. Nr(k) < Nr(l) /\ Nr(l) = cdn[NodeOf(l)] BY <4>2, <2>1, <1>1, <1>10 DEF PathRight, Opened, Active, Nr
        <5> QED BY <5>1, <4>2, <3>1, <1>5, <1>10 DEF Sealed
      <4> QED BY <4>1, <4>2, <2>1
    <3>3. x \in G BY <3>1, <3>2, <1>5, <2>0 DEF Sealed
    <3> QED BY <3>1, <3>3, <1>5, <1>6, <1>12 DEF Sealed
  <2>2. Visiting(l)
    <3> SUFFICES ASSUME ~Visiting(l) PROVE FALSE OBVIOUS
    <3>1. Opened(l - 1) /\ l - 1 \in Nat /\ NodeOf(l) = NodeOf(l - 1)
      <4>1. l > 1 /\ Opened(l - 1) BY <1>1 DEF Framed
      <4>2. l - 1 \in Nat BY <4>1
      <4>3. NodeOf((l - 1) + 1) = NodeOf(l - 1) BY <4>1, <4>2 DEF Framed
      <4>4. (l - 1) + 1 = l OBVIOUS
      <4> QED BY <4>1, <4>2, <4>3, <4>4
    <3>2. Nr(l - 1) < m BY <3>1, <2>1
    <3>3. Nr(l - 1) \in Nat BY <3>1, CallTypes DEF Opened
    <3>4. PICK j \in Nat : Visiting(j) /\ l - 1 < j BY <3>1, <3>2, <3>3, <1>5, <1>6, <1>12 DEF Settled
    <3>5. j <= l BY <3>4, <1>1, CallTypes
    <3> QED BY <3>4, <3>5
  <2>3. \A k \in Nat : Opened(k) /\ k < l => Nr(k) < m BY <2>1, <2>2
  <2>4. Inside(succs, From(m), x, x) BY InsideSelf
  <2>5. PopStack(l, x, m)
    BY <1>1, <1>5, <1>6, <1>7, <1>8, <1>10, <1>12, <2>2, <2>3, <2>4 DEF PopStack
  <2> QED BY <2>5, PopStackKeeps
<1>13. SameOpen
  <2>1. \A i \in Nat : Opened(i) => i <= l BY <1>1 DEF Opened
  <2> QED BY <2>1, <1>8, KeptOpen
<1> QED BY <1>5, <1>9, <1>11, <1>12, <1>13 DEF OnStack, IsPlaced

LEMMA DescendRight ==
    ASSUME Typed, Stacked, NEW e, Dfs(e), Descend, succs' = succs, num' < UINT_MAX
    PROVE  Typed' /\ Stacked' /\ Dfs(e)' /\ parts' = parts
           /\ \E l, x : Descends(l, x)
<1> USE DEF Dfs
<1>1. PICK l \in Nat : l = Len(frames) /\ l > 0 /\ frames # <<>>
  <2>1. frames # <<>> /\ frames \in Seq(CallFrame) BY DEF Descend, done, Typed
  <2>2. Len(frames) \in Nat /\ Len(frames) > 0 BY <2>1
  <2> QED BY <2>1, <2>2
<1>2. top = frames[l] BY <1>1 DEF top, Last
<1>3. PICK x : x = Head(frames[l].todo) OBVIOUS
<1>4. next = x BY <1>2, <1>3 DEF next
<1>5. /\ frames[l].todo # <<>> /\ frames[l].todo \in Seq(Node) /\ x \in Node /\ Due(l, x) /\ cdn[x] = 0
      /\ NodeOf(l) \in Node /\ Follows(NodeOf(l), x)
  <2>1. frames[l].todo # <<>> /\ cdn[x] = 0 BY <1>2, <1>4 DEF Descend
  <2>2. frames[l].todo \in Seq(Node) /\ NodeOf(l) \in Node BY <1>1, CallTypes
  <2>3. x \in Node /\ Due(l, x) BY <1>3, <2>1, <2>2, TailElements DEF Due
  <2>4. Follows(NodeOf(l), x) BY <2>3, <1>1 DEF Framed
  <2> QED BY <2>1, <2>2, <2>3, <2>4
<1>6. PICK F, v : F = frames' /\ v = Visit(x, num + 1) OBVIOUS
<1>7. /\ num' = num + 1 /\ cdn' = [cdn EXCEPT ![x] = num + 1] /\ stack' = Append(stack, x)
      /\ F = Append(frames, v) /\ parts' = parts
  BY <1>4, <1>6 DEF Descend, Enter
<1>8. /\ v \in CallFrame /\ v.at = "visit" /\ v.node = x /\ v.head = num + 1 /\ v.loop = FALSE /\ v.todo = succs[x]
  <2>1. succs[x] \in Seq(Node) /\ num + 1 \in Nat BY <1>5 DEF Typed
  <2> QED BY <2>1, <1>5, <1>6 DEF Visit, CallFrame
<1>9. /\ F \in Seq(CallFrame) /\ Len(F) = l + 1 /\ F[l + 1] = v
      /\ \A i \in 1..l : F[i] = frames[i]
  <2>1. frames \in Seq(CallFrame) BY DEF Typed
  <2> QED BY <2>1, <1>1, <1>7, <1>8, AppendProperties
<1>10. /\ cdn' \in [Node -> Nat] /\ \A y \in Node : cdn'[y] = IF y = x THEN num + 1 ELSE cdn[y]
  BY <1>5, <1>7 DEF Typed
<1>11. stack' \in Seq(Node) /\ Len(stack) \in Nat /\ Len(stack') = Len(stack) + 1 /\ stack'[Len(stack) + 1] = x
       /\ \A i \in 1..Len(stack) : stack'[i] = stack[i] /\ stack[i] \in Node
  <2>1. stack \in Seq(Node) /\ Len(stack) \in Nat BY DEF Typed
  <2> QED BY <2>1, <1>5, <1>7, AppendProperties, ElementOfSeq
<1>12. Typed' BY <1>6, <1>7, <1>9, <1>10, <1>11 DEF Typed
<1>13. Stacked'
  <2>1. \A y \in Node : OnStack(y)' <=> OnStack(y) \/ y = x
    <3>1. num + 1 # 0 /\ num + 1 # UINT_MAX BY <1>7, WTOAssumption DEF Typed
    <3> QED BY <3>1, <1>10, <1>5 DEF OnStack
  <2>2. \A i \in 1..Len(stack) : OnStack(stack[i]) /\ stack[i] # x /\ cdn'[stack[i]] = cdn[stack[i]] /\ cdn[stack[i]] <= num
    BY <1>5, <1>10, <1>11 DEF Stacked, Numbered, OnStack
  <2>3. ASSUME NEW y \in Node PROVE OnStack(y)' <=> \E i \in 1..Len(stack)' : stack'[i] = y
    <3>1. OnStack(y) <=> \E i \in 1..Len(stack) : stack[i] = y BY DEF Stacked
    <3>2. (\E i \in 1..Len(stack)' : stack'[i] = y) <=> y = x \/ \E i \in 1..Len(stack) : stack[i] = y
      BY <1>11
    <3> QED BY <2>1, <3>1, <3>2
  <2>4. ASSUME NEW i \in 1..Len(stack)', NEW j \in 1..Len(stack)', i < j PROVE cdn'[stack'[i]] < cdn'[stack'[j]]
    <3>1. i \in 1..Len(stack) BY <2>4, <1>11
    <3>2. CASE j = Len(stack) + 1
      <4>1. cdn'[stack'[j]] = num + 1 BY <3>2, <1>5, <1>10, <1>11
      <4>2. cdn'[stack'[i]] <= num /\ cdn'[stack'[i]] \in Nat /\ num \in Nat BY <3>1, <2>2, <1>11, CallTypes DEF Typed
      <4> QED BY <4>1, <4>2
    <3>3. CASE j # Len(stack) + 1
      <4>1. j \in 1..Len(stack) BY <3>3, <1>11
      <4> QED BY <3>1, <4>1, <2>2, <2>4, <1>11 DEF Stacked
    <3> QED BY <3>2, <3>3
  <2> QED BY <2>3, <2>4 DEF Stacked
<1>14. Descends(l, x)
  <2>1. \A i \in Nat : Visiting(i)' <=> Visiting(i) \/ i = l + 1
    BY <1>1, <1>6, <1>8, <1>9 DEF Visiting
  <2>2. ASSUME NEW i \in Nat PROVE Opened(i)' <=> Opened(i)
    <3>1. CASE i = l BY <3>1, <1>1, <1>6, <1>8, <1>9 DEF Opened
    <3>2. CASE i < l
      <4>1. F[i + 1] = frames[i + 1] BY <3>2, <1>9
      <4> QED BY <4>1, <3>2, <2>1, <1>1, <1>6, <1>9 DEF Opened
    <3>3. CASE i > l BY <3>3, <1>1, <1>6, <1>9 DEF Opened, Visiting
    <3> QED BY <3>1, <3>2, <3>3
  <2>3. \A i \in 1..l :
         /\ frames'[i] = frames[i] /\ NodeOf(i)' = NodeOf(i) /\ HeadOf(i)' = HeadOf(i) /\ Loops(i)' = Loops(i)
         /\ \A y \in Node : Due(i, y)' <=> Due(i, y)
    BY <1>6, <1>9 DEF NodeOf, HeadOf, Loops, Due
  <2>4. NodeOf(l + 1)' = x /\ HeadOf(l + 1)' = num + 1 /\ ~Loops(l + 1)'
    BY <1>6, <1>8, <1>9 DEF NodeOf, HeadOf, Loops
  <2>5. \A y \in Node : Due(l + 1, y)' <=> Follows(x, y)
    BY <1>6, <1>8, <1>9 DEF Due, Follows
  <2>6. Len(frames)' = l + 1 BY <1>6, <1>9
  <2> QED BY <2>1, <2>2, <2>3, <2>4, <2>5, <2>6, <1>1, <1>3, <1>5, <1>7, <1>10 DEF Descends
<1>15. Dfs(e)'
  <2> HIDE DEF Dfs
  <2> QED BY <1>14, DescendKeeps
<1> QED BY <1>7, <1>12, <1>13, <1>14, <1>15

\* The top call of visit has looked at all successors: what the calls below say of it.
LEMMA VisitEnds ==
    ASSUME Typed, NEW e, Dfs(e), NEW l \in Nat, l = Len(frames), Visiting(l), frames[l].todo = <<>>
    PROVE  /\ Active(l) /\ l > 0 /\ NodeOf(l) \in Node /\ OnStack(NodeOf(l)) /\ HeadOf(l) \in Nat
           /\ HeadOf(l) <= cdn[NodeOf(l)] /\ Nr(l) = cdn[NodeOf(l)]
           /\ \A y : ~Due(l, y)
           /\ l > 1 => /\ frames[l - 1].todo # <<>> /\ Head(frames[l - 1].todo) = NodeOf(l)
                       /\ Follows(NodeOf(l - 1), NodeOf(l)) /\ Due(l - 1, NodeOf(l))
                       /\ Visiting(l - 1) => Active(l - 1)
<1> USE DEF Dfs
<1>1. Active(l) /\ l > 0 BY DEF Active, Opened, Visiting
<1>2. NodeOf(l) \in Node /\ HeadOf(l) \in Nat BY <1>1, CallTypes
<1>3. OnStack(NodeOf(l)) BY <1>1 DEF Framed
<1>4. HeadOf(l) <= cdn[NodeOf(l)] BY <1>1 DEF HeadRight
<1>5. Nr(l) = cdn[NodeOf(l)] BY <1>1 DEF Active, Nr
<1>6. \A y : ~Due(l, y) BY EmptySeq DEF Due, Range
<1>7. ASSUME l > 1
      PROVE  /\ frames[l - 1].todo # <<>> /\ Head(frames[l - 1].todo) = NodeOf(l)
             /\ Follows(NodeOf(l - 1), NodeOf(l)) /\ Due(l - 1, NodeOf(l))
             /\ Visiting(l - 1) => Active(l - 1)
  <2>1. l - 1 \in 1..Len(frames) /\ (l - 1) + 1 = l BY <1>7
  <2>2. frames[l - 1].todo # <<>> /\ Head(frames[l - 1].todo) = NodeOf(l) BY <2>1 DEF Framed
  <2>3. frames[l - 1].todo \in Seq(Node) BY <2>1, CallTypes
  <2>4. Due(l - 1, NodeOf(l)) BY <2>2, <2>3, TailElements DEF Due
  <2>5. Follows(NodeOf(l - 1), NodeOf(l)) BY <2>1, <2>4, <1>2 DEF Framed
  <2>6. ~Opened(l - 1) BY <2>1 DEF Opened, Visiting
  <2> QED BY <2>2, <2>4, <2>5, <2>6 DEF Active
<1> QED BY <1>1, <1>2, <1>3, <1>4, <1>5, <1>6, <1>7

LEMMA LeaveKeeps ==
    ASSUME Typed, Stacked, NEW e, Dfs(e), Leave, succs' = succs, num' < UINT_MAX
    PROVE  Typed' /\ Stacked' /\ Dfs(e)' /\ SameOpen
<1>1. PICK l \in Nat : l = Len(frames) /\ l > 0 /\ frames # <<>>
  <2>1. frames # <<>> /\ frames \in Seq(CallFrame) BY DEF Leave, done, Typed
  <2>2. Len(frames) \in Nat /\ Len(frames) > 0 BY <2>1
  <2> QED BY <2>1, <2>2
<1>2. top = frames[l] BY <1>1 DEF top, Last
<1>3. Visiting(l) /\ frames[l].todo = <<>> /\ HeadOf(l) # cdn[NodeOf(l)]
  BY <1>1, <1>2 DEF Leave, Visiting, HeadOf, NodeOf
<1>4. PICK x, m : x = NodeOf(l) /\ m = HeadOf(l) OBVIOUS
<1>5. /\ Active(l) /\ x \in Node /\ OnStack(x) /\ m \in Nat /\ cdn[x] \in Nat
      /\ m < cdn[x] /\ Nr(l) = cdn[x] /\ \A y : ~Due(l, y)
      /\ l > 1 => /\ frames[l - 1].todo # <<>> /\ Head(frames[l - 1].todo) = x
                  /\ Follows(NodeOf(l - 1), x) /\ Due(l - 1, x) /\ (Visiting(l - 1) => Active(l - 1))
  <2>1. /\ Active(l) /\ x \in Node /\ OnStack(x) /\ m \in Nat /\ m <= cdn[x] /\ Nr(l) = cdn[x] /\ \A y : ~Due(l, y)
        /\ l > 1 => /\ frames[l - 1].todo # <<>> /\ Head(frames[l - 1].todo) = x
                    /\ Follows(NodeOf(l - 1), x) /\ Due(l - 1, x) /\ (Visiting(l - 1) => Active(l - 1))
    BY <1>1, <1>3, <1>4, VisitEnds
  <2>2. cdn[x] \in Nat BY <2>1, CallTypes
  <2> QED BY <2>1, <2>2, <1>3, <1>4
<1> USE DEF Dfs
<1>6. PICK z \in Node : OnStack(z) /\ cdn[z] = m /\ Inside(succs, From(m), x, z)
  BY <1>1, <1>4, <1>5 DEF HeadRight, HeadReached
<1>7. \A k \in Nat : Opened(k) /\ k < l => Nr(k) < m BY <1>1, <1>4, <1>5 DEF HeadRight
<1>8. l > 1
  <2> SUFFICES ASSUME l = 1 PROVE FALSE BY <1>1
  <2>1. Nr(1) <= cdn[z] BY <1>1, <1>6 DEF Framed
  <2> QED BY <2>1, <1>5, <1>6
<1>9. PICK p \in Nat : p = l - 1 /\ p > 0 /\ p + 1 = l /\ p <= Len(frames) BY <1>1, <1>8
<1>10. Visiting(p)
  <2> SUFFICES ASSUME ~Visiting(p) PROVE FALSE OBVIOUS
  <2>1. p > 1 /\ Opened(p - 1) BY <1>1, <1>9 DEF Framed
  <2>2. p - 1 \in Nat /\ p - 1 < l BY <2>1, <1>9
  <2>3. Nr(p - 1) < m /\ Nr(p - 1) \in Nat BY <2>1, <2>2, <1>7, CallTypes DEF Opened
  <2>4. PICK j \in Nat : Visiting(j) /\ p - 1 < j /\ Nr(j) <= m BY <2>1, <2>2, <2>3, <1>5, <1>6 DEF Settled
  <2>5. j <= l BY <2>4, <1>1, CallTypes
  <2>6. j # p /\ j # l BY <2>4, <1>5
  <2> QED BY <2>4, <2>5, <2>6, <1>9
<1>11. Active(p) BY <1>5, <1>8, <1>9, <1>10
<1>12. Returns(p, m) /\ cdn' = cdn /\ stack' = stack
  <2>1. frames' = ReturnTo(Front(frames), m) /\ num' = num /\ cdn' = cdn /\ stack' = stack
    BY <1>2, <1>4 DEF Leave, HeadOf
  <2>2. Front(frames) = SubSeq(frames, 1, p) BY <1>1, <1>9 DEF Front
  <2>3. Visiting(p + 1) BY <1>3, <1>9
  <2> QED BY <2>1, <2>2, <2>3, <1>1, <1>5, <1>8, <1>9 DEF Returns
<1>13. /\ Kept(p) /\ frames' \in Seq(CallFrame)
       /\ \A y \in Node : Due(p, y) => Due(p, y)' \/ y = x
       /\ HeadOf(p)' = IF m <= HeadOf(p) THEN m ELSE HeadOf(p)
       /\ Loops(p)' <=> Loops(p) \/ m <= HeadOf(p)
  <2>1. Head(frames[p].todo) = x BY <1>5, <1>8, <1>9
  <2> QED BY <2>1, <1>9, <1>10, <1>12, ReturnKeeps
<1>14. Typed' BY <1>12, <1>13 DEF Typed, Leave
<1>15. Stacked' BY <1>12 DEF Stacked, OnStack
<1>16. PopStack(p, x, m)
  <2>1. p < Len(frames) => /\ p + 1 = Len(frames) /\ Active(p + 1) /\ NodeOf(p + 1) = x
                          /\ m = HeadOf(p + 1) /\ m < cdn[x] /\ \A y \in Node : ~Due(p + 1, y)
    BY <1>1, <1>4, <1>5, <1>9
  <2>2. \A k \in Nat : Opened(k) /\ k < p => Nr(k) < m BY <1>7, <1>9
  <2>3. Follows(NodeOf(p), x) BY <1>5, <1>8, <1>9
  <2> QED BY <2>1, <2>2, <2>3, <1>5, <1>6, <1>9, <1>11, <1>12, <1>13 DEF PopStack
<1>17. Dfs(e)'
  <2> HIDE DEF Dfs
  <2> QED BY <1>16, PopStackKeeps
<1>18. SameOpen
  <2>1. \A i \in Nat : Opened(i) => i <= p BY <1>1, <1>9 DEF Opened
  <2> QED BY <2>1, <1>13, KeptOpen
<1> QED BY <1>14, <1>15, <1>17, <1>18

LEMMA PlaceKeeps ==
    ASSUME Typed, Stacked, NEW e, Dfs(e), PlaceNode, succs' = succs, num' < UINT_MAX
    PROVE  /\ Typed' /\ Stacked' /\ Dfs(e)'
           /\ \E l \in Nat, x \in Node :
                /\ l > 0 /\ Active(l) /\ x = NodeOf(l) /\ PopPlaced(l - 1, x) /\ OnStack(x)
                /\ \A i \in Nat : Opened(i) => i < l
                /\ \A y \in Node : Follows(x, y) => IsPlaced(y)
                /\ parts' = pushFront([node |-> x, head |-> FALSE, depth |-> <<>>])
<1>1. PICK l \in Nat : l = Len(frames) /\ l > 0 /\ frames # <<>>
  <2>1. frames # <<>> /\ frames \in Seq(CallFrame) BY DEF PlaceNode, done, Typed
  <2>2. Len(frames) \in Nat /\ Len(frames) > 0 BY <2>1
  <2> QED BY <2>1, <2>2
<1>2. top = frames[l] BY <1>1 DEF top, Last
<1>3. Visiting(l) /\ frames[l].todo = <<>> /\ HeadOf(l) = cdn[NodeOf(l)] /\ ~Loops(l)
  BY <1>1, <1>2 DEF PlaceNode, Visiting, HeadOf, NodeOf, Loops
<1>4. PICK x, m : x = NodeOf(l) /\ m = HeadOf(l) OBVIOUS
<1>5. /\ Active(l) /\ x \in Node /\ OnStack(x) /\ m \in Nat /\ m = cdn[x] /\ Nr(l) = cdn[x] /\ \A y : ~Due(l, y)
      /\ l > 1 => /\ frames[l - 1].todo # <<>> /\ Head(frames[l - 1].todo) = x
                  /\ (Visiting(l - 1) => Active(l - 1))
  BY <1>1, <1>3, <1>4, VisitEnds
<1> USE DEF Dfs
<1>6. /\ \A y \in Node : Under(l, y) => y = x
      /\ \A y \in Node : Follows(x, y) => IsPlaced(y)
  BY <1>1, <1>3, <1>4, <1>5 DEF Quiet
<1>7. \A j \in Nat : Visiting(j) => j <= l BY <1>1, CallTypes
<1>8. \A y \in Node : OnStack(y) /\ y # x => cdn[y] < cdn[x]
  <2>1. ASSUME NEW y \in Node, OnStack(y), cdn[x] <= cdn[y] PROVE y = x
    <3>1. Under(l, y) BY <2>1, <1>4, <1>7 DEF Under
    <3> QED BY <3>1, <1>6
  <2> QED BY <2>1, <1>5, CallTypes
<1>9. PICK p \in Nat : p = l - 1 /\ p + 1 = l /\ p <= Len(frames) /\ p < l BY <1>1
<1>10. /\ cdn' = [cdn EXCEPT ![x] = UINT_MAX] /\ stack' = Front(stack) /\ num' = num
       /\ frames' = ReturnTo(Front(frames), m)
       /\ parts' = pushFront([node |-> x, head |-> FALSE, depth |-> <<>>])
  BY <1>2, <1>4 DEF PlaceNode, HeadOf, NodeOf
<1>11. Returns(p, m)
  <2>2. Front(frames) = SubSeq(frames, 1, p) BY <1>1, <1>9 DEF Front
  <2>3. Visiting(p + 1) BY <1>3, <1>9
  <2>4. p > 0 => frames[p].todo # <<>> BY <1>5, <1>9
  <2> QED BY <2>2, <2>3, <2>4, <1>1, <1>5, <1>9, <1>10 DEF Returns
<1>12. /\ Kept(p) /\ frames' \in Seq(CallFrame)
       /\ p > 0 => \A y \in Node : Due(p, y) => Due(p, y)' \/ y = x
       /\ p > 0 /\ Visiting(p) =>
                /\ HeadOf(p)' = IF m <= HeadOf(p) THEN m ELSE HeadOf(p)
                /\ Loops(p)' <=> Loops(p) \/ m <= HeadOf(p)
       /\ p > 0 /\ ~Visiting(p) => HeadOf(p)' = HeadOf(p) /\ Loops(p)' = Loops(p)
  <2>1. p > 0 => Head(frames[p].todo) = x BY <1>5, <1>9
  <2> QED BY <2>1, <1>11, ReturnKeeps
<1>13. ASSUME p > 0 PROVE HeadOf(p)' = HeadOf(p) /\ Loops(p)' = Loops(p)
  <2>1. CASE Visiting(p)
    <3>1. Active(p) BY <2>1, <1>5, <1>9, <1>13
    <3>2. HeadOf(p) <= cdn[NodeOf(p)] /\ Nr(p) = cdn[NodeOf(p)] BY <3>1 DEF HeadRight, Active, Nr
    <3>3. Nr(p) < Nr(l) BY <2>1, <1>3, <1>9 DEF PathRight
    <3>4. HeadOf(p) \in Nat /\ Nr(p) \in Nat BY <2>1, CallTypes
    <3>5. ~(m <= HeadOf(p)) BY <3>2, <3>3, <3>4, <1>5
    <3>6. Loops(p) \in BOOLEAN BY <2>1, CallTypes
    <3>7. frames'[p] \in CallFrame BY <1>9, <1>12, <1>13 DEF Kept
    <3>8. Loops(p)' \in BOOLEAN BY <3>7 DEF CallFrame, Loops
    <3> QED BY <2>1, <3>5, <3>6, <3>8, <1>12, <1>13
  <2>2. CASE ~Visiting(p) BY <2>2, <1>12, <1>13
  <2> QED BY <2>1, <2>2
<1>14. PopPlaced(p, x)
  <2>1. \A i \in 1..p : HeadOf(i)' = HeadOf(i) /\ Loops(i)' = Loops(i)
    BY <1>9, <1>12, <1>13 DEF Kept
  <2>2. \A y \in Node : cdn'[y] = IF y = x THEN UINT_MAX ELSE cdn[y] BY <1>5, <1>10 DEF Typed
  <2>3. \A y \in Node : OnStack(y)' => cdn[y] < cdn[x]
    BY <2>2, <1>8 DEF OnStack
  <2>4. \A j \in Nat : Visiting(j) /\ p < j => j = l BY <1>7, <1>9
  <2>5. \A j \in Nat : Visiting(j) /\ p < j => \A y \in Node : OnStack(y)' => cdn[y] < Nr(j)
    BY <2>3, <2>4, <1>5
  <2>6. ASSUME NEW i \in 1..p, Active(i) PROVE NodeOf(i) # x
    <3>1. Nr(i) < Nr(l) /\ Nr(i) = cdn[NodeOf(i)] BY <2>6, <1>3, <1>9 DEF PathRight, Active, Nr
    <3>2. Nr(i) \in Nat BY <2>6, CallTypes DEF Active
    <3> QED BY <3>1, <3>2, <1>5
  <2>7. \A k \in Nat : Opened(k) /\ p < k => FALSE BY <2>4, <1>5 DEF Opened, Active
  <2>8. p = 0 => x = NodeOf(1) BY <1>4, <1>9
  <2> QED BY <2>1, <2>2, <2>3, <2>5, <2>6, <2>7, <2>8, <1>1, <1>5, <1>6, <1>9, <1>12 DEF PopPlaced, OnStack
<1>15. Dfs(e)'
  <2> HIDE DEF Dfs
  <2> QED BY <1>14, PopPlacedKeeps
<1>16. \A i \in Nat : Opened(i) => i < l BY <1>5, <1>7 DEF Opened, Active
<1>17. /\ stack # <<>> /\ Len(stack) \in Nat /\ Len(stack) > 0 /\ stack[Len(stack)] = x
       /\ \A i \in 1..Len(stack) : stack[i] \in Node /\ OnStack(stack[i])
  <2>1. stack \in Seq(Node) /\ Len(stack) \in Nat BY DEF Typed
  <2>2. \A i \in 1..Len(stack) : stack[i] \in Node /\ OnStack(stack[i]) BY <2>1, ElementOfSeq DEF Stacked
  <2>3. PICK i \in 1..Len(stack) : stack[i] = x BY <1>5 DEF Stacked
  <2>4. i = Len(stack)
    <3> SUFFICES ASSUME i < Len(stack) PROVE FALSE BY <2>1, <2>3
    <3>1. Len(stack) \in 1..Len(stack) BY <2>1, <2>3
    <3>2. cdn[x] < cdn[stack[Len(stack)]] /\ cdn[x] \in Nat BY <2>3, <3>1, <1>5, CallTypes DEF Stacked
    <3>3. stack[Len(stack)] \in Node /\ OnStack(stack[Len(stack)]) BY <2>2, <3>1
    <3>4. cdn[stack[Len(stack)]] \in Nat BY <3>3, CallTypes
    <3> QED BY <3>2, <3>3, <3>4, <1>8
  <2> QED BY <2>1, <2>2, <2>3, <2>4
<1>18. stack' \in Seq(Node) /\ Len(stack') = Len(stack) - 1 /\ \A i \in 1..(Len(stack) - 1) : stack'[i] = stack[i]
  <2>1. PICK S, R, k : S = stack /\ R = stack' /\ k = Len(stack) - 1 OBVIOUS
  <2>2. S \in Seq(Node) /\ k \in Nat /\ k <= Len(S) /\ \A i \in 1..k : S[i] \in Node
    BY <2>1, <1>17 DEF Typed
  <2>3. R = SubSeq(S, 1, k) BY <2>1, <1>10 DEF Front
  <2>4. R \in Seq(Node) /\ Len(R) = k /\ \A i \in 1..k : R[i] = S[i]
    BY <2>2, <2>3, SubSeqProperties
  <2> QED BY <2>1, <2>4
<1>19. Typed'
  <2>1. cdn' \in [Node -> Nat] BY <1>10, WTOAssumption DEF Typed
  <2> QED BY <2>1, <1>10, <1>12, <1>18 DEF Typed
<1>20. Stacked'
  <2>1. \A y \in Node : OnStack(y)' <=> OnStack(y) /\ y # x
    BY <1>5, <1>10, WTOAssumption DEF OnStack, Typed
  <2>2. \A i \in 1..(Len(stack) - 1) : cdn[stack[i]] < cdn[x] /\ stack[i] # x
    <3>1. ASSUME NEW i \in 1..(Len(stack) - 1) PROVE cdn[stack[i]] < cdn[x]
      BY <1>17 DEF Stacked
    <3> QED BY <3>1, <1>5
  <2>3. ASSUME NEW y \in Node PROVE OnStack(y)' <=> \E i \in 1..Len(stack)' : stack'[i] = y
    <3>1. OnStack(y) <=> \E i \in 1..Len(stack) : stack[i] = y BY DEF Stacked
    <3>2. (\E i \in 1..Len(stack)' : stack'[i] = y) <=> y # x /\ \E i \in 1..Len(stack) : stack[i] = y
      BY <1>17, <1>18, <2>2
    <3> QED BY <2>1, <3>1, <3>2
  <2>4. ASSUME NEW i \in 1..Len(stack)', NEW j \in 1..Len(stack)', i < j PROVE cdn'[stack'[i]] < cdn'[stack'[j]]
    <3>1. i \in 1..(Len(stack) - 1) /\ j \in 1..(Len(stack) - 1) BY <1>18
    <3>2. cdn[stack[i]] < cdn[stack[j]] BY <3>1, <1>17, <2>4 DEF Stacked
    <3>3. cdn'[stack[i]] = cdn[stack[i]] /\ cdn'[stack[j]] = cdn[stack[j]]
      <4>1. \A y \in Node : y # x => cdn'[y] = cdn[y] BY <1>5, <1>10 DEF Typed
      <4>2. i \in 1..Len(stack) /\ j \in 1..Len(stack) BY <3>1, <1>17
      <4>3. stack[i] \in Node /\ stack[j] \in Node BY <4>2, <1>17
      <4>4. stack[i] # x /\ stack[j] # x BY <3>1, <2>2
      <4> QED BY <4>1, <4>3, <4>4
    <3> QED BY <3>1, <3>2, <3>3, <1>18
  <2> QED BY <2>3, <2>4 DEF Stacked
<1> QED BY <1>1, <1>4, <1>5, <1>6, <1>9, <1>10, <1>14, <1>15, <1>16, <1>19, <1>20

\* The first position of a node that has only one, and what lies above it.
FirstAt(S, n) == SelectInSeq(S, LAMBDA m : m = n)

LEMMA Positions ==
    ASSUME NEW S \in Seq(Node), NEW q \in 1..Len(S), NEW n, n = S[q],
           \A i, j \in 1..Len(S) : S[i] = S[j] => i = j
    PROVE  /\ FirstAt(S, n) = q
           /\ {S[i] : i \in {j \in DOMAIN S : \E k \in 1..(j - 1) : S[k] = n}}
              = {S[j] : j \in (q + 1)..Len(S)}
<1>1. Len(S) \in Nat /\ DOMAIN S = 1..Len(S) /\ q \in Nat BY LenProperties
<1>2. {i \in 1..Len(S) : S[i] = n} = {q} OBVIOUS
<1>3. (CHOOSE x \in {q} : \A y \in {q} : x =< y) = q BY <1>1
<1>4. FirstAt(S, n) = q
  BY <1>2, <1>3 DEF FirstAt, SelectInSeq, Min
<1>5. {j \in DOMAIN S : \E k \in 1..(j - 1) : S[k] = n} = (q + 1)..Len(S)
  <2>1. ASSUME NEW j \in 1..Len(S) PROVE (\E k \in 1..(j - 1) : S[k] = n) <=> j \in (q + 1)..Len(S)
    <3>1. \A k \in 1..(j - 1) : k \in 1..Len(S) BY <1>1
    <3> QED BY <3>1, <1>1
  <2> QED BY <2>1, <1>1
<1> QED BY <1>4, <1>5

LEMMA OpenRight ==
    ASSUME Typed, Stacked, NEW e, Dfs(e), OpenCycle, succs' = succs
    PROVE  /\ Typed' /\ Stacked' /\ Dfs(e)'
           /\ \E l, n : Opens(l, n) /\ parts' = Append(parts, <<>>)
<1>1. PICK l \in Nat : l = Len(frames) /\ l > 0 /\ frames # <<>>
  <2>1. frames # <<>> /\ frames \in Seq(CallFrame) BY DEF OpenCycle, done, Typed
  <2>2. Len(frames) \in Nat /\ Len(frames) > 0 BY <2>1
  <2> QED BY <2>1, <2>2
<1>2. top = frames[l] BY <1>1 DEF top, Last
<1>3. Visiting(l) /\ frames[l].todo = <<>> /\ HeadOf(l) = cdn[NodeOf(l)] /\ Loops(l)
  BY <1>1, <1>2 DEF OpenCycle, Visiting, HeadOf, NodeOf, Loops
<1>4. PICK n : n = NodeOf(l) OBVIOUS
<1>5. /\ Active(l) /\ n \in Node /\ OnStack(n) /\ HeadOf(l) = cdn[n] /\ \A y : ~Due(l, y)
  BY <1>1, <1>3, <1>4, VisitEnds
<1>6. PICK F, v : F = frames' /\ v = ComponentOf(n) OBVIOUS
<1>7. /\ cdn' = [m \in Node |-> IF m = n THEN UINT_MAX ELSE IF m \in Popped(n) THEN 0 ELSE cdn[m]]
      /\ stack' = SubSeq(stack, 1, FirstAt(stack, n) - 1)
      /\ num' = num /\ parts' = Append(parts, <<>>) /\ F = Append(frames, v)
  BY <1>2, <1>4, <1>6 DEF OpenCycle, NodeOf, FirstAt
<1>8. /\ v \in CallFrame /\ v.at = "component" /\ v.node = n /\ v.todo = succs[n]
  <2>1. succs[n] \in Seq(Node) BY <1>5 DEF Typed
  <2> QED BY <2>1, <1>5, <1>6 DEF ComponentOf, CallFrame
<1>9. /\ F \in Seq(CallFrame) /\ Len(F) = l + 1 /\ F[l + 1] = v
      /\ \A i \in 1..l : F[i] = frames[i]
  <2>1. frames \in Seq(CallFrame) BY DEF Typed
  <2> QED BY <2>1, <1>1, <1>7, <1>8, AppendProperties
<1>10. PICK S, R : S = stack /\ R = stack' OBVIOUS
<1>11. /\ S \in Seq(Node) /\ Len(S) \in Nat
       /\ \A x \in Node : OnStack(x) <=> \E i \in 1..Len(S) : S[i] = x
       /\ \A i, j \in 1..Len(S) : i < j => cdn[S[i]] < cdn[S[j]]
       /\ \A i \in 1..Len(S) : S[i] \in Node /\ cdn[S[i]] \in Nat
  <2>1. S \in Seq(Node) BY <1>10 DEF Typed
  <2>2. \A i \in 1..Len(S) : S[i] \in Node BY <2>1, ElementOfSeq
  <2>3. \A i \in 1..Len(S) : cdn[S[i]] \in Nat BY <2>2, CallTypes
  <2>4. Len(S) \in Nat BY <2>1
  <2> QED BY <2>1, <2>2, <2>3, <2>4, <1>10 DEF Stacked
<1>12. \A i, j \in 1..Len(S) : (i < j <=> cdn[S[i]] < cdn[S[j]]) /\ (S[i] = S[j] => i = j)
  <2>1. ASSUME NEW i \in 1..Len(S), NEW j \in 1..Len(S)
        PROVE (i < j <=> cdn[S[i]] < cdn[S[j]]) /\ (S[i] = S[j] => i = j)
    <3>1. (i < j => cdn[S[i]] < cdn[S[j]]) /\ (j < i => cdn[S[j]] < cdn[S[i]]) BY <1>11
    <3>2. cdn[S[i]] \in Nat /\ cdn[S[j]] \in Nat BY <1>11
    <3> QED BY <3>1, <3>2
  <2> QED BY <2>1
<1>13. PICK q \in 1..Len(S) : S[q] = n BY <1>5, <1>11
<1>14. FirstAt(S, n) = q /\ Popped(n) = {S[j] : j \in (q + 1)..Len(S)}
  BY <1>10, <1>11, <1>12, <1>13, Positions DEF Popped
<1>15. \A y \in Node : y \in Popped(n) <=> OnStack(y) /\ cdn[n] < cdn[y]
  <2>1. ASSUME NEW y \in Node, y \in Popped(n) PROVE OnStack(y) /\ cdn[n] < cdn[y]
    <3>1. PICK j \in (q + 1)..Len(S) : y = S[j] BY <2>1, <1>14
    <3>2. j \in 1..Len(S) /\ q < j BY <3>1, <1>11
    <3> QED BY <3>1, <3>2, <1>11, <1>12, <1>13
  <2>2. ASSUME NEW y \in Node, OnStack(y), cdn[n] < cdn[y] PROVE y \in Popped(n)
    <3>1. PICK j \in 1..Len(S) : y = S[j] BY <2>2, <1>11
    <3>2. q < j BY <3>1, <2>2, <1>12, <1>13
    <3>3. j \in (q + 1)..Len(S) BY <3>1, <3>2, <1>11
    <3> QED BY <3>1, <3>3, <1>14
  <2> QED BY <2>1, <2>2
<1>16. \A y \in Node : cdn'[y] = IF y = n THEN UINT_MAX
                                 ELSE IF OnStack(y) /\ cdn[n] < cdn[y] THEN 0 ELSE cdn[y]
  BY <1>7, <1>15
<1>17. Opens(l, n)
  <2>1. \A i \in Nat : Visiting(i)' <=> Visiting(i)
    BY <1>1, <1>6, <1>8, <1>9 DEF Visiting
  <2>2. ASSUME NEW i \in Nat PROVE Opened(i)' <=> Opened(i) \/ i = l
    <3>1. CASE i = l BY <3>1, <2>1, <1>1, <1>3, <1>6, <1>8, <1>9 DEF Opened
    <3>2. CASE i < l
      <4>1. F[i + 1] = frames[i + 1] BY <3>2, <1>9
      <4> QED BY <4>1, <3>2, <2>1, <1>1, <1>6, <1>9 DEF Opened
    <3>3. CASE i > l BY <3>3, <1>1, <1>6, <1>9 DEF Opened, Visiting
    <3> QED BY <3>1, <3>2, <3>3
  <2>3. \A i \in 1..l :
         /\ frames'[i] = frames[i] /\ NodeOf(i)' = NodeOf(i) /\ HeadOf(i)' = HeadOf(i) /\ Loops(i)' = Loops(i)
         /\ \A y \in Node : Due(i, y)' <=> Due(i, y)
    BY <1>6, <1>9 DEF NodeOf, HeadOf, Loops, Due
  <2>4. NodeOf(l + 1)' = n
    BY <1>6, <1>8, <1>9 DEF NodeOf
  <2>5. \A y \in Node : Due(l + 1, y)' <=> Follows(n, y)
    BY <1>6, <1>8, <1>9 DEF Due, Follows
  <2>6. Len(frames)' = l + 1 BY <1>6, <1>9
  <2> QED BY <2>1, <2>2, <2>3, <2>4, <2>5, <2>6, <1>1, <1>3, <1>4, <1>5, <1>7, <1>16 DEF Opens
<1>18. Dfs(e)' BY <1>17, OpenKeeps
<1>19. R \in Seq(Node) /\ Len(R) = q - 1 /\ \A i \in 1..(q - 1) : R[i] = S[i] /\ i \in 1..Len(S)
  <2>1. R = SubSeq(S, 1, q - 1) BY <1>7, <1>10, <1>14
  <2>2. PICK k \in Nat : k = q - 1 /\ k < Len(S) BY <1>11, <1>13
  <2>3. \A i \in 1..k : S[i] \in Node /\ i \in 1..Len(S) BY <2>2, <1>11
  <2>4. R \in Seq(Node) /\ Len(R) = k /\ \A i \in 1..k : R[i] = S[i] BY <2>1, <2>2, <2>3, SubSeqProperties
  <2> QED BY <2>2, <2>3, <2>4
<1>20. Typed'
  <2>1. cdn' \in [Node -> Nat] BY <1>7, WTOAssumption DEF Typed
  <2>2. UINT_MAX' = UINT_MAX /\ Node' = Node OBVIOUS
  <2> QED BY <2>1, <1>6, <1>7, <1>9, <1>10, <1>19 DEF Typed
<1>21. Stacked'
  <2>1. \A y \in Node : OnStack(y)' <=> OnStack(y) /\ cdn[y] < cdn[n]
    <3>1. ASSUME NEW y \in Node PROVE OnStack(y)' <=> OnStack(y) /\ cdn[y] < cdn[n]
      <4>1. cdn[y] \in Nat /\ cdn[n] \in Nat BY <1>5, CallTypes
      <4>2. cdn[y] = cdn[n] /\ OnStack(y) => y = n BY <1>5 DEF Dfs, Numbered
      <4> QED BY <4>1, <4>2, <1>16, WTOAssumption DEF OnStack
    <3> QED BY <3>1
  <2>2. \A i \in 1..(q - 1) : cdn[S[i]] < cdn[n] /\ S[i] # n /\ cdn'[S[i]] = cdn[S[i]]
    <3>1. ASSUME NEW i \in 1..(q - 1) PROVE cdn[S[i]] < cdn[n] /\ S[i] # n
      <4>1. i \in 1..Len(S) /\ i < q BY <1>19
      <4> QED BY <4>1, <1>11, <1>12, <1>13
    <3>2. ASSUME NEW i \in 1..(q - 1) PROVE cdn'[S[i]] = cdn[S[i]]
      <4>1. S[i] \in Node /\ cdn[S[i]] \in Nat /\ cdn[n] \in Nat BY <1>5, <1>11, <1>19, CallTypes
      <4> QED BY <3>1, <4>1, <1>16
    <3> QED BY <3>1, <3>2
  <2>3. ASSUME NEW y \in Node PROVE OnStack(y)' <=> \E i \in 1..Len(stack)' : stack'[i] = y
    <3>1. ASSUME OnStack(y), cdn[y] < cdn[n] PROVE \E i \in 1..(q - 1) : R[i] = y
      <4>1. PICK i \in 1..Len(S) : S[i] = y BY <3>1, <1>11
      <4>2. i < q BY <4>1, <3>1, <1>12, <1>13
      <4>3. i \in 1..(q - 1) BY <4>1, <4>2, <1>11
      <4> QED BY <4>1, <4>3, <1>19
    <3>2. ASSUME NEW i \in 1..(q - 1), R[i] = y PROVE OnStack(y) /\ cdn[y] < cdn[n]
      BY <3>2, <2>2, <1>11, <1>19
    <3> QED BY <2>1, <3>1, <3>2, <1>10, <1>19
  <2>4. ASSUME NEW i \in 1..Len(stack)', NEW j \in 1..Len(stack)', i < j PROVE cdn'[stack'[i]] < cdn'[stack'[j]]
    <3>1. i \in 1..(q - 1) /\ j \in 1..(q - 1) BY <1>10, <1>19
    <3>2. cdn[S[i]] < cdn[S[j]] BY <3>1, <1>11, <1>19, <2>4
    <3> QED BY <3>1, <3>2, <2>2, <1>10, <1>19
  <2> QED BY <2>3, <2>4 DEF Stacked
<1> QED BY <1>7, <1>17, <1>18, <1>20, <1>21

LEMMA CloseRight ==
    ASSUME Typed, Stacked, NEW e, Dfs(e), CloseCycle, succs' = succs
    PROVE  /\ Typed' /\ Stacked' /\ Dfs(e)' /\ cdn' = cdn
           /\ \E k \in Nat, x \in Node :
                /\ k > 0 /\ k + 1 = Len(frames) /\ Opened(k) /\ x = NodeOf(k) /\ PopPlaced(k - 1, x)
                /\ \A i \in Nat : Opened(i) => i <= k
                /\ \A y \in Node : Follows(x, y) => IsPlaced(y)
                /\ \A y \in Node : OnStack(y) => cdn[y] < Nr(k)
                /\ parts' = Append(Front(Front(parts)), Cycle(x, Last(parts)) \o Last(Front(parts)))
<1>1. PICK l \in Nat : l = Len(frames) /\ l > 0 /\ frames # <<>>
  <2>1. frames # <<>> /\ frames \in Seq(CallFrame) BY DEF CloseCycle, done, Typed
  <2>2. Len(frames) \in Nat /\ Len(frames) > 0 BY <2>1
  <2> QED BY <2>1, <2>2
<1>2. top = frames[l] BY <1>1 DEF top, Last
<1>3. ~Visiting(l) /\ frames[l].todo = <<>>
  BY <1>1, <1>2 DEF CloseCycle, Visiting
<1> USE DEF Dfs
<1>4. l > 1 /\ Opened(l - 1) BY <1>1, <1>3 DEF Framed
<1>5. PICK k \in Nat : k = l - 1 /\ k > 0 /\ k + 1 = l BY <1>4
<1>6. PICK p \in Nat : p = k - 1 /\ p + 1 = k /\ p <= Len(frames) /\ p < l BY <1>1, <1>5
<1>7. PICK x, m : x = NodeOf(k) /\ m = HeadOf(k) OBVIOUS
<1>8. /\ Opened(k) /\ Visiting(k) /\ x \in Node /\ m \in Nat /\ Nr(k) = m /\ NodeOf(l) = x /\ IsPlaced(x)
  <2>1. Opened(k) /\ Visiting(k) BY <1>4, <1>5 DEF Opened
  <2>2. x \in Node /\ m \in Nat BY <2>1, <1>7, CallTypes
  <2>3. NodeOf(k + 1) = x /\ IsPlaced(x) BY <2>1, <1>7 DEF Framed
  <2> QED BY <2>1, <2>2, <2>3, <1>5, <1>7 DEF Nr
<1>9. \A j \in Nat : Visiting(j) => j <= k
  <2>1. \A j \in Nat : Visiting(j) => j <= l BY <1>1, CallTypes
  <2> QED BY <2>1, <1>3, <1>5
<1>10. /\ \A y \in Node : OnStack(y) => cdn[y] < Nr(k)
       /\ \A y \in Node : Follows(x, y) => IsPlaced(y)
  <2>1. ASSUME NEW y \in Node, OnStack(y) PROVE cdn[y] < Nr(k)
    <3>1. cdn[y] \in Nat /\ Nr(k) \in Nat BY <1>8, CallTypes
    <3>2. ~(Nr(k) <= cdn[y]) BY <2>1, <1>8, <1>9 DEF Settled
    <3> QED BY <3>1, <3>2
  <2>2. \A y : ~Due(l, y) BY <1>3, EmptySeq DEF Due, Range
  <2>3. \A y \in Node : Follows(x, y) => Due(k + 1, y) \/ IsPlaced(y) BY <1>7, <1>8 DEF Settled
  <2> QED BY <2>1, <2>2, <2>3, <1>5
<1>11. PICK F : F = frames OBVIOUS
<1>12. Front(Front(frames)) = SubSeq(frames, 1, p) /\ Last(Front(frames)).head = m
  <2>1. F \in Seq(CallFrame) /\ l = Len(F) BY <1>1, <1>11 DEF Typed
  <2>2. PICK H : H = Front(F) OBVIOUS
  <2>3. H = SubSeq(F, 1, k) BY <2>1, <2>2, <1>5 DEF Front
  <2>4. \A i \in 1..k : F[i] \in CallFrame BY <2>1, <1>5, ElementOfSeq
  <2>5. H \in Seq(CallFrame) /\ Len(H) = k /\ \A i \in 1..k : H[i] = F[i] BY <2>3, <2>4, SubSeqProperties
  <2>6. Front(H) = SubSeq(H, 1, p) BY <2>5, <1>6 DEF Front
  <2>7. Last(H) = F[k] BY <2>5, <1>5 DEF Last
  <2>8. SubSeq(H, 1, p) = SubSeq(F, 1, p)
    <3>1. \A i \in 1..p : i \in 1..k /\ F[i] \in CallFrame /\ H[i] = F[i] BY <1>6, <2>4, <2>5
    <3>2. SubSeq(H, 1, p) \in Seq(CallFrame) /\ Len(SubSeq(H, 1, p)) = p /\ \A i \in 1..p : SubSeq(H, 1, p)[i] = F[i]
      BY <3>1, SubSeqProperties
    <3>3. SubSeq(F, 1, p) \in Seq(CallFrame) /\ Len(SubSeq(F, 1, p)) = p /\ \A i \in 1..p : SubSeq(F, 1, p)[i] = F[i]
      BY <3>1, SubSeqProperties
    <3> QED BY <3>2, <3>3, SeqEqual
  <2> QED BY <2>2, <2>6, <2>7, <2>8, <1>7, <1>11 DEF HeadOf
<1>13. /\ cdn' = cdn /\ stack' = stack /\ num' = num
       /\ frames' = ReturnTo(SubSeq(frames, 1, p), m)
       /\ parts' = Append(Front(Front(parts)), Cycle(x, Last(parts)) \o Last(Front(parts)))
  BY <1>2, <1>8, <1>12 DEF CloseCycle, NodeOf
<1>14. p > 0 => frames[p].todo # <<>> /\ Head(frames[p].todo) = x
  BY <1>1, <1>5, <1>6, <1>7, <1>8 DEF Framed
<1>15. Returns(p, m)
  BY <1>1, <1>6, <1>8, <1>13, <1>14 DEF Returns
<1>16. /\ Kept(p) /\ frames' \in Seq(CallFrame)
       /\ p > 0 => \A y \in Node : Due(p, y) => Due(p, y)' \/ y = x
       /\ p > 0 /\ Visiting(p) =>
                /\ HeadOf(p)' = IF m <= HeadOf(p) THEN m ELSE HeadOf(p)
                /\ Loops(p)' <=> Loops(p) \/ m <= HeadOf(p)
       /\ p > 0 /\ ~Visiting(p) => HeadOf(p)' = HeadOf(p) /\ Loops(p)' = Loops(p)
  BY <1>14, <1>15, ReturnKeeps
<1>17. ASSUME p > 0 PROVE HeadOf(p)' = HeadOf(p) /\ Loops(p)' = Loops(p)
  <2>1. CASE Visiting(p)
    <3>0. Active(p) BY <2>1, <1>6, <1>8 DEF Active, Opened, Visiting
    <3>2. HeadOf(p) <= cdn[NodeOf(p)] /\ Nr(p) = cdn[NodeOf(p)] BY <3>0 DEF HeadRight, Active, Nr
    <3>3. Nr(p) < Nr(k) BY <2>1, <1>6, <1>8 DEF PathRight
    <3>4. HeadOf(p) \in Nat /\ Nr(p) \in Nat BY <2>1, CallTypes
    <3>5. ~(m <= HeadOf(p)) BY <3>2, <3>3, <3>4, <1>8
    <3>6. Loops(p) \in BOOLEAN BY <2>1, CallTypes
    <3>7. p \in 1..Len(frames') BY <1>16, <1>17 DEF Kept
    <3>8. PICK G : G = frames' OBVIOUS
    <3>9. G[p] \in CallFrame BY <3>7, <3>8, <1>16, ElementOfSeq
    <3>10. Loops(p)' \in BOOLEAN BY <3>8, <3>9 DEF CallFrame, Loops
    <3> QED BY <2>1, <3>5, <3>6, <3>10, <1>16, <1>17
  <2>2. CASE ~Visiting(p) BY <2>2, <1>16, <1>17
  <2> QED BY <2>1, <2>2
<1>18. PopPlaced(p, x)
  <2>1. \A i \in 1..p : HeadOf(i)' = HeadOf(i) /\ Loops(i)' = Loops(i)
    BY <1>6, <1>16, <1>17 DEF Kept
  <2>2. \A y \in Node : cdn'[y] = IF y = x THEN UINT_MAX ELSE cdn[y] BY <1>8, <1>13 DEF IsPlaced
  <2>3. \A y \in Node : OnStack(y)' => OnStack(y) BY <1>13 DEF OnStack
  <2>4. \A j \in Nat : Visiting(j) /\ p < j => j = k BY <1>6, <1>9
  <2>5. \A j \in Nat : Visiting(j) /\ p < j => \A y \in Node : OnStack(y)' => cdn[y] < Nr(j)
    BY <2>3, <2>4, <1>10
  <2>6. ASSUME NEW i \in 1..p, Active(i) PROVE NodeOf(i) # x
    <3>1. i \in Nat /\ OnStack(NodeOf(i)) BY <2>6, <1>6 DEF Framed
    <3> QED BY <3>1, <1>8 DEF OnStack, IsPlaced
  <2>7. \A j \in Nat : Opened(j) /\ p < j => NodeOf(j) = x BY <2>4, <1>7 DEF Opened
  <2>8. p = 0 => x = NodeOf(1) BY <1>6, <1>7
  <2>9. ~OnStack(x) /\ cdn[x] # 0 BY <1>8, WTOAssumption DEF OnStack, IsPlaced
  <2> QED BY <2>1, <2>2, <2>5, <2>6, <2>7, <2>8, <2>9, <1>1, <1>6, <1>8, <1>10, <1>16 DEF PopPlaced
<1>19. Dfs(e)'
  <2> HIDE DEF Dfs
  <2> QED BY <1>18, PopPlacedKeeps
<1>20. Typed' BY <1>13, <1>16 DEF Typed
<1>21. Stacked' BY <1>13 DEF Stacked, OnStack
<1>22. \A i \in Nat : Opened(i) => i <= k BY <1>9 DEF Opened
<1>23. p = k - 1 /\ k + 1 = Len(frames) BY <1>1, <1>5, <1>6
<1> HIDE DEF Dfs
<1> QED BY <1>5, <1>7, <1>8, <1>10, <1>13, <1>18, <1>19, <1>20, <1>21, <1>22, <1>23

\* Of a list L in the making: its nodes, the cycle of its i-th one, and when a
\* set of nodes is strongly connected.
Edge(g, x, y) == y \in Range(g[x])
NodesOf(L) == {L[i].node : i \in 1..Len(L)}
CycleAt(L, i) == {L[i].node} \union {L[k].node : k \in {j \in 1..Len(L) : L[i].node \in Range(L[j].depth)}}
Joined(g, B) ==
    \A T \in (SUBSET B) \ {{}} : (\A u \in T : Range(g[u]) \cap B \subseteq T) => T = B

\* A finished or unfinished list is in weak topological order.
Ordered(g, L) ==
    /\ L \in Seq(Entry)
    /\ \A i, j \in 1..Len(L) : L[i].node = L[j].node => i = j
    /\ \A i \in 1..Len(L) : Range(L[i].depth) \subseteq NodesOf(L)
    /\ \A i, j \in 1..Len(L) : Edge(g, L[i].node, L[j].node) =>
         i < j \/ (L[j].head /\ (i = j \/ L[j].node \in Range(L[i].depth)))
    /\ \A i \in 1..Len(L) : L[i].head =>
         Joined(g, CycleAt(L, i)) /\ \E u \in CycleAt(L, i) : Edge(g, u, L[i].node)

LEMMA EntryParts ==
    ASSUME NEW L \in Seq(Entry)
    PROVE  /\ Len(L) \in Nat /\ DOMAIN L = 1..Len(L)
           /\ \A i \in 1..Len(L) : /\ L[i] \in Entry /\ L[i].node \in Node /\ L[i].head \in BOOLEAN
                                   /\ L[i].depth \in Seq(Node) /\ L[i].node \in NodesOf(L)
           /\ NodesOf(L) \subseteq Node
<1>1. Len(L) \in Nat /\ DOMAIN L = 1..Len(L) BY LenProperties
<1>2. ASSUME NEW i \in 1..Len(L)
      PROVE  /\ L[i] \in Entry /\ L[i].node \in Node /\ L[i].head \in BOOLEAN
             /\ L[i].depth \in Seq(Node) /\ L[i].node \in NodesOf(L)
  <2>1. L[i] \in Entry BY ElementOfSeq
  <2> QED BY <2>1 DEF Entry, NodesOf
<1>3. NodesOf(L) \subseteq Node BY <1>2 DEF NodesOf
<1> QED BY <1>1, <1>2, <1>3

\* C is A and behind it B.
Joins(A, B, C, a, b) ==
    /\ C \in Seq(Entry) /\ Len(C) = a + b /\ a \in Nat /\ b \in Nat
    /\ \A i \in 1..a : C[i] = A[i] /\ i \in 1..(a + b)
    /\ \A i \in 1..b : C[a + i] = B[i] /\ a + i \in 1..(a + b)
    /\ \A i \in 1..(a + b) : i \in 1..a \/ \E k \in 1..b : i = a + k
    /\ NodesOf(C) = NodesOf(A) \union NodesOf(B)

LEMMA NodesOfJoin ==
    ASSUME NEW A \in Seq(Entry), NEW B \in Seq(Entry)
    PROVE  Joins(A, B, A \o B, Len(A), Len(B))
<1> DEFINE C == A \o B
<1>1. Len(A) \in Nat /\ Len(B) \in Nat BY EntryParts
<1>2. C \in Seq(Entry) /\ Len(C) = Len(A) + Len(B)
      /\ \A i \in 1..Len(A) + Len(B) : C[i] = IF i <= Len(A) THEN A[i] ELSE B[i - Len(A)]
  BY ConcatProperties
<1> HIDE DEF C
<1>3. \A i \in 1..Len(A) : C[i] = A[i] /\ i \in 1..Len(C) BY <1>1, <1>2
<1>4. ASSUME NEW i \in 1..Len(B) PROVE C[Len(A) + i] = B[i] /\ Len(A) + i \in 1..Len(C)
  <2>1. Len(A) + i \in 1..Len(A) + Len(B) /\ ~(Len(A) + i <= Len(A)) /\ (Len(A) + i) - Len(A) = i BY <1>1
  <2>2. C[Len(A) + i] = B[(Len(A) + i) - Len(A)] BY <2>1, <1>2
  <2> QED BY <2>1, <2>2, <1>2
<1>5. ASSUME NEW i \in 1..Len(C), i \notin 1..Len(A) PROVE \E k \in 1..Len(B) : i = Len(A) + k
  <2>1. i - Len(A) \in 1..Len(B) /\ i = Len(A) + (i - Len(A)) BY <1>1, <1>2, <1>5
  <2> QED BY <2>1
<1>6. NodesOf(C) = NodesOf(A) \union NodesOf(B)
  <2>1. ASSUME NEW x \in NodesOf(C) PROVE x \in NodesOf(A) \union NodesOf(B)
    <3>1. PICK i \in 1..Len(C) : x = C[i].node BY DEF NodesOf
    <3>2. CASE i \in 1..Len(A) BY <3>1, <3>2, <1>3 DEF NodesOf
    <3>3. CASE ~(i \in 1..Len(A))
      <4>1. PICK k \in 1..Len(B) : i = Len(A) + k BY <3>3, <1>5
      <4> QED BY <3>1, <4>1, <1>4 DEF NodesOf
    <3> QED BY <3>2, <3>3
  <2>2. ASSUME NEW x \in NodesOf(A) PROVE x \in NodesOf(C)
    <3>1. PICK i \in 1..Len(A) : x = A[i].node BY DEF NodesOf
    <3> QED BY <3>1, <1>3 DEF NodesOf
  <2>3. ASSUME NEW x \in NodesOf(B) PROVE x \in NodesOf(C)
    <3>1. PICK i \in 1..Len(B) : x = B[i].node BY DEF NodesOf
    <3>2. x = C[Len(A) + i].node BY <3>1, <1>4
    <3> QED BY <3>2, <1>4 DEF NodesOf
  <2> QED BY <2>1, <2>2, <2>3
<1>7. Joins(A, B, C, Len(A), Len(B)) BY <1>1, <1>2, <1>3, <1>4, <1>5, <1>6 DEF Joins
<1> QED BY <1>7 DEF C

\* Two ordered lists make one, when no edge leads back from the second.
LEMMA OrderedJoin ==
    ASSUME NEW g, NEW A, NEW B, Ordered(g, A), Ordered(g, B),
           \A x \in NodesOf(A) : x \notin NodesOf(B),
           \A x \in NodesOf(B) : \A y \in NodesOf(A) : ~Edge(g, x, y)
    PROVE  Ordered(g, A \o B) /\ NodesOf(A \o B) = NodesOf(A) \union NodesOf(B)
<1>1. A \in Seq(Entry) /\ B \in Seq(Entry) BY DEF Ordered
<1>2. PICK C : C = A \o B OBVIOUS
<1>3. PICK a, b, c : a = Len(A) /\ b = Len(B) /\ c = Len(C) OBVIOUS
<1>4. /\ C \in Seq(Entry) /\ c = a + b /\ a \in Nat /\ b \in Nat
      /\ \A i \in 1..a : C[i] = A[i] /\ i \in 1..c
      /\ \A i \in 1..b : C[a + i] = B[i] /\ a + i \in 1..c
      /\ \A i \in 1..c : i \in 1..a \/ \E k \in 1..b : i = a + k
      /\ NodesOf(C) = NodesOf(A) \union NodesOf(B)
  <2>1. /\ C \in Seq(Entry) /\ Len(C) = a + b /\ a \in Nat /\ b \in Nat
        /\ \A i \in 1..a : C[i] = A[i] /\ i \in 1..(a + b)
        /\ \A i \in 1..b : C[a + i] = B[i] /\ a + i \in 1..(a + b)
        /\ \A i \in 1..(a + b) : i \in 1..a \/ \E k \in 1..b : i = a + k
        /\ NodesOf(C) = NodesOf(A) \union NodesOf(B)
    <3>1. Joins(A, B, C, a, b) BY <1>1, <1>2, <1>3, NodesOfJoin
    <3> QED BY <3>1 DEF Joins
  <2> QED BY <2>1, <1>3
<1>5. /\ \A i \in 1..a : /\ A[i].node \in NodesOf(A) /\ Range(A[i].depth) \subseteq NodesOf(A)
      /\ \A i \in 1..b : /\ B[i].node \in NodesOf(B) /\ Range(B[i].depth) \subseteq NodesOf(B)
  BY <1>1, <1>3, EntryParts DEF Ordered
<1>6. ASSUME NEW i \in 1..c, NEW j \in 1..c, C[i].node = C[j].node PROVE i = j
  <2>1. CASE i \in 1..a /\ j \in 1..a BY <2>1, <1>3, <1>4, <1>6 DEF Ordered
  <2>2. CASE i \in 1..a /\ j \notin 1..a
    <3>1. PICK k \in 1..b : j = a + k BY <2>2, <1>4
    <3> QED BY <2>2, <3>1, <1>4, <1>5, <1>6
  <2>3. CASE i \notin 1..a /\ j \in 1..a
    <3>1. PICK k \in 1..b : i = a + k BY <2>3, <1>4
    <3> QED BY <2>3, <3>1, <1>4, <1>5, <1>6
  <2>4. CASE i \notin 1..a /\ j \notin 1..a
    <3>1. PICK k \in 1..b : i = a + k BY <2>4, <1>4
    <3>2. PICK m \in 1..b : j = a + m BY <2>4, <1>4
    <3>3. B[k].node = B[m].node BY <3>1, <3>2, <1>4, <1>6
    <3>4. k = m BY <3>3, <1>3 DEF Ordered
    <3> QED BY <3>1, <3>2, <3>4
  <2> QED BY <2>1, <2>2, <2>3, <2>4
<1>7. ASSUME NEW i \in 1..c PROVE Range(C[i].depth) \subseteq NodesOf(C)
  <2>1. CASE i \in 1..a BY <2>1, <1>4, <1>5
  <2>2. CASE i \notin 1..a
    <3>1. PICK k \in 1..b : i = a + k BY <2>2, <1>4
    <3> QED BY <3>1, <1>4, <1>5
  <2> QED BY <2>1, <2>2
<1>8. ASSUME NEW i \in 1..c, NEW j \in 1..c, Edge(g, C[i].node, C[j].node)
      PROVE  i < j \/ (C[j].head /\ (i = j \/ C[j].node \in Range(C[i].depth)))
  <2>1. CASE i \in 1..a /\ j \in 1..a
    <3>1. C[i] = A[i] /\ C[j] = A[j] BY <2>1, <1>4
    <3> QED BY <2>1, <3>1, <1>3, <1>8 DEF Ordered
  <2>2. CASE i \in 1..a /\ j \notin 1..a BY <2>2, <1>4
  <2>3. CASE i \notin 1..a /\ j \in 1..a
    <3>1. PICK k \in 1..b : i = a + k BY <2>3, <1>4
    <3>2. C[i].node = B[k].node /\ C[j].node = A[j].node BY <3>1, <2>3, <1>4
    <3> QED BY <2>3, <3>2, <1>5, <1>8
  <2>4. CASE i \notin 1..a /\ j \notin 1..a
    <3>1. PICK k \in 1..b : i = a + k BY <2>4, <1>4
    <3>2. PICK m \in 1..b : j = a + m BY <2>4, <1>4
    <3>3. C[i] = B[k] /\ C[j] = B[m] BY <3>1, <3>2, <1>4
    <3>4. k < m \/ (B[m].head /\ (k = m \/ B[m].node \in Range(B[k].depth)))
      BY <3>3, <1>3, <1>8 DEF Ordered
    <3> QED BY <3>1, <3>2, <3>3, <3>4, <1>4
  <2> QED BY <2>1, <2>2, <2>3, <2>4
<1>9. ASSUME NEW i \in 1..c, C[i].head
      PROVE  Joined(g, CycleAt(C, i)) /\ \E u \in CycleAt(C, i) : Edge(g, u, C[i].node)
  <2>1. CASE i \in 1..a
    <3>1. C[i] = A[i] BY <2>1, <1>4
    <3>2. A[i].node \in NodesOf(A) BY <2>1, <1>5
    <3>3. ASSUME NEW k \in 1..b PROVE A[i].node \notin Range(B[k].depth) BY <3>2, <1>5
    <3>4. ASSUME NEW y PROVE y \in CycleAt(C, i) <=> y \in CycleAt(A, i)
      <4>1. (\E k \in 1..c : y = C[k].node /\ A[i].node \in Range(C[k].depth))
            <=> (\E k \in 1..a : y = A[k].node /\ A[i].node \in Range(A[k].depth))
        <5>1. ASSUME NEW k \in 1..c, A[i].node \in Range(C[k].depth) PROVE k \in 1..a /\ C[k] = A[k]
          <6>1. CASE k \in 1..a BY <6>1, <1>4
          <6>2. CASE k \notin 1..a
            <7>1. PICK m \in 1..b : k = a + m BY <6>2, <1>4
            <7> QED BY <7>1, <5>1, <3>3, <1>4
          <6> QED BY <6>1, <6>2
        <5> QED BY <5>1, <1>4
      <4> QED BY <4>1, <3>1, <1>3 DEF CycleAt
    <3>5. CycleAt(C, i) = CycleAt(A, i) BY <3>4
    <3>6. Joined(g, CycleAt(A, i)) /\ \E u \in CycleAt(A, i) : Edge(g, u, A[i].node)
      BY <2>1, <3>1, <1>3, <1>9 DEF Ordered
    <3> QED BY <3>1, <3>5, <3>6
  <2>2. CASE i \notin 1..a
    <3>0. PICK m \in 1..b : i = a + m BY <2>2, <1>4
    <3>1. C[i] = B[m] BY <3>0, <1>4
    <3>2. B[m].node \in NodesOf(B) BY <1>5
    <3>3. ASSUME NEW k \in 1..a PROVE B[m].node \notin Range(A[k].depth) BY <3>2, <1>5
    <3>4. ASSUME NEW y PROVE y \in CycleAt(C, i) <=> y \in CycleAt(B, m)
      <4>1. (\E k \in 1..c : y = C[k].node /\ B[m].node \in Range(C[k].depth))
            <=> (\E k \in 1..b : y = B[k].node /\ B[m].node \in Range(B[k].depth))
        <5>1. ASSUME NEW k \in 1..c, B[m].node \in Range(C[k].depth) PROVE \E q \in 1..b : C[k] = B[q]
          <6>1. CASE k \in 1..a BY <5>1, <6>1, <3>3, <1>4
          <6>2. CASE k \notin 1..a
            <7>1. PICK q \in 1..b : k = a + q BY <6>2, <1>4
            <7> QED BY <7>1, <1>4
          <6> QED BY <6>1, <6>2
        <5>2. \A k \in 1..b : \E q \in 1..c : C[q] = B[k] BY <1>4
        <5> QED BY <5>1, <5>2
      <4> QED BY <4>1, <3>1, <1>3 DEF CycleAt
    <3>5. CycleAt(C, i) = CycleAt(B, m) BY <3>4
    <3>6. Joined(g, CycleAt(B, m)) /\ \E u \in CycleAt(B, m) : Edge(g, u, B[m].node)
      BY <3>1, <1>3, <1>9 DEF Ordered
    <3> QED BY <3>1, <3>5, <3>6
  <2> QED BY <2>1, <2>2
<1>10. Ordered(g, C)
  BY <1>3, <1>4, <1>6, <1>7, <1>8, <1>9 DEF Ordered
<1> QED BY <1>2, <1>4, <1>10

LEMMA SingleEntry ==
    ASSUME NEW n \in Node, NEW h \in BOOLEAN, NEW L, L = <<[node |-> n, head |-> h, depth |-> <<>>]>>
    PROVE  /\ L \in Seq(Entry) /\ Len(L) = 1 /\ L[1].node = n /\ L[1].head = h /\ L[1].depth = <<>>
           /\ NodesOf(L) = {n}
<1>1. [node |-> n, head |-> h, depth |-> <<>>] \in Entry BY DEF Entry
<1>2. L \in Seq(Entry) /\ Len(L) = 1 /\ L[1].node = n /\ L[1].head = h /\ L[1].depth = <<>>
  BY <1>1
<1>3. NodesOf(L) = {n} BY <1>2 DEF NodesOf
<1> QED BY <1>2, <1>3

LEMMA OrderedSingle ==
    ASSUME NEW g, NEW n \in Node, ~Edge(g, n, n), NEW L, L = <<[node |-> n, head |-> FALSE, depth |-> <<>>]>>
    PROVE  Ordered(g, L)
<1>1. L \in Seq(Entry) /\ Len(L) = 1 /\ L[1].node = n /\ L[1].head = FALSE /\ L[1].depth = <<>>
  BY SingleEntry
<1>2. Range(<<>>) = {} BY EmptySeq DEF Range
<1>3. \A i \in 1..Len(L) : i = 1 BY <1>1
<1> QED BY <1>1, <1>2, <1>3 DEF Ordered

LEMMA OrderedEmpty ==
    ASSUME NEW g PROVE Ordered(g, <<>>) /\ NodesOf(<<>>) = {}
BY EmptySeq DEF Ordered, NodesOf

\* A component list becomes the cycle of the node n in front of it.
LEMMA OrderedCycle ==
    ASSUME NEW g, NEW B, NEW n \in Node, Ordered(g, B), n \notin NodesOf(B),
           Joined(g, {n} \union NodesOf(B)), \E u \in {n} \union NodesOf(B) : Edge(g, u, n)
    PROVE  Ordered(g, Cycle(n, B)) /\ NodesOf(Cycle(n, B)) = {n} \union NodesOf(B)
<1>1. /\ B \in Seq(Entry) /\ Len(B) \in Nat /\ DOMAIN B = 1..Len(B) /\ NodesOf(B) \subseteq Node
      /\ \A i \in 1..Len(B) : /\ B[i] \in Entry /\ B[i].node \in Node /\ B[i].head \in BOOLEAN
                              /\ B[i].depth \in Seq(Node) /\ B[i].node \in NodesOf(B)
  BY EntryParts DEF Ordered
<1>2. PICK H, D, C : /\ H = <<[node |-> n, head |-> TRUE, depth |-> <<>>]>>
                     /\ D = [i \in 1..Len(B) |-> [B[i] EXCEPT !.depth = <<n>> \o @]]
                     /\ C = Cycle(n, B)
  OBVIOUS
<1>3. C = H \o D BY <1>1, <1>2 DEF Cycle
<1>4. /\ H \in Seq(Entry) /\ Len(H) = 1 /\ H[1].node = n /\ H[1].head = TRUE /\ H[1].depth = <<>> /\ NodesOf(H) = {n}
  BY <1>2, SingleEntry
<1>5. ASSUME NEW i \in 1..Len(B)
      PROVE  /\ [B[i] EXCEPT !.depth = <<n>> \o @] \in Entry
             /\ [B[i] EXCEPT !.depth = <<n>> \o @].node = B[i].node
             /\ [B[i] EXCEPT !.depth = <<n>> \o @].head = B[i].head
             /\ Range([B[i] EXCEPT !.depth = <<n>> \o @].depth) = {n} \union Range(B[i].depth)
  <2>1. PICK d : d = <<n>> \o B[i].depth OBVIOUS
  <2>0. PICK N, M : N = <<n>> /\ M = B[i].depth OBVIOUS
  <2>2. N \in Seq(Node) /\ M \in Seq(Node) /\ Range(N) = {n} BY <2>0, <1>1 DEF Range
  <2>3. d = N \o M BY <2>0, <2>1
  <2>4. d \in Seq(Node) BY <2>2, <2>3, ConcatProperties
  <2>5. Range(d) = Range(N) \union Range(M) BY <2>2, <2>3, RangeConcatenation
  <2>6. PICK f : f = [B[i] EXCEPT !.depth = <<n>> \o @] OBVIOUS
  <2>7. f = [B[i] EXCEPT !.depth = d] BY <2>1, <2>6
  <2>8. f \in Entry /\ f.node = B[i].node /\ f.head = B[i].head /\ f.depth = d BY <2>4, <2>7, <1>1 DEF Entry
  <2> QED BY <2>0, <2>2, <2>5, <2>6, <2>8
<1>6. D \in Seq(Entry) /\ Len(D) = Len(B)
  BY <1>1, <1>2, <1>5
<1>7. \A i \in 1..Len(B) : /\ D[i].node = B[i].node /\ D[i].head = B[i].head
                           /\ Range(D[i].depth) = {n} \union Range(B[i].depth)
  BY <1>2, <1>5
<1>8. NodesOf(D) = NodesOf(B) BY <1>6, <1>7 DEF NodesOf
<1>9. PICK b : b = Len(B) /\ b \in Nat BY <1>1
<1>10. /\ C \in Seq(Entry) /\ Len(C) = 1 + b
       /\ C[1] = H[1] /\ 1 \in 1..(1 + b)
       /\ \A i \in 1..b : C[1 + i] = D[i] /\ 1 + i \in 1..(1 + b)
       /\ \A i \in 1..(1 + b) : i = 1 \/ \E k \in 1..b : i = 1 + k
       /\ NodesOf(C) = {n} \union NodesOf(B)
  <2>1. /\ C \in Seq(Entry) /\ Len(C) = 1 + b
        /\ \A i \in 1..1 : C[i] = H[i] /\ i \in 1..(1 + b)
        /\ \A i \in 1..b : C[1 + i] = D[i] /\ 1 + i \in 1..(1 + b)
        /\ NodesOf(C) = NodesOf(H) \union NodesOf(D)
    <3>1. 1 = Len(H) /\ b = Len(D) BY <1>4, <1>6, <1>9
    <3>2. Joins(H, D, C, 1, b) BY <3>1, <1>3, <1>4, <1>6, NodesOfJoin
    <3> QED BY <3>2 DEF Joins
  <2>2. \A i \in 1..(1 + b) : i = 1 \/ \E k \in 1..b : i = 1 + k
    <3>1. ASSUME NEW i \in 1..(1 + b), i # 1 PROVE i - 1 \in 1..b /\ i = 1 + (i - 1) BY <3>1, <1>9
    <3> QED BY <3>1
  <2> QED BY <2>1, <2>2, <1>4, <1>8
<1>11. Range(<<>>) = {} BY EmptySeq DEF Range
<1>12. /\ C[1].node = n /\ C[1].head = TRUE /\ Range(C[1].depth) = {}
       /\ \A i \in 1..b : /\ C[1 + i].node = B[i].node /\ C[1 + i].head = B[i].head
                          /\ Range(C[1 + i].depth) = {n} \union Range(B[i].depth)
                          /\ B[i].node \in NodesOf(B) /\ Range(B[i].depth) \subseteq NodesOf(B)
  <2>1. C[1].node = n /\ C[1].head = TRUE /\ Range(C[1].depth) = {} BY <1>4, <1>10, <1>11
  <2>2. ASSUME NEW i \in 1..b
        PROVE  /\ C[1 + i].node = B[i].node /\ C[1 + i].head = B[i].head
               /\ Range(C[1 + i].depth) = {n} \union Range(B[i].depth)
               /\ B[i].node \in NodesOf(B) /\ Range(B[i].depth) \subseteq NodesOf(B)
    BY <1>1, <1>7, <1>9, <1>10 DEF Ordered
  <2> QED BY <2>1, <2>2
<1>13. ASSUME NEW i \in 1..Len(C), NEW j \in 1..Len(C), C[i].node = C[j].node PROVE i = j
  <2>1. CASE i = 1 /\ j = 1 BY <2>1
  <2>2. CASE i = 1 /\ j # 1
    <3>1. PICK k \in 1..b : j = 1 + k BY <2>2, <1>10
    <3> QED BY <2>2, <3>1, <1>12, <1>13
  <2>3. CASE i # 1 /\ j = 1
    <3>1. PICK k \in 1..b : i = 1 + k BY <2>3, <1>10
    <3> QED BY <2>3, <3>1, <1>12, <1>13
  <2>4. CASE i # 1 /\ j # 1
    <3>1. PICK k \in 1..b : i = 1 + k BY <2>4, <1>10
    <3>2. PICK m \in 1..b : j = 1 + m BY <2>4, <1>10
    <3>3. k = m BY <3>1, <3>2, <1>9, <1>12, <1>13 DEF Ordered
    <3> QED BY <3>1, <3>2, <3>3
  <2> QED BY <2>1, <2>2, <2>3, <2>4
<1>14. ASSUME NEW i \in 1..Len(C) PROVE Range(C[i].depth) \subseteq NodesOf(C)
  <2>1. CASE i = 1 BY <2>1, <1>12
  <2>2. CASE i # 1
    <3>1. PICK k \in 1..b : i = 1 + k BY <2>2, <1>10
    <3>2. Range(C[i].depth) \subseteq {n} \union NodesOf(B) BY <3>1, <1>12
    <3> QED BY <3>2, <1>10
  <2> QED BY <2>1, <2>2
<1>15. ASSUME NEW i \in 1..Len(C), NEW j \in 1..Len(C), Edge(g, C[i].node, C[j].node)
       PROVE  i < j \/ (C[j].head /\ (i = j \/ C[j].node \in Range(C[i].depth)))
  <2>1. CASE j = 1
    <3>1. CASE i = 1 BY <2>1, <3>1, <1>12
    <3>2. CASE i # 1
      <4>1. PICK k \in 1..b : i = 1 + k BY <3>2, <1>10
      <4> QED BY <2>1, <4>1, <1>12
    <3> QED BY <3>1, <3>2
  <2>2. CASE i = 1 /\ j # 1 BY <2>2, <1>10
  <2>3. CASE i # 1 /\ j # 1
    <3>1. PICK k \in 1..b : i = 1 + k BY <2>3, <1>10
    <3>2. PICK m \in 1..b : j = 1 + m BY <2>3, <1>10
    <3>3. Edge(g, B[k].node, B[m].node) BY <3>1, <3>2, <1>12, <1>15
    <3>4. k < m \/ (B[m].head /\ (k = m \/ B[m].node \in Range(B[k].depth)))
      BY <3>3, <1>9 DEF Ordered
    <3>5. CASE k < m BY <3>1, <3>2, <3>5, <1>9
    <3>6. CASE B[m].head /\ k = m BY <3>1, <3>2, <3>6, <1>12
    <3>7. CASE B[m].head /\ B[m].node \in Range(B[k].depth) BY <3>1, <3>2, <3>7, <1>12
    <3> QED BY <3>4, <3>5, <3>6, <3>7
  <2> QED BY <2>1, <2>2, <2>3
<1>16. ASSUME NEW i \in 1..Len(C), C[i].head
       PROVE  Joined(g, CycleAt(C, i)) /\ \E u \in CycleAt(C, i) : Edge(g, u, C[i].node)
  <2>1. CASE i = 1
    <3>1. CycleAt(C, i) = {n} \union NodesOf(B)
      <4>1. \A k \in 1..Len(C) : n \in Range(C[k].depth) <=> \E q \in 1..b : k = 1 + q
        <5>1. ASSUME NEW q \in 1..b PROVE n \in Range(C[1 + q].depth) BY <1>12
        <5>2. n \notin Range(C[1].depth) BY <1>12
        <5>3. ASSUME NEW q \in 1..b PROVE 1 # 1 + q OBVIOUS
        <5> QED BY <5>1, <5>2, <5>3, <1>10
      <4>2. ASSUME NEW y PROVE y \in CycleAt(C, 1) <=> y = n \/ \E q \in 1..b : y = B[q].node
        <5>1. (\E k \in 1..Len(C) : y = C[k].node /\ n \in Range(C[k].depth)) <=> \E q \in 1..b : y = C[1 + q].node
          BY <4>1, <1>10
        <5> QED BY <5>1, <1>12 DEF CycleAt
      <4>3. \A y : (\E q \in 1..b : y = B[q].node) <=> y \in NodesOf(B) BY <1>9 DEF NodesOf
      <4> QED BY <2>1, <4>2, <4>3
    <3> QED BY <2>1, <3>1, <1>12
  <2>2. CASE i # 1
    <3>1. PICK m \in 1..b : i = 1 + m BY <2>2, <1>10
    <3>2. C[i].node = B[m].node /\ B[m].head BY <3>1, <1>12, <1>16
    <3>3. B[m].node # n BY <1>12
    <3>4. ASSUME NEW y PROVE y \in CycleAt(C, i) <=> y \in CycleAt(B, m)
      <4>1. (\E k \in 1..Len(C) : y = C[k].node /\ B[m].node \in Range(C[k].depth))
            <=> (\E q \in 1..b : y = C[1 + q].node /\ B[m].node \in Range(C[1 + q].depth))
        <5>1. \A q \in 1..b : 1 + q \in 1..Len(C) BY <1>10
        <5>2. \A k \in 1..Len(C) : B[m].node \in Range(C[k].depth) => \E q \in 1..b : k = 1 + q BY <1>10, <1>12
        <5> QED BY <5>1, <5>2
      <4>2. \A q \in 1..b : /\ B[m].node \in Range(C[1 + q].depth) <=> B[m].node \in Range(B[q].depth)
                            /\ C[1 + q].node = B[q].node
        <5>1. ASSUME NEW q \in 1..b PROVE Range(C[1 + q].depth) = {n} \union Range(B[q].depth) /\ C[1 + q].node = B[q].node
          BY <1>12
        <5> QED BY <5>1, <3>3
      <4>3. (\E k \in 1..Len(C) : y = C[k].node /\ B[m].node \in Range(C[k].depth))
            <=> (\E q \in 1..b : y = B[q].node /\ B[m].node \in Range(B[q].depth))
        BY <4>1, <4>2
      <4> QED BY <4>3, <3>2, <1>9 DEF CycleAt
    <3>5. CycleAt(C, i) = CycleAt(B, m) BY <3>4
    <3>6. Joined(g, CycleAt(B, m)) /\ \E u \in CycleAt(B, m) : Edge(g, u, B[m].node)
      BY <3>2, <1>9 DEF Ordered
    <3> QED BY <3>2, <3>5, <3>6
  <2> QED BY <2>1, <2>2
<1>17. Ordered(g, C) BY <1>10, <1>13, <1>14, <1>15, <1>16 DEF Ordered
<1> QED BY <1>2, <1>10, <1>17

\* b cycles are open, with the heads H[1], ..., H[b]; P[k + 1] is the list of
\* what is inside the k-th.
ListedOnce(c, P, H, b) == \A x \in Node : c[x] = UINT_MAX <=>
    (\E k \in 1..b : x = H[k]) \/ \E j \in 1..(b + 1) : x \in NodesOf(P[j])
\* The lists share no node with each other or with the heads.
Apart(P, H, b) ==
    /\ \A j, m \in 1..(b + 1) : j # m => \A x \in NodesOf(P[j]) : x \notin NodesOf(P[m])
    /\ \A j \in 1..(b + 1) : \A k \in 1..b : H[k] \notin NodesOf(P[j])
    /\ \A k, m \in 1..b : H[k] = H[m] => k = m
\* No edge leads from an outer list, which goes after, into an inner one or to a
\* head inside which it is not.
NoneBack(g, P, H, b) ==
    /\ \A j, m \in 1..(b + 1) : j < m => \A x \in NodesOf(P[j]) : \A y \in NodesOf(P[m]) : ~Edge(g, x, y)
    /\ \A j \in 1..(b + 1) : \A k \in 1..b : j <= k => \A x \in NodesOf(P[j]) : ~Edge(g, x, H[k])
\* What the k-th open cycle consists of: S, with the number h of its head.
Region(g, c, P, H, b, k, h, S) ==
    /\ S \subseteq Node
    /\ \A x \in S : \A y \in Node : Edge(g, x, y) => y \in S \/ c[y] = UINT_MAX
    /\ \A x \in Node : c[x] # 0 /\ c[x] # UINT_MAX => (x \in S <=> h < c[x])
    /\ \A x \in Node : c[x] = UINT_MAX =>
         (x \in S <=> (\E m \in 1..b : k <= m /\ x = H[m]) \/ \E j \in 1..(b + 1) : k < j /\ x \in NodesOf(P[j]))
    /\ Joined(g, S) /\ \E u \in S : Edge(g, u, H[k])
\* The lists under construction hold each placed node once and in weak
\* topological order, each in the region G[k] of its cycle.
Listing(g, c, P, H, N, G, b) ==
    /\ b \in Nat
    /\ \A j \in 1..(b + 1) : Ordered(g, P[j])
    /\ \A k \in 1..b : H[k] \in Node /\ N[k] \in Nat
    /\ ListedOnce(c, P, H, b) /\ Apart(P, H, b) /\ NoneBack(g, P, H, b)
    /\ \A k \in 1..b : Region(g, c, P, H, b, k, N[k], G[k])

LEMMA ListedAre ==
    ASSUME NEW g, NEW c, NEW P, NEW H, NEW N, NEW G, NEW b, Listing(g, c, P, H, N, G, b)
    PROVE  /\ \A j \in 1..(b + 1) : \A x \in NodesOf(P[j]) :
                x \in Node /\ c[x] = UINT_MAX /\ \A k \in 1..b : x # H[k]
           /\ \A k \in 1..b : c[H[k]] = UINT_MAX
<1>1. ASSUME NEW j \in 1..(b + 1), NEW x \in NodesOf(P[j])
      PROVE  x \in Node /\ c[x] = UINT_MAX /\ \A k \in 1..b : x # H[k]
  <2>1. P[j] \in Seq(Entry) BY DEF Listing, Ordered
  <2>2. x \in Node BY <2>1, EntryParts
  <2>3. c[x] = UINT_MAX BY <2>2 DEF Listing, ListedOnce
  <2>4. \A k \in 1..b : x # H[k] BY DEF Listing, Apart
  <2> QED BY <2>2, <2>3, <2>4
<1>2. \A k \in 1..b : c[H[k]] = UINT_MAX BY DEF Listing, ListedOnce
<1> QED BY <1>1, <1>2

\* A node without a number gets one above those of the open cycles.
LEMMA ListDescend ==
    ASSUME NEW g, NEW c, NEW P, NEW H, NEW N, NEW G, NEW b, Listing(g, c, P, H, N, G, b),
           NEW d, NEW x \in Node, NEW m, c[x] = 0, m # 0, m # UINT_MAX,
           \A y \in Node : d[y] = IF y = x THEN m ELSE c[y],
           \A k \in 1..b : N[k] < m /\ x \in G[k]
    PROVE  Listing(g, d, P, H, N, G, b)
<1>1. \A y \in Node : (d[y] = UINT_MAX <=> c[y] = UINT_MAX) /\ (y # x => d[y] = c[y]) /\ d[x] = m
  BY WTOAssumption
<1>2. ListedOnce(d, P, H, b) BY <1>1 DEF Listing, ListedOnce
<1>3. ASSUME NEW k \in 1..b PROVE Region(g, d, P, H, b, k, N[k], G[k])
  <2>1. Region(g, c, P, H, b, k, N[k], G[k]) BY DEF Listing
  <2>2. ASSUME NEW y \in Node, d[y] # 0, d[y] # UINT_MAX PROVE y \in G[k] <=> N[k] < d[y]
    <3>1. CASE y = x BY <3>1, <1>1
    <3>2. CASE y # x BY <3>2, <2>1, <2>2, <1>1 DEF Region
    <3> QED BY <3>1, <3>2
  <2> QED BY <2>1, <2>2, <1>1 DEF Region
<1> QED BY <1>2, <1>3 DEF Listing

\* A node of the stack is placed in front of the innermost list.
LEMMA ListPlace ==
    ASSUME NEW g, NEW c, NEW P, NEW H, NEW N, NEW G, NEW b, Listing(g, c, P, H, N, G, b),
           NEW d, NEW x \in Node, c[x] # 0, c[x] # UINT_MAX,
           \A y \in Node : d[y] = IF y = x THEN UINT_MAX ELSE c[y],
           ~Edge(g, x, x),
           \A z \in Node : c[z] = UINT_MAX /\ (\A k \in 1..b : z # H[k]) => ~Edge(g, z, x),
           \A k \in 1..b : N[k] < c[x],
           NEW Q, \A j \in 1..b : Q[j] = P[j],
           Q[b + 1] = <<[node |-> x, head |-> FALSE, depth |-> <<>>]>> \o P[b + 1]
    PROVE  Listing(g, d, Q, H, N, G, b)
<1>1. PICK E : E = <<[node |-> x, head |-> FALSE, depth |-> <<>>]>> OBVIOUS
<1>2. b \in Nat /\ b + 1 \in 1..(b + 1) /\ \A j \in 1..(b + 1) : j \in 1..b \/ j = b + 1 BY DEF Listing
<1>3. Ordered(g, E) /\ NodesOf(E) = {x} BY <1>1, OrderedSingle, SingleEntry
<1>4. \A j \in 1..(b + 1) : \A z \in NodesOf(P[j]) : z \in Node /\ c[z] = UINT_MAX /\ z # x /\ ~Edge(g, z, x)
  BY ListedAre
<1>5. Ordered(g, Q[b + 1]) /\ NodesOf(Q[b + 1]) = {x} \union NodesOf(P[b + 1])
  <2>1. Ordered(g, P[b + 1]) BY <1>2 DEF Listing
  <2>2. \A z \in NodesOf(E) : z \notin NodesOf(P[b + 1]) BY <1>2, <1>3, <1>4
  <2>3. \A z \in NodesOf(P[b + 1]) : \A y \in NodesOf(E) : ~Edge(g, z, y) BY <1>2, <1>3, <1>4
  <2>4. Ordered(g, E \o P[b + 1]) /\ NodesOf(E \o P[b + 1]) = NodesOf(E) \union NodesOf(P[b + 1])
    <3>1. PICK L : L = P[b + 1] OBVIOUS
    <3>2. Ordered(g, E) /\ Ordered(g, L) BY <3>1, <2>1, <1>3
    <3>3. \A z \in NodesOf(E) : z \notin NodesOf(L) BY <3>1, <2>2
    <3>4. \A z \in NodesOf(L) : \A y \in NodesOf(E) : ~Edge(g, z, y) BY <3>1, <2>3
    <3>5. Ordered(g, E \o L) /\ NodesOf(E \o L) = NodesOf(E) \union NodesOf(L)
      BY ONLY <3>2, <3>3, <3>4, OrderedJoin
    <3> QED BY <3>1, <3>5
  <2> QED BY <2>4, <1>1, <1>3
<1>6. \A j \in 1..(b + 1) : Ordered(g, Q[j]) BY <1>2, <1>5 DEF Listing
<1>7. \A j \in 1..(b + 1) : \A y : y \in NodesOf(Q[j]) <=> y \in NodesOf(P[j]) \/ (j = b + 1 /\ y = x)
  <2>1. ASSUME NEW j \in 1..(b + 1), NEW y PROVE y \in NodesOf(Q[j]) <=> y \in NodesOf(P[j]) \/ (j = b + 1 /\ y = x)
    <3>1. CASE j = b + 1 BY <3>1, <1>5
    <3>2. CASE j # b + 1 BY <3>2, <1>2
    <3> QED BY <3>1, <3>2
  <2> QED BY <2>1
<1>8. \A y \in Node : d[y] = UINT_MAX <=> c[y] = UINT_MAX \/ y = x OBVIOUS
<1>9. \A k \in 1..b : H[k] \in Node /\ H[k] # x
  <2>1. \A k \in 1..b : c[H[k]] = UINT_MAX BY ListedAre
  <2> QED BY <2>1 DEF Listing
<1>10. ListedOnce(d, Q, H, b)
  <2>1. ASSUME NEW y \in Node
        PROVE  d[y] = UINT_MAX <=> (\E k \in 1..b : y = H[k]) \/ \E j \in 1..(b + 1) : y \in NodesOf(Q[j])
    <3>1. c[y] = UINT_MAX <=> (\E k \in 1..b : y = H[k]) \/ \E j \in 1..(b + 1) : y \in NodesOf(P[j])
      BY DEF Listing, ListedOnce
    <3>2. (\E j \in 1..(b + 1) : y \in NodesOf(Q[j])) <=> y = x \/ \E j \in 1..(b + 1) : y \in NodesOf(P[j])
      BY <1>2, <1>7
    <3> QED BY <3>1, <3>2, <1>8
  <2> QED BY <2>1 DEF ListedOnce
<1>11. Apart(Q, H, b)
  <2>1. ASSUME NEW j \in 1..(b + 1), NEW m \in 1..(b + 1), j # m, NEW y \in NodesOf(Q[j]) PROVE y \notin NodesOf(Q[m])
    <3>1. y \in NodesOf(P[j]) => y \notin NodesOf(P[m]) /\ y # x BY <2>1, <1>4 DEF Listing, Apart
    <3>2. y = x => y \notin NodesOf(P[m]) BY <1>4
    <3> QED BY <3>1, <3>2, <2>1, <1>7
  <2>2. ASSUME NEW j \in 1..(b + 1), NEW k \in 1..b PROVE H[k] \notin NodesOf(Q[j])
    <3>1. H[k] \notin NodesOf(P[j]) BY DEF Listing, Apart
    <3> QED BY <3>1, <1>7, <1>9
  <2>3. \A k, m \in 1..b : H[k] = H[m] => k = m BY DEF Listing, Apart
  <2> QED BY <2>1, <2>2, <2>3 DEF Apart
<1>12. NoneBack(g, Q, H, b)
  <2>1. ASSUME NEW j \in 1..(b + 1), NEW m \in 1..(b + 1), j < m, NEW y \in NodesOf(Q[j]), NEW z \in NodesOf(Q[m])
        PROVE  ~Edge(g, y, z)
    <3>1. j # b + 1 BY <2>1, <1>2
    <3>2. y \in NodesOf(P[j]) BY <3>1, <1>7
    <3>3. CASE z \in NodesOf(P[m]) BY <3>2, <3>3, <2>1 DEF Listing, NoneBack
    <3>4. CASE z = x BY <3>2, <3>4, <1>4
    <3> QED BY <3>3, <3>4, <1>7
  <2>2. ASSUME NEW j \in 1..(b + 1), NEW k \in 1..b, j <= k, NEW y \in NodesOf(Q[j]) PROVE ~Edge(g, y, H[k])
    <3>1. j # b + 1 BY <2>2, <1>2
    <3>2. y \in NodesOf(P[j]) BY <3>1, <1>7
    <3> QED BY <3>2, <2>2 DEF Listing, NoneBack
  <2> QED BY <2>1, <2>2 DEF NoneBack
<1>13. ASSUME NEW k \in 1..b PROVE Region(g, d, Q, H, b, k, N[k], G[k])
  <2>1. Region(g, c, P, H, b, k, N[k], G[k]) BY DEF Listing
  <2>2. x \in G[k] /\ k < b + 1 BY <2>1, <1>2 DEF Region
  <2>3. ASSUME NEW y \in Node, d[y] = UINT_MAX
        PROVE  y \in G[k] <=> (\E m \in 1..b : k <= m /\ y = H[m]) \/ \E j \in 1..(b + 1) : k < j /\ y \in NodesOf(Q[j])
    <3>1. CASE y = x BY <3>1, <2>2, <1>2, <1>7
    <3>2. CASE y # x
      <4>1. \A j \in 1..(b + 1) : y \in NodesOf(Q[j]) <=> y \in NodesOf(P[j]) BY <3>2, <1>7
      <4>2. c[y] = UINT_MAX BY <3>2, <2>3, <1>8
      <4> QED BY <4>1, <4>2, <2>1 DEF Region
    <3> QED BY <3>1, <3>2
  <2>4. G[k] \subseteq Node /\ Joined(g, G[k]) /\ \E u \in G[k] : Edge(g, u, H[k]) BY <2>1 DEF Region
  <2>5. \A y \in G[k] : \A z \in Node : Edge(g, y, z) => z \in G[k] \/ d[z] = UINT_MAX BY <2>1, <1>8 DEF Region
  <2>6. \A y \in Node : d[y] # 0 /\ d[y] # UINT_MAX => (y \in G[k] <=> N[k] < d[y]) BY <2>1, <1>8 DEF Region
  <2> QED BY <2>3, <2>4, <2>5, <2>6 DEF Region
<1> QED BY <1>2, <1>6, <1>10, <1>11, <1>12, <1>13 DEF Listing

\* The node n of the stack becomes the head of the cycle S of what is above it.
Opening(g, c, P, H, N, G, b, d, n, S, P2, H2, N2, G2) ==
    /\ c \in [Node -> Nat] /\ n \in Node /\ c[n] # 0 /\ c[n] # UINT_MAX
    /\ \A y \in Node : d[y] = IF y = n THEN UINT_MAX
                              ELSE IF c[y] # 0 /\ c[y] # UINT_MAX /\ c[n] < c[y] THEN 0 ELSE c[y]
    /\ S = {y \in Node : c[y] # 0 /\ c[y] # UINT_MAX /\ c[n] <= c[y]}
    /\ Joined(g, S) /\ \E u \in S : Edge(g, u, n)
    /\ \A x \in S : \A y \in Node : Edge(g, x, y) => y \in S \/ c[y] = UINT_MAX
    /\ \A x, y \in Node : c[x] # 0 /\ c[x] # UINT_MAX /\ c[x] = c[y] => x = y
    /\ \A z \in Node : c[z] = UINT_MAX /\ (\A k \in 1..b : z # H[k]) => ~Edge(g, z, n)
    /\ \A k \in 1..b : N[k] < c[n]
    /\ \A j \in 1..(b + 1) : P2[j] = P[j]
    /\ P2[b + 2] = <<>>
    /\ \A k \in 1..b : H2[k] = H[k] /\ N2[k] = N[k] /\ G2[k] = G[k]
    /\ H2[b + 1] = n /\ N2[b + 1] = c[n] /\ G2[b + 1] = S

LEMMA ListOpens ==
    ASSUME NEW g, NEW c, NEW P, NEW H, NEW N, NEW G, NEW b, Listing(g, c, P, H, N, G, b), NEW d, NEW n, NEW S,
           NEW P2, NEW H2, NEW N2, NEW G2, Opening(g, c, P, H, N, G, b, d, n, S, P2, H2, N2, G2)
    PROVE  Listing(g, d, P2, H2, N2, G2, b + 1)
<1>0. /\ c \in [Node -> Nat] /\ n \in Node /\ c[n] # 0 /\ c[n] # UINT_MAX
      /\ \A y \in Node : d[y] = IF y = n THEN UINT_MAX
                                ELSE IF c[y] # 0 /\ c[y] # UINT_MAX /\ c[n] < c[y] THEN 0 ELSE c[y]
      /\ S = {y \in Node : c[y] # 0 /\ c[y] # UINT_MAX /\ c[n] <= c[y]}
      /\ Joined(g, S) /\ \E u \in S : Edge(g, u, n)
      /\ \A x \in S : \A y \in Node : Edge(g, x, y) => y \in S \/ c[y] = UINT_MAX
      /\ \A x, y \in Node : c[x] # 0 /\ c[x] # UINT_MAX /\ c[x] = c[y] => x = y
      /\ \A z \in Node : c[z] = UINT_MAX /\ (\A k \in 1..b : z # H[k]) => ~Edge(g, z, n)
      /\ \A k \in 1..b : N[k] < c[n]
      /\ \A j \in 1..(b + 1) : P2[j] = P[j]
      /\ P2[b + 2] = <<>>
      /\ \A k \in 1..b : H2[k] = H[k] /\ N2[k] = N[k] /\ G2[k] = G[k]
      /\ H2[b + 1] = n /\ N2[b + 1] = c[n] /\ G2[b + 1] = S
  BY DEF Opening
<1> USE <1>0
<1>1. /\ b \in Nat /\ b + 1 \in Nat /\ (b + 1) + 1 = b + 2 /\ b + 2 \in 1..(b + 2) /\ b + 1 \in 1..(b + 1)
      /\ \A j \in 1..(b + 2) : j \in 1..(b + 1) \/ j = b + 2
      /\ \A k \in 1..(b + 1) : k \in 1..b \/ k = b + 1
      /\ \A k \in 1..b : k \in 1..(b + 1)
      /\ \A k \in 1..(b + 1) : k \in 1..(b + 2)
  BY DEF Listing
<1>2. Ordered(g, <<>>) /\ NodesOf(<<>>) = {} BY OrderedEmpty
<1>3. \A j \in 1..(b + 2) : Ordered(g, P2[j]) BY <1>1, <1>2 DEF Listing
<1>4. \A j \in 1..(b + 2) : \A y : y \in NodesOf(P2[j]) <=> j \in 1..(b + 1) /\ y \in NodesOf(P[j])
  <2>1. b + 2 \notin 1..(b + 1) BY <1>1
  <2> QED BY <2>1, <1>1, <1>2
<1>5. /\ \A y \in Node : d[y] = UINT_MAX <=> c[y] = UINT_MAX \/ y = n
      /\ \A y \in Node : d[y] # 0 /\ d[y] # UINT_MAX => c[y] # 0 /\ c[y] # UINT_MAX /\ d[y] = c[y] /\ c[y] < c[n] /\ y # n
  <2>1. \A y \in Node : d[y] = UINT_MAX <=> c[y] = UINT_MAX \/ y = n BY WTOAssumption
  <2>2. ASSUME NEW y \in Node, d[y] # 0, d[y] # UINT_MAX
        PROVE  c[y] # 0 /\ c[y] # UINT_MAX /\ d[y] = c[y] /\ c[y] < c[n] /\ y # n
    <3>1. y # n /\ c[y] # 0 /\ c[y] # UINT_MAX /\ d[y] = c[y] /\ ~(c[n] < c[y]) BY <2>2
    <3>2. c[y] # c[n] BY <3>1
    <3> QED BY <3>1, <3>2
  <2> QED BY <2>1, <2>2
<1>6. /\ \A j \in 1..(b + 1) : \A z \in NodesOf(P[j]) : z \in Node /\ c[z] = UINT_MAX /\ z # n /\ ~Edge(g, z, n)
      /\ \A k \in 1..b : H[k] \in Node /\ c[H[k]] = UINT_MAX /\ H[k] # n
  <2>1. \A j \in 1..(b + 1) : \A z \in NodesOf(P[j]) : z \in Node /\ c[z] = UINT_MAX /\ \A k \in 1..b : z # H[k]
    BY ListedAre
  <2>2. \A k \in 1..b : c[H[k]] = UINT_MAX BY ListedAre
  <2>3. \A k \in 1..b : H[k] \in Node BY DEF Listing
  <2> QED BY <2>1, <2>2, <2>3
<1>7. \A k \in 1..(b + 1) : H2[k] \in Node /\ N2[k] \in Nat
  BY <1>1, <1>6 DEF Listing
<1>8. ListedOnce(d, P2, H2, b + 1)
  <2>1. ASSUME NEW y \in Node
        PROVE  d[y] = UINT_MAX <=> (\E k \in 1..(b + 1) : y = H2[k]) \/ \E j \in 1..(b + 2) : y \in NodesOf(P2[j])
    <3>1. c[y] = UINT_MAX <=> (\E k \in 1..b : y = H[k]) \/ \E j \in 1..(b + 1) : y \in NodesOf(P[j])
      BY DEF Listing, ListedOnce
    <3>2. (\E j \in 1..(b + 2) : y \in NodesOf(P2[j])) <=> \E j \in 1..(b + 1) : y \in NodesOf(P[j])
      BY <1>1, <1>4
    <3>3. (\E k \in 1..(b + 1) : y = H2[k]) <=> y = n \/ \E k \in 1..b : y = H[k]
      BY <1>1
    <3> QED BY <3>1, <3>2, <3>3, <1>5
  <2> QED BY <2>1, <1>1 DEF ListedOnce
<1>9. Apart(P2, H2, b + 1)
  <2>1. ASSUME NEW j \in 1..(b + 2), NEW m \in 1..(b + 2), j # m, NEW y \in NodesOf(P2[j]) PROVE y \notin NodesOf(P2[m])
    BY <2>1, <1>4 DEF Listing, Apart
  <2>2. ASSUME NEW j \in 1..(b + 2), NEW k \in 1..(b + 1) PROVE H2[k] \notin NodesOf(P2[j])
    <3>1. CASE k \in 1..b BY <3>1, <1>4 DEF Listing, Apart
    <3>2. CASE k = b + 1 BY <3>2, <1>4, <1>6
    <3> QED BY <3>1, <3>2, <1>1
  <2>3. ASSUME NEW k \in 1..(b + 1), NEW m \in 1..(b + 1), H2[k] = H2[m] PROVE k = m
    <3>1. CASE k \in 1..b /\ m \in 1..b BY <3>1, <2>3 DEF Listing, Apart
    <3>2. CASE k \in 1..b /\ m = b + 1 BY <3>2, <2>3, <1>6
    <3>3. CASE k = b + 1 /\ m \in 1..b BY <3>3, <2>3, <1>6
    <3> QED BY <3>1, <3>2, <3>3, <1>1
  <2> QED BY <2>1, <2>2, <2>3, <1>1 DEF Apart
<1>10. NoneBack(g, P2, H2, b + 1)
  <2>1. ASSUME NEW j \in 1..(b + 2), NEW m \in 1..(b + 2), j < m, NEW y \in NodesOf(P2[j]), NEW z \in NodesOf(P2[m])
        PROVE  ~Edge(g, y, z)
    BY <2>1, <1>4 DEF Listing, NoneBack
  <2>2. ASSUME NEW j \in 1..(b + 2), NEW k \in 1..(b + 1), j <= k, NEW y \in NodesOf(P2[j]) PROVE ~Edge(g, y, H2[k])
    <3>1. CASE k \in 1..b BY <3>1, <2>2, <1>4 DEF Listing, NoneBack
    <3>2. CASE k = b + 1 BY <3>2, <1>4, <1>6
    <3> QED BY <3>1, <3>2, <1>1
  <2> QED BY <2>1, <2>2, <1>1 DEF NoneBack
<1>11. ASSUME NEW k \in 1..b PROVE Region(g, d, P2, H2, b + 1, k, N2[k], G2[k])
  <2>1. Region(g, c, P, H, b, k, N[k], G[k]) /\ G2[k] = G[k] /\ N2[k] = N[k] /\ H2[k] = H[k] BY DEF Listing
  <2>2. n \in G[k] /\ k <= b + 1 BY <2>1, <1>1 DEF Region
  <2>3. ASSUME NEW y \in Node, d[y] = UINT_MAX
        PROVE  y \in G[k] <=> (\E m \in 1..(b + 1) : k <= m /\ y = H2[m]) \/ \E j \in 1..(b + 2) : k < j /\ y \in NodesOf(P2[j])
    <3>1. CASE y = n BY <3>1, <2>2, <1>1
    <3>2. CASE y # n
      <4>1. (\E j \in 1..(b + 2) : k < j /\ y \in NodesOf(P2[j])) <=> (\E j \in 1..(b + 1) : k < j /\ y \in NodesOf(P[j]))
        BY <1>1, <1>4
      <4>2. (\E m \in 1..(b + 1) : k <= m /\ y = H2[m]) <=> (\E m \in 1..b : k <= m /\ y = H[m])
        BY <3>2, <1>1
      <4>3. c[y] = UINT_MAX BY <3>2, <2>3, <1>5
      <4> QED BY <4>1, <4>2, <4>3, <2>1 DEF Region
    <3> QED BY <3>1, <3>2
  <2>4. G[k] \subseteq Node /\ Joined(g, G[k]) /\ \E u \in G[k] : Edge(g, u, H[k]) BY <2>1 DEF Region
  <2>5. \A y \in G[k] : \A z \in Node : Edge(g, y, z) => z \in G[k] \/ d[z] = UINT_MAX BY <2>1, <1>5 DEF Region
  <2>6. \A y \in Node : d[y] # 0 /\ d[y] # UINT_MAX => (y \in G[k] <=> N[k] < d[y]) BY <2>1, <1>5 DEF Region
  <2> QED BY <2>1, <2>3, <2>4, <2>5, <2>6, <1>1 DEF Region
<1>12. Region(g, d, P2, H2, b + 1, b + 1, c[n], S)
  <2>1. \A y \in Node : d[y] # 0 /\ d[y] # UINT_MAX => (y \in S <=> c[n] < d[y]) BY <1>5
  <2>2. ASSUME NEW y \in Node, d[y] = UINT_MAX
        PROVE  y \in S <=> (\E m \in 1..(b + 1) : b + 1 <= m /\ y = H2[m]) \/ \E j \in 1..(b + 2) : b + 1 < j /\ y \in NodesOf(P2[j])
    <3>1. (\E m \in 1..(b + 1) : b + 1 <= m /\ y = H2[m]) <=> y = n
      <4>1. \A m \in 1..(b + 1) : b + 1 <= m <=> m = b + 1 BY <1>1
      <4> QED BY <4>1, <1>1
    <3>2. ~\E j \in 1..(b + 2) : b + 1 < j /\ y \in NodesOf(P2[j])
      <4>1. \A j \in 1..(b + 1) : ~(b + 1 < j) BY <1>1
      <4> QED BY <4>1, <1>4
    <3>3. y \in S <=> y = n BY <2>2, <1>5
    <3> QED BY <3>1, <3>2, <3>3
  <2>3. \A y \in S : \A z \in Node : Edge(g, y, z) => z \in S \/ d[z] = UINT_MAX BY <1>5
  <2> QED BY <2>1, <2>2, <2>3, <1>1 DEF Region
<1>13. ASSUME NEW k \in 1..(b + 1) PROVE Region(g, d, P2, H2, b + 1, k, N2[k], G2[k])
  <2>1. CASE k \in 1..b BY <2>1, <1>11
  <2>2. CASE k = b + 1
    <3>1. N2[k] = c[n] /\ G2[k] = S BY <2>2
    <3> QED BY <3>1, <2>2, <1>12
  <2> QED BY <2>1, <2>2, <1>1
<1> QED BY <1>1, <1>3, <1>7, <1>8, <1>9, <1>10, <1>13 DEF Listing

\* The innermost cycle is done: with its head it goes in front of the list outside it.
LEMMA ListClose ==
    ASSUME NEW g, NEW c, NEW P, NEW H, NEW N, NEW G, NEW b, Listing(g, c, P, H, N, G, b), b > 0,
           NEW n, n = H[b],
           \A z \in Node : c[z] = UINT_MAX /\ (\A k \in 1..b : z # H[k]) =>
               \A y \in Node : Edge(g, z, y) => c[y] = UINT_MAX,
           \A y \in Node : Edge(g, n, y) => c[y] = UINT_MAX,
           \A z \in Node : Range(g[z]) \subseteq Node,
           NEW Q, \A j \in 1..(b - 1) : Q[j] = P[j],
           Q[b] = Cycle(n, P[b + 1]) \o P[b]
    PROVE  Listing(g, c, Q, H, N, G, b - 1)
<1>1. /\ b \in Nat /\ b - 1 \in Nat /\ (b - 1) + 1 = b /\ b \in 1..b /\ b \in 1..(b + 1) /\ b + 1 \in 1..(b + 1) /\ b # b + 1
      /\ \A j \in 1..(b + 1) : j \in 1..b \/ j = b + 1
      /\ \A j \in 1..b : j \in 1..(b - 1) \/ j = b
      /\ \A k \in 1..(b - 1) : k \in 1..b /\ k < b
      /\ \A k \in 1..b : k \in 1..(b + 1) /\ k < b + 1
  BY DEF Listing
<1>2. n \in Node /\ c[n] = UINT_MAX BY <1>1, ListedAre DEF Listing
<1>3. \A j \in 1..(b + 1) : \A z \in NodesOf(P[j]) :
         z \in Node /\ c[z] = UINT_MAX /\ z # n /\ \A y \in Node : Edge(g, z, y) => c[y] = UINT_MAX
  BY <1>1, ListedAre
<1>4. G[b] = {n} \union NodesOf(P[b + 1])
  <2>1. Region(g, c, P, H, b, b, N[b], G[b]) BY <1>1 DEF Listing
  <2> DEFINE U == {n} \union NodesOf(P[b + 1])
  <2>2. \A y \in Node : c[y] = UINT_MAX => (y \in G[b] <=> y \in U)
    <3>1. ASSUME NEW y \in Node, c[y] = UINT_MAX PROVE y \in G[b] <=> y \in U
      <4>1. (\E m \in 1..b : b <= m /\ y = H[m]) <=> y = n
        <5>1. \A m \in 1..b : b <= m <=> m = b BY <1>1
        <5> QED BY <5>1, <1>1
      <4>2. (\E j \in 1..(b + 1) : b < j /\ y \in NodesOf(P[j])) <=> y \in NodesOf(P[b + 1])
        <5>1. \A j \in 1..(b + 1) : b < j <=> j = b + 1 BY <1>1
        <5> QED BY <5>1, <1>1
      <4> QED BY <4>1, <4>2, <3>1, <2>1 DEF Region
    <3> QED BY <3>1
  <2>3. U \subseteq G[b] BY <2>2, <1>1, <1>2, <1>3
  <2>4. \A u \in U : Range(g[u]) \cap G[b] \subseteq U
    <3>1. ASSUME NEW u \in U, NEW y \in Range(g[u]), y \in G[b] PROVE y \in U
      <4>1. y \in Node BY <3>1, <2>1 DEF Region
      <4>2. Edge(g, u, y) BY <3>1 DEF Edge
      <4>3. c[y] = UINT_MAX BY <4>1, <4>2, <1>1, <1>3
      <4> QED BY <3>1, <4>1, <4>3, <2>2
    <3> QED BY <3>1
  <2>5. U \in (SUBSET G[b]) \ {{}} BY <2>3
  <2>6. Joined(g, G[b]) BY <2>1 DEF Region
  <2>7. U = G[b]
    <3> HIDE DEF U
    <3> QED BY <2>4, <2>5, <2>6 DEF Joined
  <2> QED BY <2>7
<1>5. PICK C : C = Cycle(n, P[b + 1]) OBVIOUS
<1>6. Ordered(g, C) /\ NodesOf(C) = {n} \union NodesOf(P[b + 1])
  <2>1. Region(g, c, P, H, b, b, N[b], G[b]) BY <1>1 DEF Listing
  <2>2. Joined(g, G[b]) /\ \E u \in G[b] : Edge(g, u, n) BY <2>1 DEF Region
  <2>3. Ordered(g, P[b + 1]) /\ n \notin NodesOf(P[b + 1]) BY <1>1, <1>3 DEF Listing
  <2>4. PICK B : B = P[b + 1] OBVIOUS
  <2>5. /\ Ordered(g, B) /\ n \notin NodesOf(B) /\ n \in Node
        /\ Joined(g, {n} \union NodesOf(B)) /\ \E u \in {n} \union NodesOf(B) : Edge(g, u, n)
    BY <2>2, <2>3, <2>4, <1>2, <1>4
  <2>6. Ordered(g, Cycle(n, B)) /\ NodesOf(Cycle(n, B)) = {n} \union NodesOf(B)
    BY ONLY <2>5, OrderedCycle
  <2> QED BY <2>4, <2>6, <1>5
<1>7. Ordered(g, Q[b]) /\ NodesOf(Q[b]) = NodesOf(C) \union NodesOf(P[b])
  <2>1. Ordered(g, P[b]) BY <1>1 DEF Listing
  <2>2. \A x \in NodesOf(C) : x \notin NodesOf(P[b]) BY <1>1, <1>3, <1>6 DEF Listing, Apart
  <2>3. ASSUME NEW x \in NodesOf(P[b]), NEW y \in NodesOf(C) PROVE ~Edge(g, x, y)
    <3>1. CASE y = n BY <3>1, <1>1 DEF Listing, NoneBack
    <3>2. CASE y \in NodesOf(P[b + 1]) BY <3>2, <1>1 DEF Listing, NoneBack
    <3> QED BY <3>1, <3>2, <1>6
  <2> QED BY <2>1, <2>2, <2>3, <1>5, <1>6, OrderedJoin
<1>8. \A j \in 1..b : \A y : y \in NodesOf(Q[j]) <=> y \in NodesOf(P[j]) \/ (j = b /\ (y = n \/ y \in NodesOf(P[b + 1])))
  <2>1. ASSUME NEW j \in 1..b, NEW y
        PROVE  y \in NodesOf(Q[j]) <=> y \in NodesOf(P[j]) \/ (j = b /\ (y = n \/ y \in NodesOf(P[b + 1])))
    <3>1. CASE j = b BY <3>1, <1>6, <1>7
    <3>2. CASE j # b BY <3>2, <1>1
    <3> QED BY <3>1, <3>2
  <2> QED BY <2>1
<1>9. \A j \in 1..b : Ordered(g, Q[j]) BY <1>1, <1>7 DEF Listing
<1>10. \A k \in 1..(b - 1) : H[k] \in Node /\ N[k] \in Nat /\ H[k] # n BY <1>1 DEF Listing, Apart
<1>11. ListedOnce(c, Q, H, b - 1)
  <2>1. ASSUME NEW y \in Node
        PROVE  c[y] = UINT_MAX <=> (\E k \in 1..(b - 1) : y = H[k]) \/ \E j \in 1..b : y \in NodesOf(Q[j])
    <3>1. c[y] = UINT_MAX <=> (\E k \in 1..b : y = H[k]) \/ \E j \in 1..(b + 1) : y \in NodesOf(P[j])
      BY DEF Listing, ListedOnce
    <3>2. (\E k \in 1..b : y = H[k]) <=> y = n \/ \E k \in 1..(b - 1) : y = H[k] BY <1>1
    <3>3. (\E j \in 1..(b + 1) : y \in NodesOf(P[j])) <=> y \in NodesOf(P[b + 1]) \/ \E j \in 1..b : y \in NodesOf(P[j])
      BY <1>1
    <3>4. (\E j \in 1..b : y \in NodesOf(Q[j])) <=> y = n \/ y \in NodesOf(P[b + 1]) \/ \E j \in 1..b : y \in NodesOf(P[j])
      BY <1>1, <1>8
    <3> QED BY <3>1, <3>2, <3>3, <3>4
  <2> QED BY <2>1, <1>1 DEF ListedOnce
<1>12. Apart(Q, H, b - 1)
  <2>1. ASSUME NEW j \in 1..b, NEW m \in 1..b, j # m, NEW y \in NodesOf(Q[j]) PROVE y \notin NodesOf(Q[m])
    <3>1. \A i, k \in 1..(b + 1) : i # k => \A x \in NodesOf(P[i]) : x \notin NodesOf(P[k]) BY DEF Listing, Apart
    <3>2. CASE j = b
      <4>1. m \in 1..(b - 1) BY <3>2, <2>1, <1>1
      <4>2. y \in NodesOf(Q[m]) => y \in NodesOf(P[m]) BY <3>2, <2>1, <1>8
      <4>3. y \in NodesOf(P[b]) \/ y = n \/ y \in NodesOf(P[b + 1]) BY <3>2, <2>1, <1>8
      <4>4. m \in 1..(b + 1) /\ m # b /\ m # b + 1 BY <4>1, <1>1
      <4>5. y \in NodesOf(P[b]) => y \notin NodesOf(P[m]) BY <4>4, <3>1, <1>1
      <4>6. y \in NodesOf(P[b + 1]) => y \notin NodesOf(P[m]) BY <4>4, <3>1, <1>1
      <4>7. y = n => y \notin NodesOf(P[m]) BY <4>4, <1>3
      <4> QED BY <4>2, <4>3, <4>5, <4>6, <4>7
    <3>3. CASE j # b
      <4>1. y \in NodesOf(P[j]) /\ j \in 1..(b - 1) BY <3>3, <2>1, <1>1, <1>8
      <4>2. j \in 1..(b + 1) /\ m \in 1..(b + 1) /\ j # b + 1 BY <4>1, <1>1
      <4>3. y # n BY <4>1, <4>2, <1>3
      <4>4. y \notin NodesOf(P[b + 1]) BY <4>1, <4>2, <3>1, <1>1
      <4>5. y \notin NodesOf(P[m]) BY <4>1, <4>2, <3>1, <2>1
      <4> QED BY <4>3, <4>4, <4>5, <1>8
    <3> QED BY <3>2, <3>3
  <2>2. ASSUME NEW j \in 1..b, NEW k \in 1..(b - 1) PROVE H[k] \notin NodesOf(Q[j])
    <3>1. H[k] \notin NodesOf(P[j]) /\ H[k] \notin NodesOf(P[b + 1]) BY <1>1 DEF Listing, Apart
    <3> QED BY <3>1, <1>8, <1>10
  <2>3. \A k, m \in 1..(b - 1) : H[k] = H[m] => k = m BY <1>1 DEF Listing, Apart
  <2> QED BY <2>1, <2>2, <2>3, <1>1 DEF Apart
<1>13. NoneBack(g, Q, H, b - 1)
  <2>1. ASSUME NEW j \in 1..b, NEW m \in 1..b, j < m, NEW y \in NodesOf(Q[j]), NEW z \in NodesOf(Q[m])
        PROVE  ~Edge(g, y, z)
    <3>1. j # b /\ j < b BY <2>1, <1>1
    <3>2. y \in NodesOf(P[j]) BY <3>1, <1>8
    <3>3. CASE z \in NodesOf(P[m]) BY <3>2, <3>3, <2>1, <1>1 DEF Listing, NoneBack
    <3>4. CASE z = n 
      <4>1. j <= b /\ j \in 1..(b + 1) BY <3>1, <1>1
      <4>2. ~Edge(g, y, H[b]) BY <4>1, <3>2, <1>1 DEF Listing, NoneBack
      <4> QED BY <4>2, <3>4
    <3>5. CASE z \in NodesOf(P[b + 1])
      <4>1. j < b + 1 /\ j \in 1..(b + 1) BY <1>1
      <4> QED BY <4>1, <3>2, <3>5, <1>1 DEF Listing, NoneBack
    <3> QED BY <3>3, <3>4, <3>5, <1>8
  <2>2. ASSUME NEW j \in 1..b, NEW k \in 1..(b - 1), j <= k, NEW y \in NodesOf(Q[j]) PROVE ~Edge(g, y, H[k])
    <3>1. j # b BY <2>2, <1>1
    <3>2. y \in NodesOf(P[j]) BY <3>1, <1>8
    <3> QED BY <3>2, <2>2, <1>1 DEF Listing, NoneBack
  <2> QED BY <2>1, <2>2, <1>1 DEF NoneBack
<1>14. ASSUME NEW k \in 1..(b - 1) PROVE Region(g, c, Q, H, b - 1, k, N[k], G[k])
  <2>1. Region(g, c, P, H, b, k, N[k], G[k]) /\ k < b /\ k <= b /\ k < b + 1 BY <1>1 DEF Listing
  <2>2. ASSUME NEW y \in Node, c[y] = UINT_MAX
        PROVE  y \in G[k] <=> (\E m \in 1..(b - 1) : k <= m /\ y = H[m]) \/ \E j \in 1..b : k < j /\ y \in NodesOf(Q[j])
    <3>1. y \in G[k] <=> (\E m \in 1..b : k <= m /\ y = H[m]) \/ \E j \in 1..(b + 1) : k < j /\ y \in NodesOf(P[j])
      BY <2>1, <2>2 DEF Region
    <3>2. (\E m \in 1..b : k <= m /\ y = H[m]) <=> y = n \/ \E m \in 1..(b - 1) : k <= m /\ y = H[m] BY <2>1, <1>1
    <3>3. (\E j \in 1..(b + 1) : k < j /\ y \in NodesOf(P[j]))
          <=> y \in NodesOf(P[b + 1]) \/ \E j \in 1..b : k < j /\ y \in NodesOf(P[j])
      BY <2>1, <1>1
    <3>4. (\E j \in 1..b : k < j /\ y \in NodesOf(Q[j]))
          <=> y = n \/ y \in NodesOf(P[b + 1]) \/ \E j \in 1..b : k < j /\ y \in NodesOf(P[j])
      BY <2>1, <1>1, <1>8
    <3> QED BY <3>1, <3>2, <3>3, <3>4
  <2> QED BY <2>1, <2>2, <1>1 DEF Region
<1> QED BY <1>1, <1>9, <1>10, <1>11, <1>12, <1>13, <1>14 DEF Listing

\* The calls hs[1], ..., hs[b] are the ones that opened the cycles of H.
Linked(hs, H, N, b) ==
    /\ \A k \in 1..b : hs[k] \in Nat /\ Opened(hs[k]) /\ H[k] = NodeOf(hs[k]) /\ N[k] = HeadOf(hs[k])
    /\ \A k, m \in 1..b : k < m => hs[k] < hs[m]
    /\ \A i \in Nat : Opened(i) => \E k \in 1..b : hs[k] = i
Lists ==
    /\ parts \in Seq(Seq(Entry))
    /\ \E b \in Nat : \E hs, H, N, G :
         Linked(hs, H, N, b) /\ Len(parts) = b + 1 /\ Listing(succs, cdn, parts, H, N, G, b)
\* The inductive invariant of one run of initWTO, on the entry e.
WTORight(e) == Typed /\ Stacked /\ Dfs(e) /\ Lists

LEMMA ListsSeal ==
    ASSUME Typed, Lists PROVE AllSealed
<1>1. PICK b \in Nat : \E hs, H, N, G :
         Linked(hs, H, N, b) /\ Len(parts) = b + 1 /\ Listing(succs, cdn, parts, H, N, G, b)
  BY DEF Lists
<1>2. PICK hs, H, N, G : Linked(hs, H, N, b) /\ Listing(succs, cdn, parts, H, N, G, b) BY <1>1
<1>3. ASSUME NEW k \in Nat, Opened(k) PROVE \E S \in SUBSET Node : Sealed(k, S)
  <2>1. PICK m \in 1..b : hs[m] = k BY <1>2, <1>3 DEF Linked
  <2>2. Region(succs, cdn, parts, H, b, m, N[m], G[m]) BY <1>2 DEF Listing
  <2>3. N[m] = Nr(k) BY <1>2, <1>3, <2>1 DEF Linked, Nr
  <2>4. ASSUME NEW j \in Nat, Opened(j), k <= j PROVE NodeOf(j) \in G[m]
    <3>1. PICK q \in 1..b : hs[q] = j BY <1>2, <2>4 DEF Linked
    <3>2. m <= q
      <4> SUFFICES ASSUME q < m PROVE FALSE OBVIOUS
      <4>1. hs[q] < hs[m] BY <1>2 DEF Linked
      <4> QED BY <4>1, <3>1, <2>1, <2>4
    <3>3. cdn[H[q]] = UINT_MAX BY <1>2, ListedAre
    <3>4. H[q] \in Node BY <1>2 DEF Listing
    <3>5. H[q] \in G[m] BY <2>2, <3>2, <3>3, <3>4 DEF Region
    <3> QED BY <3>1, <3>5, <1>2 DEF Linked
  <2>5. \A x \in G[m] : \A y \in Node : Follows(x, y) => y \in G[m] \/ IsPlaced(y)
    BY <2>2 DEF Region, Edge, Follows, IsPlaced
  <2>6. \A x \in Node : OnStack(x) => (x \in G[m] <=> Nr(k) < cdn[x])
    BY <2>2, <2>3 DEF Region, OnStack
  <2>7. G[m] \in SUBSET Node BY <2>2 DEF Region
  <2> QED BY <2>4, <2>5, <2>6, <2>7 DEF Sealed
<1> QED BY <1>3 DEF AllSealed

LEMMA LinkedKeeps ==
    ASSUME SameOpen, NEW hs, NEW H, NEW N, NEW b, Linked(hs, H, N, b) PROVE Linked(hs, H, N, b)'
<1>1. \A k \in 1..b : hs[k] \in Nat /\ Opened(hs[k])' /\ H[k] = NodeOf(hs[k])' /\ N[k] = HeadOf(hs[k])'
  BY DEF Linked, SameOpen
<1>2. \A i \in Nat : Opened(i)' => \E k \in 1..b : hs[k] = i BY DEF Linked, SameOpen
<1>3. \A k, m \in 1..b : k < m => hs[k] < hs[m] BY DEF Linked
<1> QED BY <1>1, <1>2, <1>3 DEF Linked

\* Q has the first a lists of P, then L.
Replaced(P, a, L, Q) ==
    Q \in Seq(Seq(Entry)) /\ Len(Q) = a + 1 /\ (\A j \in 1..a : Q[j] = P[j]) /\ Q[a + 1] = L

\* Replacing the last list.
LEMMA LastReplaced ==
    ASSUME NEW P \in Seq(Seq(Entry)), NEW b \in Nat, Len(P) = b + 1, NEW E \in Seq(Entry)
    PROVE  Replaced(P, b, E \o P[b + 1], Append(Front(P), E \o Last(P)))
<1>0. PICK Q : Q = Append(Front(P), E \o Last(P)) OBVIOUS
<1>1. PICK F, L : F = Front(P) /\ L = E \o Last(P) OBVIOUS
<1>2. \A j \in 1..b : P[j] \in Seq(Entry)
  <2>1. \A j \in 1..b : j \in 1..Len(P) OBVIOUS
  <2> QED BY <2>1, ElementOfSeq
<1>3. F \in Seq(Seq(Entry)) /\ Len(F) = b /\ \A j \in 1..b : F[j] = P[j]
  <2>1. F = SubSeq(P, 1, b) BY <1>1 DEF Front
  <2>2. \A j \in 1..b : 1 + j - 1 = j OBVIOUS
  <2>3. b - 1 + 1 = b OBVIOUS
  <2> QED BY <2>1, <2>2, <2>3, <1>2, SubSeqProperties
<1>4. b + 1 \in 1..Len(P) /\ Last(P) = P[b + 1] BY DEF Last
<1>5. P[b + 1] \in Seq(Entry) BY <1>4, ElementOfSeq
<1>6. L = E \o P[b + 1] /\ L \in Seq(Entry) BY <1>1, <1>4, <1>5, ConcatProperties
<1>7. Q = Append(F, L) BY <1>0, <1>1
<1>8. Q \in Seq(Seq(Entry)) /\ Len(Q) = b + 1 /\ (\A j \in 1..b : Q[j] = F[j]) /\ Q[b + 1] = L
  <2>1. PICK T : T = Seq(Entry) OBVIOUS
  <2>2. F \in Seq(T) /\ L \in T BY <2>1, <1>3, <1>6
  <2>3. Q \in Seq(T) /\ Len(Q) = Len(F) + 1 /\ (\A j \in 1..Len(F) : Q[j] = F[j]) /\ Q[Len(F) + 1] = L
    BY <2>2, <1>7, AppendProperties
  <2> QED BY <2>1, <2>3, <1>3
<1>9. Replaced(P, b, E \o P[b + 1], Q) BY <1>3, <1>6, <1>8 DEF Replaced
<1> QED BY <1>0, <1>9

LEMMA LastDropped ==
    ASSUME NEW P \in Seq(Seq(Entry)), NEW b \in Nat, Len(P) = b + 1
    PROVE  /\ Front(P) \in Seq(Seq(Entry)) /\ Len(Front(P)) = b
           /\ \A j \in 1..b : Front(P)[j] = P[j]
           /\ Last(P) = P[b + 1] /\ P[b + 1] \in Seq(Entry)
<1>1. \A j \in 1..(b + 1) : P[j] \in Seq(Entry) BY ElementOfSeq
<1>2. Front(P) = SubSeq(P, 1, b) BY DEF Front
<1>3. PICK F : F = Front(P) OBVIOUS
<1>4. F \in Seq(Seq(Entry)) /\ Len(F) = b /\ \A j \in 1..b : F[j] = P[j]
  <2>1. F = SubSeq(P, 1, b) BY <1>2, <1>3
  <2>2. \A j \in 1..b : 1 + j - 1 = j /\ P[j] \in Seq(Entry) BY <1>1
  <2>3. b - 1 + 1 = b OBVIOUS
  <2> QED BY <2>1, <2>2, <2>3, SubSeqProperties
<1>5. Last(P) = P[b + 1] BY DEF Last
<1> QED BY <1>1, <1>3, <1>4, <1>5

LEMMA CycleTyped ==
    ASSUME NEW n \in Node, NEW B \in Seq(Entry) PROVE Cycle(n, B) \in Seq(Entry)
<1>1. PICK E, D : /\ E = <<[node |-> n, head |-> TRUE, depth |-> <<>>]>>
                  /\ D = [i \in 1..Len(B) |-> [B[i] EXCEPT !.depth = <<n>> \o @]]
  OBVIOUS
<1>2. E \in Seq(Entry) BY <1>1, SingleEntry
<1>3. ASSUME NEW i \in 1..Len(B) PROVE [B[i] EXCEPT !.depth = <<n>> \o @] \in Entry
  <2>1. B[i] \in Entry /\ B[i].depth \in Seq(Node) BY EntryParts
  <2>2. PICK X, M, d : X = <<n>> /\ M = B[i].depth /\ d = X \o M OBVIOUS
  <2>3. X \in Seq(Node) /\ M \in Seq(Node) BY <2>1, <2>2
  <2>4. d \in Seq(Node) BY <2>2, <2>3, ConcatProperties
  <2>5. [B[i] EXCEPT !.depth = <<n>> \o @] = [B[i] EXCEPT !.depth = d] BY <2>2
  <2> QED BY <2>1, <2>4, <2>5 DEF Entry
<1>4. D \in Seq(Entry)
  <2>1. D \in [1..Len(B) -> Entry] BY <1>1, <1>3
  <2>2. Len(B) \in Nat BY LenProperties
  <2> QED BY <2>1, <2>2, SeqDef
<1>5. Cycle(n, B) = E \o D BY <1>1, EntryParts DEF Cycle
<1> QED BY <1>2, <1>4, <1>5, ConcatProperties

\* Two lists become one.
LEMMA LastTwoReplaced ==
    ASSUME NEW P \in Seq(Seq(Entry)), NEW b \in Nat, b > 0, Len(P) = b + 1, NEW n \in Node
    PROVE  Replaced(P, b - 1, Cycle(n, P[b + 1]) \o P[b],
                    Append(Front(Front(P)), Cycle(n, Last(P)) \o Last(Front(P))))
<1>0. PICK Q : Q = Append(Front(Front(P)), Cycle(n, Last(P)) \o Last(Front(P))) OBVIOUS
<1>1. PICK F, E, a : F = Front(P) /\ E = Cycle(n, Last(P)) /\ a = b - 1 OBVIOUS
<1>2. F \in Seq(Seq(Entry)) /\ Len(F) = b /\ (\A j \in 1..b : F[j] = P[j]) /\ E = Cycle(n, P[b + 1]) /\ E \in Seq(Entry)
  BY <1>1, LastDropped, CycleTyped
<1>3. a \in Nat /\ a + 1 = b /\ Len(F) = a + 1 /\ a + 1 \in 1..b /\ \A j \in 1..a : j \in 1..b BY <1>1, <1>2
<1>4. Q = Append(Front(F), E \o Last(F)) BY <1>0, <1>1
<1>5. Replaced(F, a, E \o F[a + 1], Q) BY <1>2, <1>3, <1>4, LastReplaced
<1>6. E \o F[a + 1] = Cycle(n, P[b + 1]) \o P[b] BY <1>2, <1>3
<1>7. PICK L : L = Cycle(n, P[b + 1]) \o P[b] OBVIOUS
<1>8. Replaced(F, a, L, Q) BY <1>5, <1>6, <1>7
<1>9. Replaced(P, a, L, Q) BY <1>2, <1>3, <1>8 DEF Replaced
<1> QED BY <1>0, <1>1, <1>7, <1>9

LEMMA SkipLists ==
    ASSUME Lists, SameOpen, succs' = succs, cdn' = cdn, parts' = parts PROVE Lists'
<1>1. PICK b \in Nat : \E hs, H, N, G :
         Linked(hs, H, N, b) /\ Len(parts) = b + 1 /\ Listing(succs, cdn, parts, H, N, G, b)
  BY DEF Lists
<1>2. PICK hs, H, N, G : Linked(hs, H, N, b) /\ Len(parts) = b + 1 /\ Listing(succs, cdn, parts, H, N, G, b) BY <1>1
<1>3. Linked(hs, H, N, b)' BY <1>2, LinkedKeeps
<1>4. Listing(succs', cdn', parts', H, N, G, b) BY <1>2
<1>5. Len(parts') = b + 1 /\ parts' \in Seq(Seq(Entry)) BY <1>2 DEF Lists
<1> QED BY <1>3, <1>4, <1>5 DEF Lists

LEMMA DescendLists ==
    ASSUME Typed, NEW e, Dfs(e), Lists, NEW l, NEW x, Descends(l, x), parts' = parts PROVE Lists'
<1>1. PICK b \in Nat : \E hs, H, N, G :
         Linked(hs, H, N, b) /\ Len(parts) = b + 1 /\ Listing(succs, cdn, parts, H, N, G, b)
  BY DEF Lists
<1>2. PICK hs, H, N, G : Linked(hs, H, N, b) /\ Len(parts) = b + 1 /\ Listing(succs, cdn, parts, H, N, G, b) BY <1>1
<1>3. /\ x \in Node /\ l \in Nat /\ l = Len(frames) /\ l > 0 /\ cdn[x] = 0 /\ num' = num + 1 /\ num' < UINT_MAX /\ succs' = succs
      /\ \A y \in Node : cdn'[y] = IF y = x THEN num + 1 ELSE cdn[y]
      /\ Follows(NodeOf(l), x)
  BY DEF Descends
<1>4. SameOpen
  <2>1. \A i \in Nat : Opened(i) => i \in 1..l BY <1>3 DEF Opened, Visiting
  <2> QED BY <2>1 DEF Descends, SameOpen
<1>5. PICK m : m = num + 1 OBVIOUS
<1>6. m \in Nat /\ m # 0 /\ m # UINT_MAX /\ num \in Nat BY <1>3, <1>5, WTOAssumption DEF Typed
<1>7. NodeOf(l) \in Node BY <1>3, CallTypes
<1>8. ASSUME NEW k \in 1..b PROVE N[k] < m /\ x \in G[k]
  <2>1. Opened(hs[k]) /\ hs[k] \in Nat /\ N[k] = HeadOf(hs[k]) /\ H[k] = NodeOf(hs[k]) BY <1>2 DEF Linked
  <2>2. N[k] <= num BY <2>1 DEF Dfs, Framed
  <2>3. N[k] \in Nat BY <1>2 DEF Listing
  <2>4. Region(succs, cdn, parts, H, b, k, N[k], G[k]) BY <1>2 DEF Listing
  <2>5. NodeOf(l) \in G[k]
    <3>1. CASE Visiting(l)
      <4>1. Active(l) BY <3>1, <1>3 DEF Active, Opened
      <4>2. OnStack(NodeOf(l)) /\ Nr(l) = cdn[NodeOf(l)] BY <4>1, <1>3 DEF Dfs, Framed, Nr, Active
      <4>3. hs[k] < l BY <2>1, <1>3 DEF Opened
      <4>4. Nr(hs[k]) < Nr(l) BY <3>1, <4>3, <2>1, <1>3 DEF Dfs, PathRight, Opened
      <4>5. N[k] < cdn[NodeOf(l)] BY <4>2, <4>4, <2>1 DEF Nr
      <4> QED BY <4>2, <4>5, <2>4, <1>7 DEF Region, OnStack
    <3>2. CASE ~Visiting(l)
      <4>1. l \in 1..Len(frames) BY <1>3
      <4>2. l > 1 /\ Opened(l - 1) BY <3>2, <4>1 DEF Dfs, Framed
      <4>3. l - 1 \in Nat /\ (l - 1) + 1 = l BY <4>2, <1>3
      <4>4. NodeOf(l) = NodeOf(l - 1)
        <5>1. NodeOf((l - 1) + 1) = NodeOf(l - 1) BY <4>2, <4>3 DEF Dfs, Framed
        <5> QED BY <5>1, <4>3
      <4>5. PICK q \in 1..b : hs[q] = l - 1 BY <4>2, <4>3, <1>2 DEF Linked
      <4>6. k <= q
        <5> SUFFICES ASSUME q < k PROVE FALSE OBVIOUS
        <5>1. hs[q] < hs[k] BY <1>2 DEF Linked
        <5>2. hs[k] < l BY <2>1, <1>3 DEF Opened
        <5> QED BY <5>1, <5>2, <4>3, <4>5, <2>1
      <4>7. H[q] = NodeOf(l) BY <1>2, <4>4, <4>5 DEF Linked
      <4>8. cdn[H[q]] = UINT_MAX BY <1>2, ListedAre
      <4> QED BY <4>6, <4>7, <4>8, <2>4, <1>7 DEF Region
    <3> QED BY <3>1, <3>2
  <2>6. Edge(succs, NodeOf(l), x) BY <1>3 DEF Follows, Edge
  <2>7. x \in G[k] BY <2>4, <2>5, <2>6, <1>3, WTOAssumption DEF Region
  <2> QED BY <2>2, <2>3, <2>7, <1>5, <1>6
<1>9. PICK g, c, P, d : g = succs /\ c = cdn /\ P = parts /\ d = cdn' OBVIOUS
<1>10. /\ Listing(g, c, P, H, N, G, b) /\ c[x] = 0 /\ \A y \in Node : d[y] = IF y = x THEN m ELSE c[y]
  BY <1>2, <1>3, <1>5, <1>9
<1>11. Listing(g, d, P, H, N, G, b)
  <2>1. x \in Node BY <1>3
  <2> QED BY ONLY <2>1, <1>10, <1>8, <1>6, ListDescend
<1>12. Linked(hs, H, N, b)' BY <1>2, <1>4, LinkedKeeps
<1>13. Listing(succs', cdn', parts', H, N, G, b) BY <1>3, <1>9, <1>11
<1>14. Len(parts') = b + 1 /\ parts' \in Seq(Seq(Entry)) BY <1>2 DEF Lists
<1> QED BY <1>12, <1>13, <1>14 DEF Lists

LEMMA PlaceLists ==
    ASSUME Typed, NEW e, Dfs(e), Lists, NEW l \in Nat, NEW x \in Node,
           l > 0, Active(l), x = NodeOf(l), PopPlaced(l - 1, x), OnStack(x),
           \A i \in Nat : Opened(i) => i < l,
           \A y \in Node : Follows(x, y) => IsPlaced(y),
           parts' = pushFront([node |-> x, head |-> FALSE, depth |-> <<>>])
    PROVE  Lists'
<1>1. PICK b \in Nat : \E hs, H, N, G :
         Linked(hs, H, N, b) /\ Len(parts) = b + 1 /\ Listing(succs, cdn, parts, H, N, G, b)
  BY DEF Lists
<1>2. PICK hs, H, N, G : Linked(hs, H, N, b) /\ Len(parts) = b + 1 /\ Listing(succs, cdn, parts, H, N, G, b) BY <1>1
<1>3. PICK p \in Nat : p = l - 1 OBVIOUS
<1>4. Kept(p) /\ succs' = succs /\ \A y \in Node : cdn'[y] = IF y = x THEN UINT_MAX ELSE cdn[y]
  BY <1>3 DEF PopPlaced, Kept
<1>5. SameOpen
  <2>1. \A i \in Nat : Opened(i) => i <= p BY <1>3
  <2> QED BY <2>1, <1>4, KeptOpen
<1>6. PICK g, c, P, d, Q, E : /\ g = succs /\ c = cdn /\ P = parts /\ d = cdn' /\ Q = parts'
                              /\ E = <<[node |-> x, head |-> FALSE, depth |-> <<>>]>>
  OBVIOUS
<1>7. /\ Q \in Seq(Seq(Entry)) /\ Len(Q) = b + 1
      /\ \A j \in 1..b : Q[j] = P[j]
      /\ Q[b + 1] = E \o P[b + 1]
  <2>1. E \in Seq(Entry) BY <1>6, SingleEntry
  <2>2. P \in Seq(Seq(Entry)) /\ Len(P) = b + 1 BY <1>2, <1>6 DEF Lists
  <2>3. Q = Append(Front(P), E \o Last(P)) BY <1>6 DEF pushFront
  <2>4. Replaced(P, b, E \o P[b + 1], Q) BY <2>1, <2>2, <2>3, LastReplaced
  <2> QED BY <2>4 DEF Replaced
<1>8. Listing(g, c, P, H, N, G, b) BY <1>2, <1>6
<1>9. c[x] # 0 /\ c[x] # UINT_MAX /\ \A y \in Node : d[y] = IF y = x THEN UINT_MAX ELSE c[y]
  BY <1>4, <1>6 DEF OnStack
<1>10. ~Edge(g, x, x) BY <1>9, <1>6 DEF Edge, Follows, IsPlaced
<1>11. ASSUME NEW z \in Node, c[z] = UINT_MAX, \A k \in 1..b : z # H[k] PROVE ~Edge(g, z, x)
  <2>1. \A k \in Nat : Opened(k) => z # NodeOf(k) BY <1>2, <1>11 DEF Linked
  <2>2. \A y \in Node : Follows(z, y) => IsPlaced(y) BY <2>1, <1>6, <1>11 DEF Dfs, Finished, IsPlaced
  <2> QED BY <2>2, <1>6, <1>9 DEF Edge, Follows, IsPlaced
<1>12. ASSUME NEW k \in 1..b PROVE N[k] < c[x]
  <2>1. Opened(hs[k]) /\ hs[k] \in Nat /\ N[k] = HeadOf(hs[k]) BY <1>2 DEF Linked
  <2>2. hs[k] < l /\ Visiting(l) /\ Visiting(hs[k]) BY <2>1 DEF Active, Opened
  <2>3. Nr(hs[k]) < Nr(l) BY <2>1, <2>2 DEF Dfs, PathRight
  <2> QED BY <2>1, <2>3, <1>6 DEF Nr, Active
<1>13. Q[b + 1] = <<[node |-> x, head |-> FALSE, depth |-> <<>>]>> \o P[b + 1] BY <1>6, <1>7
<1>14. \A j \in 1..b : Q[j] = P[j] BY <1>7
<1>15. x \in Node OBVIOUS
<1>16. Listing(g, d, Q, H, N, G, b)
  BY ONLY <1>8, <1>9, <1>10, <1>11, <1>12, <1>13, <1>14, <1>15, ListPlace
<1>17. Linked(hs, H, N, b)' BY <1>2, <1>5, LinkedKeeps
<1>18. Listing(succs', cdn', parts', H, N, G, b) BY <1>4, <1>6, <1>16
<1>19. Len(parts') = b + 1 /\ parts' \in Seq(Seq(Entry)) BY <1>6, <1>7
<1> QED BY <1>17, <1>18, <1>19 DEF Lists

LEMMA OpenLists ==
    ASSUME Typed, NEW e, Dfs(e), Lists, NEW l, NEW n, Opens(l, n), parts' = Append(parts, <<>>)
    PROVE  Lists'
<1>1. PICK b \in Nat : \E hs, H, N, G :
         Linked(hs, H, N, b) /\ Len(parts) = b + 1 /\ Listing(succs, cdn, parts, H, N, G, b)
  BY DEF Lists
<1>2. PICK hs, H, N, G : Linked(hs, H, N, b) /\ Len(parts) = b + 1 /\ Listing(succs, cdn, parts, H, N, G, b) BY <1>1
<1>3. /\ l \in Nat /\ l = Len(frames) /\ l > 0 /\ n \in Node /\ n = NodeOf(l) /\ succs' = succs
      /\ Active(l) /\ Visiting(l) /\ HeadOf(l) = cdn[n] /\ Nr(l) = cdn[n] /\ OnStack(n) /\ cdn[n] \in Nat
      /\ \A y \in Node : cdn'[y] = IF y = n THEN UINT_MAX
                                   ELSE IF OnStack(y) /\ cdn[n] < cdn[y] THEN 0 ELSE cdn[y]
  <2>1. /\ l \in Nat /\ l = Len(frames) /\ l > 0 /\ n \in Node /\ n = NodeOf(l) /\ succs' = succs
        /\ Active(l) /\ HeadOf(l) = cdn[n]
        /\ \A y \in Node : cdn'[y] = IF y = n THEN UINT_MAX
                                     ELSE IF OnStack(y) /\ cdn[n] < cdn[y] THEN 0 ELSE cdn[y]
    BY DEF Opens
  <2>2. Visiting(l) /\ Nr(l) = cdn[n] BY <2>1 DEF Active, Nr
  <2>3. OnStack(n) BY <2>1 DEF Dfs, Framed
  <2>4. cdn[n] \in Nat BY <2>1, CallTypes
  <2> QED BY <2>1, <2>2, <2>3, <2>4
<1>4. PICK g, c, P, d, Q, S : /\ g = succs /\ c = cdn /\ P = parts /\ d = cdn' /\ Q = parts'
                              /\ S = From(cdn[n])
  OBVIOUS
<1>5. c \in [Node -> Nat] BY <1>4 DEF Typed
<1>6. /\ c[n] # 0 /\ c[n] # UINT_MAX
      /\ \A y \in Node : d[y] = IF y = n THEN UINT_MAX
                                ELSE IF c[y] # 0 /\ c[y] # UINT_MAX /\ c[n] < c[y] THEN 0 ELSE c[y]
      /\ S = {y \in Node : c[y] # 0 /\ c[y] # UINT_MAX /\ c[n] <= c[y]}
  BY <1>3, <1>4 DEF OnStack, From
<1>7. Joined(g, S) /\ \E u \in S : Edge(g, u, n)
  <2>1. Connected(S) /\ \E u \in S : Follows(u, n) BY <1>4, CycleConnects
  <2> QED BY <2>1, <1>4 DEF Connected, Joined, Follows, Edge
<1>8. ASSUME NEW x \in S, NEW y \in Node, Edge(g, x, y) PROVE y \in S \/ c[y] = UINT_MAX
  <2>1. x \in From(cdn[n]) /\ Follows(x, y) BY <1>4, <1>8 DEF Edge, Follows
  <2>2. y \in From(cdn[n]) \/ IsPlaced(y) BY <2>1, CycleCloses
  <2> QED BY <2>2, <1>4 DEF IsPlaced
<1>9. \A x, y \in Node : c[x] # 0 /\ c[x] # UINT_MAX /\ c[x] = c[y] => x = y
  BY <1>4 DEF Dfs, Numbered, OnStack
<1>10. ASSUME NEW z \in Node, c[z] = UINT_MAX, \A k \in 1..b : z # H[k] PROVE ~Edge(g, z, n)
  <2>1. \A k \in Nat : Opened(k) => z # NodeOf(k) BY <1>2, <1>10 DEF Linked
  <2>2. \A y \in Node : Follows(z, y) => IsPlaced(y) BY <2>1, <1>4, <1>10 DEF Dfs, Finished, IsPlaced
  <2> QED BY <2>2, <1>3, <1>4, <1>6 DEF Edge, Follows, IsPlaced
<1>11. \A i \in Nat : Opened(i) => i < l BY <1>3 DEF Opened
<1>12. ASSUME NEW k \in 1..b PROVE N[k] < c[n]
  <2>1. Opened(hs[k]) /\ hs[k] \in Nat /\ N[k] = HeadOf(hs[k]) BY <1>2 DEF Linked
  <2>2. hs[k] < l /\ Visiting(hs[k]) BY <2>1, <1>11 DEF Opened
  <2>3. Nr(hs[k]) < Nr(l) BY <2>1, <2>2, <1>3 DEF Dfs, PathRight
  <2> QED BY <2>1, <2>3, <1>3, <1>4 DEF Nr
<1>13. /\ Q \in Seq(Seq(Entry)) /\ Len(Q) = b + 2
       /\ (\A j \in 1..(b + 1) : Q[j] = P[j]) /\ Q[b + 2] = <<>>
  <2>1. P \in Seq(Seq(Entry)) /\ Len(P) = b + 1 /\ Q = Append(P, <<>>) BY <1>2, <1>4 DEF Lists
  <2>2. PICK L : L = <<>> OBVIOUS
  <2>3. L \in Seq(Entry) /\ Q = Append(P, L) BY <2>1, <2>2, EmptySeq
  <2>4. Q \in Seq(Seq(Entry)) /\ Len(Q) = Len(P) + 1 /\ (\A j \in 1..Len(P) : Q[j] = P[j]) /\ Q[Len(P) + 1] = L
    BY <2>1, <2>3, AppendProperties
  <2>5. Len(P) + 1 = b + 2 BY <2>1
  <2> QED BY <2>1, <2>2, <2>4, <2>5
<1>14. PICK hs2, H2, N2, G2 :
         /\ hs2 = [k \in 1..(b + 1) |-> IF k = b + 1 THEN l ELSE hs[k]]
         /\ H2 = [k \in 1..(b + 1) |-> IF k = b + 1 THEN n ELSE H[k]]
         /\ N2 = [k \in 1..(b + 1) |-> IF k = b + 1 THEN c[n] ELSE N[k]]
         /\ G2 = [k \in 1..(b + 1) |-> IF k = b + 1 THEN S ELSE G[k]]
  OBVIOUS
<1>15. /\ \A k \in 1..b : H2[k] = H[k] /\ N2[k] = N[k] /\ G2[k] = G[k]
       /\ H2[b + 1] = n /\ N2[b + 1] = c[n] /\ G2[b + 1] = S
       /\ \A k \in 1..b : hs2[k] = hs[k]
       /\ hs2[b + 1] = l
       /\ \A k \in 1..(b + 1) : k \in 1..b \/ k = b + 1
  BY <1>14
<1>16. Listing(g, c, P, H, N, G, b) BY <1>2, <1>4
<1>17. n \in Node BY <1>3
<1>18. Listing(g, d, Q, H2, N2, G2, b + 1)
  <2>1. Opening(g, c, P, H, N, G, b, d, n, S, Q, H2, N2, G2)
    BY ONLY <1>5, <1>6, <1>7, <1>8, <1>9, <1>10, <1>12, <1>13, <1>15, <1>17 DEF Opening
  <2> QED BY ONLY <2>1, <1>16, ListOpens
<1>19. Linked(hs2, H2, N2, b + 1)'
  <2>1. \A k \in 1..b : hs[k] \in Nat /\ Opened(hs[k]) /\ H[k] = NodeOf(hs[k]) /\ N[k] = HeadOf(hs[k]) /\ hs[k] < l
    BY <1>2, <1>11 DEF Linked
  <2>2. \A i \in Nat : (Opened(i)' <=> Opened(i) \/ i = l) /\ (Opened(i) => i \in 1..l) BY <1>3 DEF Opens, Opened, Visiting
  <2>3. \A i \in 1..l : NodeOf(i)' = NodeOf(i) /\ HeadOf(i)' = HeadOf(i) BY DEF Opens
  <2>4. l \in 1..l BY <1>3
  <2>5. \A k \in 1..(b + 1) : hs2[k] \in Nat /\ Opened(hs2[k])' /\ H2[k] = NodeOf(hs2[k])' /\ N2[k] = HeadOf(hs2[k])'
    <3>1. ASSUME NEW k \in 1..b PROVE hs2[k] \in Nat /\ Opened(hs2[k])' /\ H2[k] = NodeOf(hs2[k])' /\ N2[k] = HeadOf(hs2[k])'
      <4>1. hs[k] \in 1..l /\ Opened(hs[k])' BY <2>1, <2>2
      <4>2. NodeOf(hs[k])' = NodeOf(hs[k]) /\ HeadOf(hs[k])' = HeadOf(hs[k]) BY <4>1, <2>3
      <4> QED BY <4>1, <4>2, <2>1, <1>15
    <3>2. hs2[b + 1] \in Nat /\ Opened(hs2[b + 1])' /\ H2[b + 1] = NodeOf(hs2[b + 1])' /\ N2[b + 1] = HeadOf(hs2[b + 1])'
      <4>1. Opened(l)' /\ NodeOf(l)' = n /\ HeadOf(l)' = c[n] BY <2>2, <2>3, <2>4, <1>3, <1>4
      <4> QED BY <4>1, <1>3, <1>15
    <3> QED BY <3>1, <3>2, <1>15
  <2>6. ASSUME NEW k \in 1..(b + 1), NEW m \in 1..(b + 1), k < m PROVE hs2[k] < hs2[m]
    <3>1. k \in 1..b BY <2>6
    <3>2. CASE m \in 1..b BY <3>1, <3>2, <2>6, <1>2, <1>15 DEF Linked
    <3>3. CASE m = b + 1 BY <3>1, <3>3, <2>1, <1>15
    <3> QED BY <3>2, <3>3, <1>15
  <2>7. ASSUME NEW i \in Nat, Opened(i)' PROVE \E k \in 1..(b + 1) : hs2[k] = i
    <3>1. CASE i = l BY <3>1, <1>15
    <3>2. CASE Opened(i)
      <4>1. PICK k \in 1..b : hs[k] = i BY <3>2, <1>2 DEF Linked
      <4>2. k \in 1..(b + 1) BY <4>1
      <4> QED BY <4>1, <4>2, <1>15
    <3> QED BY <3>1, <3>2, <2>2, <2>7
  <2> QED BY <2>5, <2>6, <2>7 DEF Linked
<1>20. Listing(succs', cdn', parts', H2, N2, G2, b + 1) BY <1>3, <1>4, <1>18
<1>21. Len(parts') = (b + 1) + 1 /\ parts' \in Seq(Seq(Entry)) /\ b + 1 \in Nat BY <1>4, <1>13
<1> QED BY <1>19, <1>20, <1>21 DEF Lists

LEMMA CloseLists ==
    ASSUME Typed, NEW e, Dfs(e), Lists, cdn' = cdn, NEW k \in Nat, NEW x \in Node,
           k > 0, Opened(k), x = NodeOf(k), PopPlaced(k - 1, x),
           \A i \in Nat : Opened(i) => i <= k,
           \A y \in Node : Follows(x, y) => IsPlaced(y),
           parts' = Append(Front(Front(parts)), Cycle(x, Last(parts)) \o Last(Front(parts)))
    PROVE  Lists'
<1>1. PICK b \in Nat : \E hs, H, N, G :
         Linked(hs, H, N, b) /\ Len(parts) = b + 1 /\ Listing(succs, cdn, parts, H, N, G, b)
  BY DEF Lists
<1>2. PICK hs, H, N, G : Linked(hs, H, N, b) /\ Len(parts) = b + 1 /\ Listing(succs, cdn, parts, H, N, G, b) BY <1>1
<1>3. PICK p \in Nat : p = k - 1 /\ p + 1 = k OBVIOUS
<1>4. Kept(p) /\ succs' = succs BY <1>3 DEF PopPlaced, Kept
<1>5. b > 0 /\ hs[b] = k
  <2>1. PICK m \in 1..b : hs[m] = k BY <1>2 DEF Linked
  <2>2. b > 0 /\ b \in 1..b BY <2>1
  <2>3. ~(m < b)
    <3> SUFFICES ASSUME m < b PROVE FALSE OBVIOUS
    <3>1. hs[m] < hs[b] /\ hs[b] \in Nat /\ Opened(hs[b]) BY <2>2, <1>2 DEF Linked
    <3> QED BY <3>1, <2>1
  <2>4. m = b BY <2>1, <2>3
  <2> QED BY <2>1, <2>2, <2>4
<1>6. PICK a \in Nat : a = b - 1 /\ a + 1 = b /\ b \in 1..b /\ \A m \in 1..a : m \in 1..b /\ m < b BY <1>5
<1>7. PICK g, c, P, Q : g = succs /\ c = cdn /\ P = parts /\ Q = parts' OBVIOUS
<1>8. /\ Q \in Seq(Seq(Entry)) /\ Len(Q) = b
      /\ \A j \in 1..(b - 1) : Q[j] = P[j]
      /\ Q[b] = Cycle(x, P[b + 1]) \o P[b]
  <2>1. P \in Seq(Seq(Entry)) /\ Len(P) = b + 1 BY <1>2, <1>7 DEF Lists
  <2>2. Q = Append(Front(Front(P)), Cycle(x, Last(P)) \o Last(Front(P))) BY <1>7
  <2>3. Replaced(P, b - 1, Cycle(x, P[b + 1]) \o P[b], Q) BY <2>1, <2>2, <1>5, LastTwoReplaced
  <2>4. PICK L : L = Cycle(x, P[b + 1]) \o P[b] OBVIOUS
  <2>5. Replaced(P, b - 1, L, Q) /\ (b - 1) + 1 = b BY <2>3, <2>4
  <2> QED BY <2>4, <2>5 DEF Replaced
<1>9. Listing(g, c, P, H, N, G, b) BY <1>2, <1>7
<1>10. x = H[b] BY <1>2, <1>5, <1>6 DEF Linked
<1>11. ASSUME NEW z \in Node, c[z] = UINT_MAX, \A m \in 1..b : z # H[m], NEW y \in Node, Edge(g, z, y) PROVE c[y] = UINT_MAX
  <2>1. \A i \in Nat : Opened(i) => z # NodeOf(i) BY <1>2, <1>11 DEF Linked
  <2>2. \A w \in Node : Follows(z, w) => IsPlaced(w) BY <2>1, <1>7, <1>11 DEF Dfs, Finished, IsPlaced
  <2> QED BY <2>2, <1>7, <1>11 DEF Edge, Follows, IsPlaced
<1>12. \A y \in Node : Edge(g, x, y) => c[y] = UINT_MAX BY <1>7 DEF Edge, Follows, IsPlaced
<1>13. \A z \in Node : Range(g[z]) \subseteq Node
  <2>1. \A z \in Node : g[z] \in Seq(Node) BY <1>7 DEF Typed
  <2> QED BY <2>1, RangeOfSeq
<1>14. \A z \in Node : c[z] = UINT_MAX /\ (\A m \in 1..b : z # H[m]) => \A y \in Node : Edge(g, z, y) => c[y] = UINT_MAX
  BY <1>11
<1>15. Listing(g, c, Q, H, N, G, b - 1)
  BY ONLY <1>5, <1>8, <1>9, <1>10, <1>12, <1>13, <1>14, ListClose
<1>16. Linked(hs, H, N, a)'
  <2>1. \A m \in 1..b : hs[m] \in Nat /\ Opened(hs[m]) /\ H[m] = NodeOf(hs[m]) /\ N[m] = HeadOf(hs[m]) BY <1>2 DEF Linked
  <2>2. \A i \in Nat : Opened(i)' <=> Opened(i) /\ i <= p BY <1>4 DEF Kept
  <2>3. ASSUME NEW m \in 1..a PROVE hs[m] \in Nat /\ Opened(hs[m])' /\ H[m] = NodeOf(hs[m])' /\ N[m] = HeadOf(hs[m])'
    <3>1. hs[m] < k BY <1>2, <1>5, <1>6 DEF Linked
    <3>2. hs[m] <= p /\ hs[m] \in Nat /\ Opened(hs[m]) BY <3>1, <2>1, <1>3, <1>6
    <3>3. hs[m] # p BY <3>2, <1>4 DEF Kept
    <3>4. hs[m] \in 1..p BY <3>2, CallTypes DEF Opened
    <3>5. NodeOf(hs[m])' = NodeOf(hs[m]) /\ HeadOf(hs[m])' = HeadOf(hs[m]) BY <3>3, <3>4, <1>4 DEF Kept
    <3>6. Opened(hs[m])' BY <3>2, <2>2
    <3> QED BY <3>2, <3>5, <3>6, <2>1, <1>6
  <2>4. \A m, q \in 1..a : m < q => hs[m] < hs[q] BY <1>2, <1>6 DEF Linked
  <2>5. ASSUME NEW i \in Nat, Opened(i)' PROVE \E m \in 1..a : hs[m] = i
    <3>1. Opened(i) /\ i <= p BY <2>2, <2>5
    <3>2. PICK m \in 1..b : hs[m] = i BY <3>1, <1>2 DEF Linked
    <3>3. m # b BY <3>1, <3>2, <1>3, <1>5
    <3>4. m \in 1..a BY <3>2, <3>3, <1>6
    <3> QED BY <3>2, <3>4
  <2> QED BY <2>3, <2>4, <2>5 DEF Linked
<1>17. Listing(succs', cdn', parts', H, N, G, a) BY <1>4, <1>6, <1>7, <1>15
<1>18. Len(parts') = a + 1 /\ parts' \in Seq(Seq(Entry)) BY <1>6, <1>7, <1>8
<1> QED BY <1>16, <1>17, <1>18 DEF Lists

LEMMA StepKeepsOrder ==
    ASSUME NEW e, WTORight(e), WTOStep, succs' = succs, num' < UINT_MAX
    PROVE  WTORight(e)'
<1>1. Typed /\ Stacked /\ Dfs(e) /\ Lists BY DEF WTORight
<1>2. AllSealed BY <1>1, ListsSeal
<1>3. CASE Descend
  <2>1. Typed' /\ Stacked' /\ Dfs(e)' /\ parts' = parts /\ \E l, x : Descends(l, x) BY <1>1, <1>3, DescendRight
  <2>2. Lists' BY <1>1, <2>1, DescendLists
  <2> QED BY <2>1, <2>2 DEF WTORight
<1>4. CASE Skip
  <2>1. Typed' /\ Stacked' /\ Dfs(e)' /\ SameOpen BY <1>1, <1>2, <1>4, SkipKeeps
  <2>2. cdn' = cdn /\ parts' = parts BY <1>4 DEF Skip
  <2>3. Lists' BY <1>1, <2>1, <2>2, SkipLists
  <2> QED BY <2>1, <2>3 DEF WTORight
<1>5. CASE Leave
  <2>1. Typed' /\ Stacked' /\ Dfs(e)' /\ SameOpen BY <1>1, <1>5, LeaveKeeps
  <2>2. cdn' = cdn /\ parts' = parts BY <1>5 DEF Leave
  <2>3. Lists' BY <1>1, <2>1, <2>2, SkipLists
  <2> QED BY <2>1, <2>3 DEF WTORight
<1>6. CASE PlaceNode
  <2>1. /\ Typed' /\ Stacked' /\ Dfs(e)'
        /\ \E l \in Nat, x \in Node :
             /\ l > 0 /\ Active(l) /\ x = NodeOf(l) /\ PopPlaced(l - 1, x) /\ OnStack(x)
             /\ \A i \in Nat : Opened(i) => i < l
             /\ \A y \in Node : Follows(x, y) => IsPlaced(y)
             /\ parts' = pushFront([node |-> x, head |-> FALSE, depth |-> <<>>])
    BY <1>1, <1>6, PlaceKeeps
  <2>2. PICK l \in Nat, x \in Node :
             /\ l > 0 /\ Active(l) /\ x = NodeOf(l) /\ PopPlaced(l - 1, x) /\ OnStack(x)
             /\ \A i \in Nat : Opened(i) => i < l
             /\ \A y \in Node : Follows(x, y) => IsPlaced(y)
             /\ parts' = pushFront([node |-> x, head |-> FALSE, depth |-> <<>>])
    BY <2>1
  <2>3. Lists' BY <1>1, <2>2, PlaceLists
  <2> QED BY <2>1, <2>3 DEF WTORight
<1>7. CASE OpenCycle
  <2>1. Typed' /\ Stacked' /\ Dfs(e)' /\ \E l, n : Opens(l, n) /\ parts' = Append(parts, <<>>)
    BY <1>1, <1>7, OpenRight
  <2>2. Lists' BY <1>1, <2>1, OpenLists
  <2> QED BY <2>1, <2>2 DEF WTORight
<1>8. CASE CloseCycle
  <2>1. /\ Typed' /\ Stacked' /\ Dfs(e)' /\ cdn' = cdn
        /\ \E k \in Nat, x \in Node :
             /\ k > 0 /\ k + 1 = Len(frames) /\ Opened(k) /\ x = NodeOf(k) /\ PopPlaced(k - 1, x)
             /\ \A i \in Nat : Opened(i) => i <= k
             /\ \A y \in Node : Follows(x, y) => IsPlaced(y)
             /\ \A y \in Node : OnStack(y) => cdn[y] < Nr(k)
             /\ parts' = Append(Front(Front(parts)), Cycle(x, Last(parts)) \o Last(Front(parts)))
    BY <1>1, <1>8, CloseRight
  <2>2. PICK k \in Nat, x \in Node :
             /\ k > 0 /\ Opened(k) /\ x = NodeOf(k) /\ PopPlaced(k - 1, x)
             /\ \A i \in Nat : Opened(i) => i <= k
             /\ \A y \in Node : Follows(x, y) => IsPlaced(y)
             /\ parts' = Append(Front(Front(parts)), Cycle(x, Last(parts)) \o Last(Front(parts)))
    BY <2>1
  <2>3. Lists' BY <1>1, <2>1, <2>2, CloseLists
  <2> QED BY <2>1, <2>3 DEF WTORight
<1> QED BY <1>3, <1>4, <1>5, <1>6, <1>7, <1>8 DEF WTOStep

LEMMA StartKeepsOrder ==
    ASSUME succs \in [Node -> Seq(Node)], NEW e \in Node, Start(e), succs' = succs, num' < UINT_MAX
    PROVE  WTORight(e)'
<1>1. PICK v, F, S, P : v = Visit(e, 1) /\ F = frames' /\ S = stack' /\ P = parts' OBVIOUS
<1>2. /\ num' = 1 /\ cdn' = [m \in Node |-> IF m = e THEN 1 ELSE 0]
      /\ S = <<e>> /\ F = <<v>> /\ P = <<<<>>>>
  BY <1>1 DEF Start
<1>3. v \in CallFrame /\ v.at = "visit" /\ v.node = e /\ v.todo = succs[e] /\ v.head = 1 /\ v.loop = FALSE
  <2>1. succs[e] \in Seq(Node) OBVIOUS
  <2> QED BY <2>1, <1>1 DEF Visit, CallFrame
<1>4. F \in Seq(CallFrame) /\ Len(F) = 1 /\ F[1] = v /\ F # <<>> BY <1>2, <1>3
<1>5. S \in Seq(Node) /\ Len(S) = 1 /\ S[1] = e BY <1>2
<1>6. UINT_MAX # 1 /\ UINT_MAX # 0 /\ 1 < UINT_MAX BY <1>2, WTOAssumption
<1>7. /\ cdn' \in [Node -> Nat]
      /\ \A x \in Node : (OnStack(x)' <=> x = e) /\ ~IsPlaced(x)' /\ (cdn'[x] # 0 => x = e)
      /\ cdn'[e] = 1
  BY <1>2, <1>6 DEF OnStack, IsPlaced
<1>8. \A i \in Nat : (Visiting(i)' <=> i = 1) /\ ~Opened(i)' /\ (Active(i)' <=> i = 1)
  <2>1. \A i \in Nat : Visiting(i)' <=> i = 1 BY <1>1, <1>3, <1>4 DEF Visiting
  <2>2. \A i \in Nat : ~Opened(i)' BY <2>1, <1>1, <1>4 DEF Opened
  <2> QED BY <2>1, <2>2 DEF Active
<1>9. /\ NodeOf(1)' = e /\ HeadOf(1)' = 1 /\ ~Loops(1)' /\ \A x : Due(1, x)' <=> Follows(e, x)
      /\ Len(frames)' = 1 /\ frames' # <<>>
  BY <1>1, <1>3, <1>4 DEF NodeOf, HeadOf, Loops, Due, Follows
<1>10. Nr(1)' = 1 BY <1>7, <1>8, <1>9 DEF Nr
<1>11. \A x, y : Follows(x, y)' <=> Follows(x, y) BY DEF Follows
<1>12. Typed' BY <1>1, <1>2, <1>4, <1>5, <1>6, <1>7 DEF Typed
<1>13. Stacked' BY <1>1, <1>5, <1>7 DEF Stacked
<1>14. Numbered' BY <1>2, <1>7 DEF Numbered
<1>15. Framed(e)'
  <2>1. \A i \in 1..Len(frames)' : i = 1 /\ Visiting(i)' /\ ~Visiting(i + 1)' BY <1>8, <1>9
  <2>2. \A y \in Node : OnStack(y)' => Nr(1)' <= cdn'[y] BY <1>7, <1>10
  <2>3. \A i \in 1..Len(frames)' : \A x \in Node : Due(i, x)' => Follows(NodeOf(i), x)' BY <2>1, <1>9, <1>11
  <2>4. \A i \in Nat : Active(i)' => OnStack(NodeOf(i))' BY <1>7, <1>8, <1>9 DEF OnStack
  <2> QED BY <2>1, <2>2, <2>3, <2>4, <1>8, <1>9 DEF Framed
<1>16. PathRight' BY <1>8 DEF PathRight
<1>17. HeadRight'
  <2>1. HeadReached(1)'
    <3>1. OnStack(e)' /\ cdn'[e] = HeadOf(1)' BY <1>7, <1>9
    <3>2. Inside(succs, From(HeadOf(1)), NodeOf(1), e)' BY <1>9 DEF Inside
    <3> QED BY <3>1, <3>2 DEF HeadReached
  <2> QED BY <2>1, <1>7, <1>8, <1>9 DEF HeadRight
<1>18. LoopRight' BY <1>8, <1>9 DEF LoopRight
<1>19. LowLink' BY <1>7, <1>8, <1>9, <1>11 DEF LowLink, Under
<1>20. Explored' BY <1>7, <1>8, <1>9, <1>11 DEF Explored
<1>21. Quiet' BY <1>7, <1>8, <1>9, <1>11 DEF Quiet, Under
<1>22. Settled' BY <1>8 DEF Settled
<1>23. Down'
  <2>1. ASSUME NEW y \in From(cdn[NodeOf(1)])' PROVE Inside(succs, From(cdn[NodeOf(1)]), NodeOf(1), y)'
    <3>1. y = e BY <2>1, <1>7 DEF From
    <3> QED BY <3>1, <1>9 DEF Inside
  <2> QED BY <2>1, <1>8 DEF Down
<1>24. Up' BY <1>7, <1>8, <1>9 DEF Up, UpTo
<1>25. Finished' BY <1>7 DEF Finished
<1>26. Reached(e)'
  <2>1. (e \in ReachableFrom(e))' BY DEF ReachableFrom
  <2> QED BY <2>1, <1>7, <1>9 DEF Reached
<1>27. Dfs(e)'
  BY <1>14, <1>15, <1>16, <1>17, <1>18, <1>19, <1>20, <1>21, <1>22, <1>23, <1>24, <1>25, <1>26 DEF Dfs
<1>28. Lists'
  <2>1. P \in Seq(Seq(Entry)) /\ Len(P) = 0 + 1 /\ P[1] = <<>>
    <3>1. PICK L, T : L = <<>> /\ T = Seq(Entry) OBVIOUS
    <3>2. L \in T BY <3>1, EmptySeq
    <3>3. P = <<L>> BY <1>2, <3>1
    <3>4. P \in Seq(T) /\ Len(P) = 1 /\ P[1] = L BY <3>2, <3>3
    <3> QED BY <3>1, <3>4
  <2>2. PICK g, d, hs : g = succs' /\ d = cdn' /\ hs = <<>> OBVIOUS
  <2>3. Ordered(g, <<>>) /\ NodesOf(<<>>) = {} BY OrderedEmpty
  <2>4. \A x \in Node : d[x] # UINT_MAX BY <2>2, <1>7 DEF IsPlaced
  <2>5. Listing(g, d, P, hs, hs, hs, 0)
    <3>1. \A j \in 1..(0 + 1) : Ordered(g, P[j]) /\ NodesOf(P[j]) = {} /\ j = 1 BY <2>1, <2>3
    <3>2. \A k \in 1..0 : FALSE OBVIOUS
    <3>3. ListedOnce(d, P, hs, 0) BY <3>1, <3>2, <2>4 DEF ListedOnce
    <3>4. Apart(P, hs, 0) BY <3>1, <3>2 DEF Apart
    <3>5. NoneBack(g, P, hs, 0) BY <3>1, <3>2 DEF NoneBack
    <3> QED BY <3>1, <3>2, <3>3, <3>4, <3>5 DEF Listing
  <2>6. Linked(hs, hs, hs, 0)' BY <1>8 DEF Linked
  <2>7. Listing(succs', cdn', parts', hs, hs, hs, 0) BY <2>2, <2>5, <1>1
  <2>8. parts' \in Seq(Seq(Entry)) /\ Len(parts') = 0 + 1 BY <2>1, <1>1
  <2> QED BY <2>6, <2>7, <2>8 DEF Lists
<1> QED BY <1>12, <1>13, <1>27, <1>28 DEF WTORight

\* The finished list.
LEMMA DoneOrder ==
    ASSUME NEW e \in Node, WTORight(e), done
    PROVE  /\ Ordered(succs, result) /\ Placed = NodesOf(result) /\ DOMAIN result = 1..Len(result)
           /\ Placed = ReachableFrom(e)
<1>1. Typed /\ Stacked /\ Dfs(e) /\ Lists BY DEF WTORight
<1>2. frames = <<>> /\ Len(frames) = 0 BY DEF done
<1>3. \A i \in Nat : ~Visiting(i) /\ ~Opened(i) BY <1>2 DEF Visiting, Opened
<1>4. PICK b \in Nat : \E hs, H, N, G :
         Linked(hs, H, N, b) /\ Len(parts) = b + 1 /\ Listing(succs, cdn, parts, H, N, G, b)
  BY <1>1 DEF Lists
<1>5. PICK hs, H, N, G : Linked(hs, H, N, b) /\ Len(parts) = b + 1 /\ Listing(succs, cdn, parts, H, N, G, b) BY <1>4
<1>6. b = 0
  <2> SUFFICES ASSUME b # 0 PROVE FALSE OBVIOUS
  <2>1. 1 \in 1..b OBVIOUS
  <2>2. Opened(hs[1]) /\ hs[1] \in Nat BY <2>1, <1>5 DEF Linked
  <2> QED BY <2>2, <1>3
<1>7. Ordered(succs, result) /\ \A x \in Node : cdn[x] = UINT_MAX <=> x \in NodesOf(result)
  <2>1. Listing(succs, cdn, parts, H, N, G, 0) BY <1>5, <1>6
  <2>2. 1 \in 1..(0 + 1) /\ (\A j \in 1..(0 + 1) : j = 1) /\ \A k \in 1..0 : FALSE OBVIOUS
  <2>3. Ordered(succs, parts[1]) BY <2>1, <2>2 DEF Listing
  <2>4. \A x \in Node : cdn[x] = UINT_MAX <=> x \in NodesOf(parts[1]) BY <2>1, <2>2 DEF Listing, ListedOnce
  <2> QED BY <2>3, <2>4 DEF result
<1>8. PICK R : R = result OBVIOUS
<1>9. R \in Seq(Entry) /\ Len(R) \in Nat /\ DOMAIN R = 1..Len(R) /\ NodesOf(R) \subseteq Node
  <2>1. R \in Seq(Entry) BY <1>7, <1>8 DEF Ordered
  <2> QED BY <2>1, EntryParts
<1>10. Placed = NodesOf(R) BY <1>8, <1>9 DEF Placed, NodesOf
<1>11. e \in NodesOf(R) BY <1>1, <1>2, <1>7, <1>8 DEF Dfs, Framed, IsPlaced
<1>12. ASSUME NEW k \in NodesOf(R), NEW x \in Range(succs[k]) PROVE x \in NodesOf(R)
  <2>1. k \in Node /\ IsPlaced(k) BY <1>7, <1>8, <1>9 DEF IsPlaced
  <2>2. x \in Node
    <3>1. succs[k] \in Seq(Node) BY <2>1, <1>1 DEF Typed
    <3> QED BY <3>1, RangeOfSeq
  <2>3. IsPlaced(x) BY <2>1, <2>2, <1>1, <1>3, <1>12 DEF Dfs, Finished, Follows
  <2> QED BY <2>2, <2>3, <1>7, <1>8 DEF IsPlaced
<1>13. ReachableFrom(e) \subseteq NodesOf(R)
  BY <1>9, <1>11, <1>12 DEF ReachableFrom
<1>14. NodesOf(R) \subseteq ReachableFrom(e)
  <2>1. \A x \in NodesOf(R) : x \in Node /\ cdn[x] # 0 BY <1>7, <1>8, <1>9, WTOAssumption
  <2> QED BY <2>1, <1>1 DEF Dfs, Reached
<1> QED BY <1>7, <1>8, <1>9, <1>10, <1>13, <1>14

LEMMA DistinctCount ==
    ASSUME NEW L \in Seq(Entry), \A i, j \in 1..Len(L) : L[i].node = L[j].node => i = j
    PROVE  Cardinality(NodesOf(L)) = Len(L)
<1>1. Len(L) \in Nat BY LenProperties
<1> DEFINE f == [i \in 1..Len(L) |-> L[i].node]
<1>2. PICK g, T : g = f /\ T = NodesOf(L) OBVIOUS
<1>3. DOMAIN g = 1..Len(L) /\ \A i \in 1..Len(L) : g[i] = L[i].node BY <1>2
<1>4. T = {L[i].node : i \in 1..Len(L)}
  <2>1. DOMAIN L = 1..Len(L) BY LenProperties
  <2> QED BY <2>1, <1>2 DEF NodesOf
<1>5. g \in [1..Len(L) -> T]
  <2>1. g = [i \in 1..Len(L) |-> g[i]] BY <1>2
  <2>2. \A i \in 1..Len(L) : g[i] \in T BY <1>3, <1>4
  <2> QED BY <2>1, <2>2
<1>6. IsInjective(g)
  BY <1>3 DEF IsInjective
<1>7. \A t \in T : \E i \in 1..Len(L) : g[i] = t BY <1>3, <1>4
<1>8. g \in Injection(1..Len(L), T) BY <1>5, <1>6 DEF Injection
<1>9. g \in Surjection(1..Len(L), T) BY <1>5, <1>7 DEF Surjection
<1>10. IsFiniteSet(1..Len(L)) /\ Cardinality(1..Len(L)) = Len(L)
  <2>1. PICK n : n = Len(L) /\ n \in Nat BY <1>1
  <2>2. 1 \in Int /\ n \in Int BY <2>1
  <2>3. IsFiniteSet(1..n) /\ Cardinality(1..n) = IF 1 > n THEN 0 ELSE n-1+1 BY ONLY <2>2, FS_Interval
  <2> QED BY <2>1, <2>3
<1>11. g \in Bijection(1..Len(L), T) BY <1>8, <1>9 DEF Bijection
<1>12. ExistsBijection(1..Len(L), T) BY <1>11 DEF ExistsBijection
<1>13. PICK S : S = 1..Len(L) OBVIOUS
<1>14. Cardinality(T) = Cardinality(S)
  <2>1. IsFiniteSet(S) /\ ExistsBijection(S, T) BY <1>10, <1>12, <1>13
  <2> QED BY ONLY <2>1, FS_Bijection
<1> QED BY <1>14, <1>10, <1>13, <1>2

LEMMA OrderedIsRight ==
    ASSUME NEW e \in Node, WTORight(e), ordering # None, prog.entry[ordering] = e
    PROVE  WeakTopologicalOrder
<1> SUFFICES ASSUME done PROVE WeakTopologicalOrder
  BY DEF WeakTopologicalOrder, EveryNodeOnce, WeakOrder, CyclesReal, ordered
<1>1. /\ Ordered(succs, result) /\ Placed = NodesOf(result) /\ DOMAIN result = 1..Len(result)
      /\ Placed = ReachableFrom(e)
  BY DoneOrder
<1>2. Len(result) = Cardinality(Placed)
  <2>1. PICK R : R = result OBVIOUS
  <2>2. R \in Seq(Entry) /\ \A i, j \in 1..Len(R) : R[i].node = R[j].node => i = j BY <2>1, <1>1 DEF Ordered
  <2>3. Cardinality(NodesOf(R)) = Len(R) BY <2>2, DistinctCount
  <2> QED BY <2>1, <2>3, <1>1
<1>3. EveryNodeOnce BY <1>1, <1>2 DEF EveryNodeOnce
<1>4. \A i \in DOMAIN result : CycleNodes(i) = CycleAt(result, i)
  BY <1>1 DEF CycleNodes, CycleAt
<1>5. WeakOrder
  <2>1. ASSUME NEW i \in DOMAIN result, NEW j \in DOMAIN result, Follows(result[i].node, result[j].node)
        PROVE  i < j \/ (result[j].head /\ result[i].node \in CycleNodes(j))
    <3>1. i < j \/ (result[j].head /\ (i = j \/ result[j].node \in Range(result[i].depth)))
      BY <2>1, <1>1 DEF Ordered, Edge, Follows
    <3>2. i = j \/ result[j].node \in Range(result[i].depth) => result[i].node \in CycleAt(result, j)
      BY <1>1 DEF CycleAt
    <3> QED BY <3>1, <3>2, <1>4
  <2> QED BY <2>1 DEF WeakOrder
<1>6. CyclesReal
  <2>1. ASSUME NEW i \in DOMAIN result, result[i].head
        PROVE  Connected(CycleNodes(i)) /\ \E m \in CycleNodes(i) : Follows(m, result[i].node)
    <3>1. Joined(succs, CycleAt(result, i)) /\ \E u \in CycleAt(result, i) : Edge(succs, u, result[i].node)
      BY <2>1, <1>1 DEF Ordered
    <3>2. Joined(succs, CycleNodes(i)) /\ \E u \in CycleNodes(i) : Edge(succs, u, result[i].node)
      BY <3>1, <1>4
    <3> QED BY <3>2 DEF Joined, Connected, Edge, Follows
  <2> QED BY <2>1 DEF CyclesReal
<1> QED BY <1>3, <1>5, <1>6 DEF WeakTopologicalOrder

\* The same over the functions initWTO is run on, one after the other.
Ordering ==
    /\ succs \in [Node -> Seq(Node)]
    /\ prog.entry \in [Function -> Node \union {None}]
    /\ todo \subseteq {f \in Function : prog.entry[f] # None}
    /\ ordering # None => ordering \in Function /\ prog.entry[ordering] \in Node /\ WTORight(prog.entry[ordering])

\* While the numbers of visits stay below the one of placed nodes, which is
\* what the code takes for granted, initWTO finds of every function each
\* reachable node once, in an order against which only edges back to the head
\* of an enclosing cycle go, and cycles that really are (ICFGWTO, WTO::visit
\* and WTO::component).
THEOREM OrdersRight == RunSpec /\ [](num < UINT_MAX) => []WeakTopologicalOrder
<1>1. RunInit => Ordering
  <2> SUFFICES ASSUME RunInit PROVE Ordering OBVIOUS
  <2>1. /\ prog \in Programs /\ succs = [n \in Node |-> succsOf(prog, n)]
        /\ todo = {f \in Function : prog.entry[f] # None} /\ ordering = None
    BY DEF RunInit, Init
  <2>2. /\ prog.succs \in [Node -> Seq(Node)] /\ prog.retOf \in [Node -> Node]
        /\ prog.entry \in [Function -> Node \union {None}]
    BY <2>1, AEAssumption
  <2>3. ASSUME NEW n \in Node PROVE succsOf(prog, n) \in Seq(Node)
    <3>1. prog.retOf[n] \in Node /\ prog.succs[n] \in Seq(Node) BY <2>2
    <3> QED BY <3>1 DEF succsOf
  <2> QED BY <2>1, <2>2, <2>3 DEF Ordering
<1>2. Ordering /\ (num < UINT_MAX)' /\ [RunNext]_runVars => Ordering'
  <2> SUFFICES ASSUME Ordering, num' < UINT_MAX, [RunNext]_runVars PROVE Ordering' OBVIOUS
  <2>1. CASE \E f \in Function : OrderFunction(f)
    <3>1. PICK f \in Function : OrderFunction(f) BY <2>1
    <3>2. /\ f \in todo /\ Start(prog.entry[f]) /\ ordering' = f /\ todo' = todo \ {f}
          /\ prog' = prog /\ succs' = succs
      BY <3>1 DEF OrderFunction
    <3>3. PICK e \in Node : prog.entry[f] = e BY <3>2 DEF Ordering
    <3>4. WTORight(e)' BY <3>2, <3>3, StartKeepsOrder DEF Ordering
    <3> QED BY <3>2, <3>3, <3>4 DEF Ordering
  <2>2. CASE OrderStep
    <3>1. ordering # None /\ WTOStep /\ prog' = prog /\ succs' = succs /\ todo' = todo /\ ordering' = ordering
      BY <2>2 DEF OrderStep
    <3>2. PICK e \in Node : prog.entry[ordering] = e BY <3>1 DEF Ordering
    <3>3. WTORight(e)' BY <3>1, <3>2, StepKeepsOrder DEF Ordering
    <3> QED BY <3>1, <3>2, <3>3 DEF Ordering
  <2>3. CASE FunctionOrdered BY <2>3 DEF FunctionOrdered, Ordering
  <2>4. CASE UNCHANGED <<prog, succs, order, todo, ordering>>
    <3>1. prog' = prog /\ succs' = succs /\ todo' = todo /\ ordering' = ordering
          /\ cdn' = cdn /\ num' = num /\ stack' = stack /\ frames' = frames /\ parts' = parts
      BY <2>4 DEF order
    <3>2. ASSUME NEW e PROVE WTORight(e)' <=> WTORight(e)
      <4>1. Typed' <=> Typed BY <3>1 DEF Typed
      <4>2. Stacked' <=> Stacked BY <3>1 DEF Stacked, OnStack
      <4>3. Dfs(e)' <=> Dfs(e)
        BY <3>1 DEF Dfs, Numbered, Framed, PathRight, HeadRight, LoopRight, LowLink, Explored, Quiet, Settled,
             Down, Up, Finished, Reached, HeadReached, UpTo, Under, From, Nr, Due, Loops, HeadOf, NodeOf, Active,
             Opened, Visiting, IsPlaced, OnStack, Follows, ReachableFrom
      <4>4. Lists' <=> Lists
        BY <3>1 DEF Lists, Linked, HeadOf, NodeOf, Opened, Visiting
      <4> QED BY <4>1, <4>2, <4>3, <4>4 DEF WTORight
    <3>3. ordering # None => WTORight(prog.entry[ordering])'
      <4>1. PICK e : e = prog.entry[ordering] OBVIOUS
      <4>2. WTORight(e)' <=> WTORight(e) BY <3>2
      <4>3. prog'.entry[ordering'] = e BY <3>1, <4>1
      <4> QED BY <4>1, <4>2, <4>3 DEF Ordering
    <3> QED BY <3>1, <3>3 DEF Ordering
  <2>5. CASE ~(\E f \in Function : OrderFunction(f)) /\ ~OrderStep /\ ~FunctionOrdered
    <3>1. UNCHANGED <<prog, succs, order, todo, ordering>>
      BY <2>5 DEF RunNext, runVars, Next, vars, StartMain, stays, SkipComponent, HandleNode, HandleCycle,
                  CycleHead, CycleDelayed, CycleWiden, CycleNarrow, CallReturns, ComponentsHandled, Done
    <3> QED BY <3>1, <2>4
  <2> QED BY <2>1, <2>2, <2>3, <2>5
<1>3. Ordering => WeakTopologicalOrder
  <2> SUFFICES ASSUME Ordering PROVE WeakTopologicalOrder OBVIOUS
  <2>1. CASE ordering = None
    BY <2>1 DEF WeakTopologicalOrder, EveryNodeOnce, WeakOrder, CyclesReal, ordered
  <2>2. CASE ordering # None
    <3>1. PICK e \in Node : prog.entry[ordering] = e BY <2>2 DEF Ordering
    <3> QED BY <2>2, <3>1, OrderedIsRight DEF Ordering
  <2> QED BY <2>1, <2>2
<1> QED BY <1>1, <1>2, <1>3, PTL DEF RunSpec

=============================================================================
