---------------------- MODULE AbstractInterpretation ----------------------
(***************************************************************************)
(* The abstract execution of a program: initWTO orders the nodes of every  *)
(* function, then handleWTOComponents interprets main over interval states *)
(* in that order, iterating each cycle with widening and narrowing and     *)
(* going through the body of a callee at each call of it.  `calls` is the  *)
(* stack of the handleWTOComponents, handleCycleWTO and directCallFunPass  *)
(* calls in progress; every action advances the one on its top.            *)
(*                                                                         *)
(* A state maps memory cells to intervals.  A node with a statement stands *)
(* for the loads of its operands, the operation and the store of its       *)
(* result, a branching node for the loads, the comparison and the branch;  *)
(* a register is recomputed where it is used and not kept in the state.  A *)
(* cell without a value reads as bottom, which makes a register that the   *)
(* next operation takes for unknown.  Pointers to cells are known.         *)
(***************************************************************************)
EXTENDS WTO, IntervalValue

CONSTANTS Cell, Function,
          Programs,      \* the programs to analyse, see Program below
          WidenDelay,    \* Options::WidenDelay
          None           \* no statement, condition, callee or state

Operand == Cell \union Int
\* "const" stores the number l; the other statements store what they compute.
Statement ==
    {st \in [op : {"const", "add", "sub", "mul", "div", "rem"}, res : Cell, l : Operand, r : Operand] :
        st.op = "const" => st.l \in Int /\ st.r = st.l}
Condition == [pred : {"eq", "ne", "lt", "le", "gt", "ge"}, l : Operand, r : Operand]

ASSUME AEAssumption ==
    /\ WidenDelay \in Nat
    /\ None \notin Node /\ None \notin Function
    /\ \A P \in Programs :
         \* Out-edges inside the function; two of them when a condition holds or not.
         /\ P.succs \in [Node -> Seq(Node)]
         /\ P.cond \in [Node -> Condition \union {None}]
         /\ \A n \in Node : P.cond[n] # None => Len(P.succs[n]) = 2
         /\ P.stmt \in [Node -> Statement \union {None}]
         \* A call node has the return node retOf[n] and no out-edge inside the function.
         /\ P.callee \in [Node -> Function \union {None}]
         /\ P.retOf \in [Node -> Node]
         /\ \A n \in Node : P.callee[n] # None => P.succs[n] = <<>> /\ P.stmt[n] = None
         /\ P.fun \in [Node -> Function]
         \* A function without an entry is only declared.
         /\ P.entry \in [Function -> Node \union {None}] /\ P.exit \in [Function -> Node]
         /\ P.main \in Function \union {None}
         /\ \A f \in Function :
              P.main = f \/ (\E n \in Node : P.callee[n] = f) => P.entry[f] # None
         \* The entry of a function and the nodes where paths meet compute nothing:
         \* an instruction at the head of a loop is a load, a branch or a call.
         /\ \A n \in Node : P.stmt[n] # None =>
              /\ n \notin {P.entry[f] : f \in Function}
              /\ \A m, k \in Node : n \in Range(P.succs[m]) /\ n \in Range(P.succs[k]) => m = k
         /\ P.globals \in [Cell -> Interval]

VARIABLES prog,
          todo,         \* functions initWTO has still to order
          ordering,     \* the function being ordered, or None
          funcToWTO,    \* the components of each function
          trace,        \* abstractTrace: the state after each node
          calls,        \* calls in progress
          pc            \* "order", "interpret", "done"

analysis == <<trace, calls>>
vars == <<prog, succs, order, todo, ordering, funcToWTO, analysis, pc>>

isCall(n) == prog.callee[n] # None
-----------------------------------------------------------------------------
(* initWTO, one function after the other. *)

(* ICFGWTO::forEachSuccessor: calls are stepped over. *)
succsOf(P, n) == IF P.callee[n] # None THEN <<P.retOf[n]>> ELSE P.succs[n]

Init ==
    /\ prog \in Programs
    /\ succs = [n \in Node |-> succsOf(prog, n)]
    /\ cdn = [n \in Node |-> 0] /\ num = 0 /\ stack = <<>>
    /\ frames = <<>> /\ parts = <<>>
    /\ todo = {f \in Function : prog.entry[f] # None} /\ ordering = None
    /\ funcToWTO = [f \in Function |-> <<>>]
    /\ trace = [n \in Node |-> None]
    /\ calls = <<>>
    /\ pc = "order"

OrderFunction(f) ==
    /\ pc = "order" /\ ordering = None /\ f \in todo
    /\ Start(prog.entry[f])
    /\ ordering' = f /\ todo' = todo \ {f}
    /\ UNCHANGED <<prog, succs, funcToWTO, analysis, pc>>

OrderStep ==
    /\ pc = "order" /\ ordering # None
    /\ WTOStep
    /\ UNCHANGED <<prog, succs, todo, ordering, funcToWTO, analysis, pc>>

FunctionOrdered ==
    /\ pc = "order" /\ ordering # None /\ done
    /\ funcToWTO' = [funcToWTO EXCEPT ![ordering] = Last(parts)]
    /\ ordering' = None
    /\ UNCHANGED <<prog, succs, order, todo, analysis, pc>>

-----------------------------------------------------------------------------
(* States. *)

Val(x, s) == IF x \in Cell THEN s[x] ELSE Num(x)
(* Binary operations and comparisons take a register without a value for top. *)
Known(i) == IF isBottom(i) THEN Top ELSE i
operand(x, s) == Known(Val(x, s))

JoinStates(S) == [c \in Cell |-> JoinAll({s[c] : s \in S})]

(* AbstractState::widening and narrowing: only cells with a value in both. *)
lackValue(c, s, t) == isBottom(s[c]) \/ isBottom(t[c])
widening(s, t) == [c \in Cell |-> IF lackValue(c, s, t) THEN s[c] ELSE Widen(s[c], t[c])]
narrowing(s, t) == [c \in Cell |-> IF lackValue(c, s, t) THEN s[c] ELSE Narrow(s[c], t[c])]

(* handleSVFStatement. *)
Result(st, s) ==
    IF st.op = "const" THEN Num(st.l) ELSE Apply(st.op, operand(st.l, s), operand(st.r, s))
Transfer(n, s) ==
    LET st == prog.stmt[n] IN
    IF st = None THEN s ELSE [s EXCEPT ![st.res] = Result(st, s)]

(* _reverse_predicate and _switch_lhsrhs_predicate: neither table has an     *)
(* entry for <=, and the lookup answers with FCMP_FALSE, which refines       *)
(* nothing.                                                                  *)
reversePredicate(pred) ==
    CASE pred = "eq" -> "ne" [] pred = "ne" -> "eq"
      [] pred = "gt" -> "le" [] pred = "lt" -> "ge" [] pred = "ge" -> "lt"
      [] OTHER -> "false"
switchPredicate(pred) ==
    CASE pred = "eq" -> "eq" [] pred = "ne" -> "ne"
      [] pred = "gt" -> "lt" [] pred = "lt" -> "gt" [] pred = "ge" -> "le"
      [] OTHER -> "false"

(* What the taken branch says of the variable that is compared to c. *)
MutBoundOffByOne(pred, c) ==   \* a broken variant: less-than cuts one value too many
    CASE pred = "eq" -> c
      [] pred = "gt" -> Itv(add(c.lb, 1), Inf)
      [] pred = "ge" -> Itv(c.lb, Inf)
      [] pred = "lt" -> Itv(-Inf, add(c.ub, -2))
      [] pred = "le" -> Itv(-Inf, c.ub)
      [] OTHER -> Top
Refinement(pred, c) ==
    CASE pred = "eq" -> c
      [] pred = "gt" -> Itv(add(c.lb, 1), Inf)
      [] pred = "ge" -> Itv(c.lb, Inf)
      [] pred = "lt" -> Itv(-Inf, add(c.ub, -1))
      [] pred = "le" -> Itv(-Inf, c.ub)
      [] OTHER -> Top

(* The value of x met with i, if it has one. *)
Refine(x, s, i) == IF x \in Cell /\ ~isBottom(s[x]) THEN [s EXCEPT ![x] = Meet(@, i)] ELSE s

(* isCmpBranchFeasible: the states in which the condition has the outcome    *)
(* succ (1 or 0), none or one.                                               *)
BranchStates(cond, succ, s) ==
    LET a == operand(cond.l, s)
        b == operand(cond.r, s)
        swap == is_numeral(a) /\ ~is_numeral(b)
        p == IF swap THEN switchPredicate(cond.pred) ELSE cond.pred
        q == IF succ = 0 THEN reversePredicate(p) ELSE p
    IN IF ~contains(Compare(cond.pred, a, b), succ) THEN {}
       ELSE IF is_numeral(a) = is_numeral(b) THEN {s}
       ELSE IF swap THEN {Refine(cond.r, s, Refinement(q, a))}
       ELSE {Refine(cond.l, s, Refinement(q, b))}

(* The states that reach node n along its in-edges. *)
IncomingIntra(n) ==
    UNION {LET s == trace[m] IN
           UNION {IF prog.cond[m] = None THEN {s} ELSE BranchStates(prog.cond[m], 2 - i, s) :
                    i \in {j \in DOMAIN prog.succs[m] : prog.succs[m][j] = n}} :
             m \in {k \in Node : trace[k] # None}}
IncomingInter(n) ==
    {trace[m] : m \in {k \in Node : /\ trace[k] # None
        /\ \/ isCall(k) /\ prog.entry[prog.callee[k]] = n
           \/ \E c \in Node : isCall(c) /\ prog.retOf[c] = n /\ prog.exit[prog.callee[c]] = k}}
Incoming(n) ==
    IncomingIntra(n) \union IncomingInter(n)
    \union (IF n = prog.entry[prog.main] THEN {prog.globals} ELSE {})

(* mergeStatesFromPredecessors; a node no state reaches keeps what it has. *)
Merged(n) == JoinStates(Incoming(n))
feasible(n) == Incoming(n) # {}

-----------------------------------------------------------------------------
(* The calls in progress. *)

Components(l) == [at |-> "components", left |-> l]
CycleOf(l) == [at |-> "cycle", left |-> l, iter |-> 0, increasing |-> TRUE,
               stage |-> "head", prev |-> None]
CallTo(n) == [at |-> "call", node |-> n]

now == Last(calls)
callers == Front(calls)
current == Head(now.left)

(* The length of the component at the front of the list l. *)
Extent(l) ==
    LET past == {i \in 2..Len(l) : Len(l[i].depth) <= Len(l[1].depth)}
    IN IF past = {} THEN Len(l) ELSE Min(past) - 1
Body(l) == SubSeq(l, 2, Extent(l))
Behind(l) == SubSeq(l, Extent(l) + 1, Len(l))

(* recursiveFuns: the functions that can call themselves. *)
callees(f) == {prog.callee[n] : n \in {m \in Node : prog.fun[m] = f /\ isCall(m)}}
recursiveFuns ==
    {f \in Function : \A T \in SUBSET Function :
        callees(f) \subseteq T /\ (\A g \in T : callees(g) \subseteq T) => f \in T}
isRecursiveCall(n) == isCall(n) /\ prog.callee[n] \in recursiveFuns

(* SkipRecursiveCall: whatever the callee's own statements store is unknown, *)
(* except that a store of a constant leaves what the caller has.             *)
Stored(f) ==
    LET stmts == {prog.stmt[n] : n \in {m \in Node : prog.fun[m] = f}} \ {None}
    IN {st.res : st \in {x \in stmts : x.op # "const"}}
SkipRecursiveCall(n, s) ==
    IF Len(prog.succs[prog.retOf[n]]) > 1 THEN s
    ELSE [c \in Cell |-> IF c \in Stored(prog.callee[n]) THEN Top ELSE s[c]]

(* handleSingletonWTO on node n in state s, up to the body of a callee:      *)
(* recursive functions are skipped, others are gone into.                    *)
Handled(n, s) ==
    IF isRecursiveCall(n)
    THEN [trace EXCEPT ![n] = SkipRecursiveCall(n, s),
                       ![prog.retOf[n]] = SkipRecursiveCall(n, s)]
    ELSE [trace EXCEPT ![n] = Transfer(n, s)]
enterCallee(n) ==
    IF isCall(n) /\ ~isRecursiveCall(n)
    THEN <<CallTo(n), Components(funcToWTO[prog.callee[n]])>> ELSE <<>>

StartMain ==
    /\ pc = "order" /\ ordering = None /\ todo = {}
    /\ IF prog.main = None THEN pc' = "done" /\ UNCHANGED calls
       ELSE pc' = "interpret" /\ calls' = <<Components(funcToWTO[prog.main])>>
    /\ UNCHANGED <<prog, succs, order, todo, ordering, funcToWTO, trace>>

stays == UNCHANGED <<prog, succs, order, todo, ordering, funcToWTO>>
Advance == Append(callers, [now EXCEPT !.left = Behind(@)])

(* handleWTOComponent on a component no state reaches. *)
SkipComponent ==
    /\ pc = "interpret" /\ now.at = "components" /\ now.left # <<>>
    /\ ~feasible(current.node)
    /\ calls' = Advance
    /\ UNCHANGED <<trace, pc>> /\ stays

(* handleWTOComponent on a single node. *)
HandleNode ==
    /\ pc = "interpret" /\ now.at = "components" /\ now.left # <<>>
    /\ feasible(current.node) /\ ~current.head
    /\ \E s \in {Merged(current.node)} : trace' = Handled(current.node, s)
    /\ calls' = Advance \o enterCallee(current.node)
    /\ UNCHANGED pc /\ stays

(* handleWTOComponent on a cycle: states are merged at its head, whose       *)
(* statement handleCycleWTO will apply.                                      *)
HandleCycle ==
    /\ pc = "interpret" /\ now.at = "components" /\ now.left # <<>>
    /\ feasible(current.node) /\ current.head
    /\ trace' = [trace EXCEPT ![current.node] = Merged(current.node)]
    /\ calls' = Append(Advance, CycleOf(SubSeq(now.left, 1, Extent(now.left))))
    /\ UNCHANGED pc /\ stays

(* One turn of the loop of handleCycleWTO handles the head: without merging  *)
(* while the turn is below the widening delay.                               *)
delayed == now.iter < WidenDelay
CycleHead ==
    /\ pc = "interpret" /\ now.at = "cycle" /\ now.stage = "head"
    /\ LET n == current.node
           handled == delayed \/ feasible(n)
       IN /\ trace' = IF handled THEN Handled(n, IF delayed THEN trace[n] ELSE Merged(n))
                      ELSE trace
          /\ calls' = Append(callers, [now EXCEPT !.stage = "compare", !.prev = trace[n]])
                      \o (IF handled THEN enterCallee(n) ELSE <<>>)
    /\ UNCHANGED pc /\ stays

(* ... then its body, unless widening or narrowing changed nothing. *)
MutTurnsNotCounted == [now EXCEPT !.stage = "head", !.prev = None]   \* a broken variant
nextTurn == [now EXCEPT !.stage = "head", !.prev = None,
                        !.iter = MinOf(@ + 1, WidenDelay)]   \* only compared to the delay
GoRound == <<nextTurn, Components(Body(now.left))>>

CycleDelayed ==
    /\ pc = "interpret" /\ now.at = "cycle" /\ now.stage = "compare" /\ delayed
    /\ calls' = callers \o GoRound
    /\ UNCHANGED <<trace, pc>> /\ stays

widened == widening(now.prev, trace[current.node])
narrowed == narrowing(now.prev, trace[current.node])

CycleWiden ==
    /\ pc = "interpret" /\ now.at = "cycle" /\ now.stage = "compare" /\ ~delayed
    /\ now.increasing
    /\ trace' = [trace EXCEPT ![current.node] = widened]
    /\ calls' = IF widened = now.prev
                THEN Append(callers, [nextTurn EXCEPT !.increasing = FALSE])
                ELSE callers \o GoRound
    /\ UNCHANGED pc /\ stays

CycleNarrow ==
    /\ pc = "interpret" /\ now.at = "cycle" /\ now.stage = "compare" /\ ~delayed
    /\ ~now.increasing
    /\ trace' = [trace EXCEPT ![current.node] = narrowed]
    /\ calls' = IF narrowed = now.prev THEN callers ELSE callers \o GoRound
    /\ UNCHANGED pc /\ stays

(* directCallFunPass after the callee: the return node gets the state of the *)
(* call, to be replaced when states are merged at it.                        *)
CallReturns ==
    /\ pc = "interpret" /\ now.at = "call"
    /\ trace' = [trace EXCEPT ![prog.retOf[now.node]] = trace[now.node]]
    /\ calls' = callers
    /\ UNCHANGED pc /\ stays

ComponentsHandled ==
    /\ pc = "interpret" /\ now.at = "components" /\ now.left = <<>>
    /\ calls' = callers
    /\ pc' = IF callers = <<>> THEN "done" ELSE pc
    /\ UNCHANGED trace /\ stays

Done == pc = "done" /\ UNCHANGED vars

Next ==
    \/ \E f \in Function : OrderFunction(f)
    \/ OrderStep \/ FunctionOrdered \/ StartMain
    \/ SkipComponent \/ HandleNode \/ HandleCycle
    \/ CycleHead \/ CycleDelayed \/ CycleWiden \/ CycleNarrow
    \/ CallReturns \/ ComponentsHandled
    \/ Done

Spec == Init /\ [][Next]_vars /\ WF_vars(Next)

-----------------------------------------------------------------------------
State == [Cell -> Interval]
Frame ==
    [at : {"components"}, left : Seq(Entry)] \union [at : {"call"}, node : Node]
    \union [at : {"cycle"}, left : Seq(Entry), iter : 0..WidenDelay, increasing : BOOLEAN,
             stage : {"head", "compare"}, prev : State \union {None}]

(* Numbers on the stack stay below the one of placed nodes, and what is      *)
(* stored is an interval: no operation makes a half-empty one.               *)
TypeOK ==
    /\ cdn \in [Node -> 0..UINT_MAX] /\ num \in 0..(UINT_MAX - 1)
    /\ stack \in Seq(Node) /\ parts \in Seq(Seq(Entry))
    /\ todo \subseteq Function /\ ordering \in Function \union {None}
    /\ funcToWTO \in [Function -> Seq(Entry)]
    /\ trace \in [Node -> State \union {None}]
    /\ calls \in Seq(Frame)
    /\ pc \in {"order", "interpret", "done"}

ordered == ordering # None /\ done

(* The interpreter handles the listed nodes and no others, so a node that is *)
(* left out is never analysed and one placed twice, after its number was     *)
(* reset with the rest of its cycle, is analysed out of turn.                *)
EveryNodeOnce ==
    ordered => /\ Placed = ReachableFrom(prog.entry[ordering])
               /\ Len(result) = Cardinality(Placed)

(* An edge goes forward, or back to the head of a cycle around its source:   *)
(* the states of all predecessors are there when a node is handled, except   *)
(* at heads, which handleCycleWTO comes back to.                             *)
WeakOrder ==
    ordered => \A i, j \in DOMAIN result :
        Follows(result[i].node, result[j].node) =>
            \/ i < j
            \/ result[j].head /\ result[i].node \in CycleNodes(j)

(* Only nodes that lie on a common cycle are iterated together: widening at  *)
(* a head that nothing returns to would lose bounds for nothing.             *)
CyclesReal ==
    ordered => \A i \in DOMAIN result : result[i].head =>
        /\ Connected(CycleNodes(i))
        /\ \E m \in CycleNodes(i) : Follows(m, result[i].node)

(* What the fixpoint iteration relies on, as a whole.                        *)
WeakTopologicalOrder == EveryNodeOnce /\ WeakOrder /\ CyclesReal

(* The fixpoint loops and the descent into callees come to an end: bounds    *)
(* only widen to infinity and narrow from it, and recursion is not followed. *)
Termination == <>(pc = "done")
=============================================================================
