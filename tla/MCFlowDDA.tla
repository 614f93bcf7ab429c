----------------------------- MODULE MCFlowDDA -----------------------------
(* Four families of programs: a store in a loop, asked within budgets that   *)
(* end at different steps; a callee that calls through what it reads; a list *)
(* that is walked and changed; and pointers copied in all kinds of circles.  *)
EXTENDS FlowDDA

CONSTANTS a, b, c, h

MCVar == {"p", "q", "r", "x", "y", "z"}
MCObj == {a, b, c, h}
MCLoc == 1..9

node(k, s, o, t) == [kind |-> k, src |-> s, obj |-> o, dst |-> t]
nothing == node("mssa", {}, {}, {})
flow(l, o, m) == [from |-> l, obj |-> o, to |-> m]
\* A program, Andersen's sets, what is asked and within which budget.
asks(stmts, F, C, w, k, A, Q, n) ==
    [svfg |-> [stmt |-> stmts, passes |-> {}, flows |-> F, calls |-> C, weak |-> w, const |-> k],
     ander |-> [v \in MCVar |-> CASE v = "p" -> A[1] [] v = "q" -> A[2] [] v = "r" -> A[3]
                                  [] v = "x" -> A[4] [] v = "y" -> A[5] [] v = "z" -> A[6]],
     resolves |-> [l \in MCLoc |-> IF C # {} /\ l \in {5, 7} THEN {"x", "z"} ELSE {}],
     budget |-> n, candidates |-> Q]
Plenty == 1000

\* p = &a; q = &second; r = phi(p, q); *p = &c; do { *r = &h } while ...; z = *p
LoopStmts(second) ==
    << node("addr", {}, {a}, {"p"}), node("addr", {}, {second}, {"q"}),
       node("copy", {"p", "q"}, {}, {"r"}),
       node("addr", {}, {c}, {"x"}), node("addr", {}, {h}, {"y"}),
       node("store", {"x"}, {}, {"p"}), nothing,
       node("store", {"y"}, {}, {"r"}), node("load", {"p"}, {}, {"z"}) >>
LoopPrograms ==
    {asks(LoopStmts(second), {flow(e[1], o, e[2]) : e \in {<<6, 7>>, <<7, 8>>, <<8, 7>>}, o \in {a, b}}
                               \union {flow(8, a, 9)},
          {}, w, k, <<{a}, {second}, {a, second}, {c}, {h}, {c, h}>>, {"p", "r", "z"}, n) :
        second \in {a, b}, w \in SUBSET {a}, k \in SUBSET {b}, n \in {1, 3, 5, 8, 12, Plenty}}

\* p = &a; x = &c; *p = x; (*x)(p), where the callee c(q) is z = *q; (*z)(x).
CallStmts ==
    << node("addr", {}, {a}, {"p"}), node("addr", {}, {c}, {"x"}),
       node("store", {"x"}, {}, {"p"}), node("pass", {"p"}, {}, {}),
       node("receive", {}, {}, {"q"}), nothing, nothing,
       node("load", {"q"}, {}, {"z"}), node("pass", {"x"}, {}, {}) >>
CallPrograms ==
    {asks(CallStmts, {flow(3, a, 6), flow(7, a, 8)},
          {[fp |-> "x", fun |-> c, passes |-> {<<4, 5>>}, flows |-> {flow(6, a, 7)}],
           [fp |-> "z", fun |-> c, passes |-> {<<9, 5>>}, flows |-> {}]},
          w, {}, <<{a}, {a, c}, {}, {c}, {}, {c}>>, {"q", "x", "z"}, n) :
        w \in SUBSET {a}, n \in {1, 3, 5, 8, 12, Plenty}}

\* p = &a; x = &b; y = &h; *p = x; for (q = p; ; q = z) { *q = y; z = *q }
ListStmts ==
    << node("addr", {}, {a}, {"p"}), node("addr", {}, {b}, {"x"}), node("addr", {}, {h}, {"y"}),
       node("store", {"x"}, {}, {"p"}), node("copy", {"p", "z"}, {}, {"q"}), nothing,
       node("store", {"y"}, {}, {"q"}), node("load", {"q"}, {}, {"z"}), nothing >>
ListPrograms ==
    {asks(ListStmts, {flow(e[1], a, e[2]) : e \in {<<4, 6>>, <<6, 7>>, <<7, 8>>, <<7, 6>>}},
          {}, w, {b, h}, <<{a}, {a, b, h}, {}, {b}, {h}, {b, h}>>, {"q", "z"}, Plenty) :
        w \in SUBSET {a}}

\* p = &a; q, r and x are phis of one another.
CopyPrograms ==
    {asks(<<node("addr", {}, {a}, {"p"}), node("copy", {"p"} \union A, {}, {"q"}),
            node("copy", B, {}, {"r"}), node("copy", C, {}, {"x"}),
            nothing, nothing, nothing, nothing, nothing>>,
          {}, {}, {}, {}, [i \in 1..6 |-> {a}], {"q", "r", "x"}, Plenty) :
        A \in SUBSET {"r", "x"}, B \in SUBSET {"q", "x"}, C \in SUBSET {"q", "r"}}

MCPrograms == LoopPrograms \union CallPrograms \union ListPrograms \union CopyPrograms
=============================================================================
