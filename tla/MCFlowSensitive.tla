--------------------------- MODULE MCFlowSensitive ---------------------------
(* Families of programs.  In the first a store in a loop, behind another     *)
(* store, goes through a pointer whose one or two targets arrive in any      *)
(* order.  In the second a callee reads a function from what its argument    *)
(* points to and calls itself through it with another argument.  The third   *)
(* walks a list, the fourth calls a function directly.                       *)
EXTENDS FlowSensitiveSCD

CONSTANTS a, b, c, d

MCVar == {"p", "q", "r", "x", "y", "z"}
MCObj == {a, b, c, d}
MCLoc == 1..9

node(k, s, o, t) == [kind |-> k, src |-> s, obj |-> o, dst |-> t]
flow(l, o, m) == [from |-> l, obj |-> o, to |-> m]

\* p = &a; q = &second; r = phi(p, q); *p = &c; do { *r = &d } while ...; z = *p
LoopStmts(second) ==
    << node("addr", {}, {a}, {"p"}), node("addr", {}, {second}, {"q"}),
       node("copy", {"p", "q"}, {}, {"r"}),
       node("addr", {}, {c}, {"x"}), node("addr", {}, {d}, {"y"}),
       node("store", {"x"}, {}, {"p"}), node("mssa", {}, {}, {}),
       node("store", {"y"}, {}, {"r"}), node("load", {"p"}, {}, {"z"}) >>
LoopPrograms ==
    {[stmt |-> LoopStmts(second), passes |-> {}, calls |-> {}, weak |-> w, const |-> k,
      flows |-> {flow(6, o, 7) : o \in {a, b}} \union {flow(7, o, 8) : o \in {a, b}}
                  \union {flow(8, o, 7) : o \in {a, b}} \union {flow(8, a, 9)}] :
        second \in {a, b}, w \in {{}, {a}, MCObj}, k \in SUBSET {b}}

\* p = &a; x = &c; *p = x; (*x)(p), where the callee c(q) is z = *q; (*z)(x).
CallStmts ==
    << node("addr", {}, {a}, {"p"}), node("addr", {}, {c}, {"x"}),
       node("store", {"x"}, {}, {"p"}), node("pass", {"p"}, {}, {}),
       node("receive", {}, {}, {"q"}), node("mssa", {}, {}, {}), node("mssa", {}, {}, {}),
       node("load", {"q"}, {}, {"z"}), node("pass", {"x"}, {}, {}) >>
CallPrograms ==
    {[stmt |-> CallStmts, passes |-> {}, weak |-> w, const |-> {},
      flows |-> {flow(3, a, 6), flow(7, a, 8), flow(7, c, 8)},
      calls |-> {[fp |-> "x", fun |-> c, passes |-> {<<4, 5>>}, flows |-> {flow(6, a, 7)}],
                 [fp |-> "z", fun |-> c, passes |-> {<<9, 5>>}, flows |-> {}]}] : w \in {{}, {a}}}

\* p = &a; x = &b; y = &c; *p = x; z = *p; q = p; do { r = *q; *q = w; q = r } while ...;
ListStmts(w) ==
    << node("addr", {}, {a}, {"p"}), node("addr", {}, {b}, {"x"}), node("addr", {}, {c}, {"y"}),
       node("store", {"x"}, {}, {"p"}), node("mssa", {}, {}, {}),
       node("copy", {"p", "r"}, {}, {"q"}), node("load", {"q"}, {}, {"r"}),
       node("store", {w}, {}, {"q"}), node("load", {"p"}, {}, {"z"}) >>
ListPrograms ==
    {[stmt |-> ListStmts(w), passes |-> {}, calls |-> {}, weak |-> k, const |-> {},
      flows |-> {flow(4, a, 5), flow(4, a, 9)}
                  \union UNION {{flow(5, o, 7), flow(5, o, 8), flow(8, o, 5)} : o \in {a, b, c}}] :
        w \in {"q", "r", "y"}, k \in {{}, MCObj}}

\* p = &a; *p = p; y = f(p), where f(q) is z = *q; return z.
DirectStmts ==
    << node("addr", {}, {a}, {"p"}), node("receive", {}, {}, {"y"}),
       node("store", {"p"}, {}, {"p"}), node("pass", {"p"}, {}, {}),
       node("receive", {}, {}, {"q"}), node("mssa", {}, {}, {}), node("mssa", {}, {}, {}),
       node("load", {"q"}, {}, {"z"}), node("pass", {"z"}, {}, {}) >>
MCFormalRet == {9}
MCInter == {flow(7, a, 6)}
DirectPrograms ==
    {[stmt |-> DirectStmts, passes |-> {<<4, 5>>, <<9, 2>>}, calls |-> {}, weak |-> w, const |-> {},
      flows |-> {flow(3, a, 7), flow(6, a, 8)} \union MCInter] : w \in SUBSET {a}}

MCPrograms == LoopPrograms \union CallPrograms \union ListPrograms \union DirectPrograms
=============================================================================
