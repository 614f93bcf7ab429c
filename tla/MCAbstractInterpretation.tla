---------------------- MODULE MCAbstractInterpretation ----------------------
(* Four families of programs: all graphs of four nodes, which are only       *)
(* ordered; one operation on two intervals; one branch; and loops and calls  *)
(* in the shapes a structured and an unstructured program can have.          *)
EXTENDS AbstractInterpretation

CONSTANTS x, y

MCNode == 1..8

Blank == [succs |-> [n \in MCNode |-> <<>>], cond |-> [n \in MCNode |-> None],
          stmt |-> [n \in MCNode |-> None], callee |-> [n \in MCNode |-> None],
          retOf |-> [n \in MCNode |-> n], fun |-> [n \in MCNode |-> "f"],
          entry |-> [f |-> 1, g |-> None], exit |-> [f |-> 1, g |-> 8], main |-> "f",
          globals |-> [c \in {x, y} |-> Num(0)]]

Set(op, l, r, c) == [op |-> op, res |-> c, l |-> l, r |-> r]
Put(k, c) == Set("const", k, k, c)
If(l, pred, r) == [pred |-> pred, l |-> l, r |-> r]
Is(p, q) == (x :> p) @@ (y :> q)

\* Graphs numbered by a breadth-first walk from node 1, out-edges in order.
Canonical(s) ==
    LET all == s[1] \o s[2] \o s[3] \o s[4]
        first(n) == Min({i \in DOMAIN all : all[i] = n})
    IN /\ \A n \in 2..4 : \E m \in 1..(n - 1) : n \in Range(s[m])
       /\ first(2) < first(3) /\ first(3) < first(4)
Out == {<<>>} \union {<<m>> : m \in 1..4} \union {p \in (1..4) \X (1..4) : p[1] # p[2]}
Graphs ==
    {[Blank EXCEPT !.succs = s @@ @, !.main = None] :
        s \in {t \in {o \in Out : 2 \in Range(o)} \X Out \X Out \X Out : Canonical(t)}}

\* One operation, one branch.
Some(S) == {i \in [lb : S, ub : S] : i \in Interval \ {Bottom}}
Operations ==
    {[Blank EXCEPT !.succs = (1 :> <<2>>) @@ @, !.stmt[2] = Set(op, x, y, x), !.globals = Is(i, j)] :
        op \in {"add", "sub", "mul", "div", "rem"},
        i, j \in Some({-Inf, -2, 0, 1, Inf}) \ {Itv(-Inf, -Inf), Itv(Inf, Inf)}}
Branch(c) == [Blank EXCEPT !.succs = (1 :> <<2, 3>>) @@ (2 :> <<4>>) @@ (3 :> <<4>>) @@ @,
                           !.cond[1] = c, !.stmt[2] = Set("add", x, 1, y)]
Branches ==
    {[Branch(If(p[1], pred, p[2])) EXCEPT !.globals = Is(i, j)] :
        pred \in {"eq", "ne", "lt", "le", "gt", "ge"}, p \in {<<x, 1>>, <<1, x>>, <<x, y>>},
        i \in Some({-Inf, 0, 1, 2, Inf}) \ {Itv(-Inf, -Inf), Itv(Inf, Inf)},
        j \in {Num(1), Itv(-1, 1), Top}}

Guards == {If(x, "lt", 2), If(x, "ne", 2), If(2, "gt", x), If(x, "le", 1), If(1, "ge", x),
           If(x, "lt", y)}
Steps == {Set("add", x, 1, x), Set("sub", x, 1, x), Set("add", x, x, x), Set("add", x, y, x)}
Stores == Steps \union {Put(2, x), Put(3, y)}
Starts == {Is(Num(0), Num(2)), Is(Itv(-1, 1), Itv(1, 2))}

\* while (c) s;
Loop(c, s) ==
    [Blank EXCEPT !.succs = (1 :> <<2>>) @@ (2 :> <<3, 4>>) @@ (3 :> <<2>>) @@ @,
                  !.cond[2] = c, !.stmt[3] = s]
\* while (c) { y = 0; while (d) s; t; }
Nested(c, d, s, t) ==
    [Blank EXCEPT !.succs = (1 :> <<2>>) @@ (2 :> <<3, 7>>) @@ (3 :> <<4>>) @@ (4 :> <<5, 6>>)
                              @@ (5 :> <<4>>) @@ (6 :> <<2>>) @@ @,
                  !.cond[2] = c, !.cond[4] = d,
                  !.stmt[3] = Put(0, y), !.stmt[5] = s, !.stmt[6] = t]
\* while (c) if (d) s; else t;
LoopIf(c, d, s, t) ==
    [Blank EXCEPT !.succs = (1 :> <<2>>) @@ (2 :> <<3, 6>>) @@ (3 :> <<4, 5>>)
                              @@ (4 :> <<2>>) @@ (5 :> <<2>>) @@ @,
                  !.cond[2] = c, !.cond[3] = d, !.stmt[4] = s, !.stmt[5] = t]
\* A loop of 2, 4, 3 and 5 entered at 2 and at 3.
TwoEntries(c, d, s, t) ==
    [Blank EXCEPT !.succs = (1 :> <<2, 3>>) @@ (2 :> <<4>>) @@ (4 :> <<3>>) @@ (3 :> <<5, 6>>)
                              @@ (5 :> <<2>>) @@ @,
                  !.cond[1] = c, !.cond[3] = d, !.stmt[4] = s, !.stmt[5] = t]
\* while (c) s; while (d) t;
TwoLoops(c, d, s, t) ==
    [Blank EXCEPT !.succs = (1 :> <<2>>) @@ (2 :> <<3, 4>>) @@ (3 :> <<2>>) @@ (4 :> <<5, 6>>)
                              @@ (5 :> <<4>>) @@ @,
                  !.cond[2] = c, !.cond[4] = d, !.stmt[3] = s, !.stmt[5] = t]
Inner == {If(y, "lt", 2), If(y, "lt", x), If(y, "ne", 2)}
Loops ==
    {Loop(c, s) : c \in Guards, s \in Stores}
    \union {Nested(If(x, "lt", 2), d, Set("add", y, 1, y), t) :
              d \in Inner, t \in {Set("add", x, 1, x), Set("add", x, y, x)}}
    \union {F : F \in UNION {{LoopIf(c, d, s, t), TwoEntries(c, d, s, t), TwoLoops(c, d, s, t)} :
              c \in {If(x, "lt", 2), If(2, "gt", x)}, d \in Inner, s \in {Set("add", x, 1, x)},
              t \in {Set("add", x, 2, x), Set("add", y, 1, y)}}}

\* Programs in which f, which starts at 1, calls g.
Calls(ret, callsAt) == [Blank EXCEPT !.callee = [n \in callsAt |-> "g"] @@ @, !.retOf = ret @@ @]
Called(P, g, e, ex) ==
    [P EXCEPT !.fun = [n \in g |-> "g"] @@ @, !.entry.g = e, !.exit.g = ex]
\* while (c) g();  g() { s; }
CallInLoop(c, s) ==
    [Called(Calls(3 :> 4, {3}), {6, 7, 8}, 6, 8) EXCEPT
        !.succs = (1 :> <<2>>) @@ (2 :> <<3, 5>>) @@ (4 :> <<2>>) @@ (6 :> <<7>>) @@ (7 :> <<8>>) @@ @,
        !.cond[2] = c, !.stmt[7] = s]
\* g(); g();  g() { s; }
TwoCalls(s) ==
    [Called(Calls((2 :> 3) @@ (4 :> 5), {2, 4}), {6, 7, 8}, 6, 8) EXCEPT
        !.succs = (1 :> <<2>>) @@ (3 :> <<4>>) @@ (6 :> <<7>>) @@ (7 :> <<8>>) @@ @,
        !.stmt[7] = s]
\* g();  g() { while (c) s; }
LoopInCallee(c, s) ==
    [Called(Calls(2 :> 3, {2}), {4, 5, 6, 7}, 4, 7) EXCEPT
        !.succs = (1 :> <<2>>) @@ (4 :> <<5>>) @@ (5 :> <<6, 7>>) @@ (6 :> <<5>>) @@ @,
        !.cond[5] = c, !.stmt[6] = s]
\* g();  g() { if (c) { s; g(); } }, where s stores no constant.
Recursion(c, s) ==
    [Called(Calls((2 :> 3) @@ (6 :> 7), {2, 6}), {4, 5, 6, 7, 8}, 4, 8) EXCEPT
        !.succs = (1 :> <<2>>) @@ (4 :> <<5, 8>>) @@ (5 :> <<6>>) @@ (7 :> <<8>>) @@ @,
        !.cond[4] = c, !.stmt[5] = s]
WithCalls ==
    UNION {{CallInLoop(c, s), TwoCalls(s), LoopInCallee(c, s)} :
             c \in {If(x, "lt", 2), If(x, "ne", 2)}, s \in Stores}
    \union {Recursion(c, s) : c \in {If(x, "lt", 2), If(x, "ne", 2)}, s \in Steps}

MayIterate == {[P EXCEPT !.globals = v] : P \in Loops \union WithCalls, v \in Starts}
MCPrograms == Graphs \union Operations \union Branches \union MayIterate
=============================================================================
