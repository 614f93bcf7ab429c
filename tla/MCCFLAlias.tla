----------------------------- MODULE MCCFLAlias -----------------------------
(* Points-to by CFL reachability over three nodes: node 1 is an object whose *)
(* address 2 takes, and any copies join the nodes.  A call through 3 copies  *)
(* 3 to 1 and 1 to 2 once the object reaches 3, a call through 2 copies 2 to *)
(* 3 when the object is known to reach 2, and the last one closes a cycle.   *)
EXTENDS CFLAlias, TLC

MCNode == 1..3
MCSymbol == {"addr", "addrbar", "copy", "copybar", "F", "M"}

\* F -> epsilon | F copy | F F, M -> addr F
MCEpsilon == {"F"}
MCUnary == {<<"F", "copy">>}
MCBinary == {<<"F", "F", "F">>, <<"M", "addr", "F">>, <<"F", "F", "copy">>}

\* The comparison of GenericEdge: label, source, target.
KindNo == [addr |-> 0, addrbar |-> 1] @@ [copy |-> 2, copybar |-> 3] @@ [F |-> 4, M |-> 5]
MCRank == [e \in CFLEdge |-> 16 * KindNo[e.kind] + 4 * e.src + e.dst]

Links(C) == CopyEdges(C) \union CopyBarEdges(C)
Pairs == {c \in MCNode \X MCNode : c[1] # c[2]}
OneWay == {{edge(1, "addr", 2)} \union Links(C) : C \in SUBSET Pairs}
TwoWay == {E \union {edge(2, "addrbar", 1)} : E \in OneWay}
\* The two-way graphs in which every node has an edge.
Joined == {E \in TwoWay : Sources(E) = MCNode}
MCGraphs == OneWay \union TwoWay

MCCalls == {[need |-> edge(1, "M", 3), copies |-> {<<3, 1>>, <<1, 2>>}],
            [need |-> edge(1, "M", 2), copies |-> {<<2, 3>>}]}

\* The base solver with calls, and POCRSolver without calls on joined
\* graphs.
MCSetups == [pocr : {FALSE}, graph : OneWay, calls : {MCCalls}] \union
            [pocr : {TRUE}, graph : Joined, calls : {{}}]

\* POCRSolver with a call: node 1 is a function, and when it is known to reach
\* 2, the callee copies 3 to 2 and 2 to 1.
MCLateCalls == {[need |-> edge(1, "M", 2), copies |-> {<<3, 2>>, <<2, 1>>}]}
MCPOCRSetups == [pocr : {TRUE}, graph : Joined, calls : {MCLateCalls}]
\* F -> epsilon | F copy only, so that copies are joined with copies.
MCBinaryLinear == MCBinary \ {<<"F", "F", "F">>}
=============================================================================
