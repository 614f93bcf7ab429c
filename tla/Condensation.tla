---------------------------- MODULE Condensation ----------------------------
(***************************************************************************)
(* What SCC detection promises its clients (the Andersen solvers, the      *)
(* flow-sensitive solvers, memory SSA): the strongly connected components  *)
(* are handed out one after the other, each as a whole under one of its    *)
(* members, and never before a component it has an edge to.                *)
(***************************************************************************)
EXTENDS Sequences

CONSTANTS Node,
          NoNode    \* not a node

VARIABLES edges,      \* the direct edges of the graph: pairs of nodes
          repOf,      \* the representative of a node's component, or NoNode
          topo        \* the representatives, in the order handed out

vars == <<edges, repOf, topo>>

\* A node reaches every node that no set closed under the edges cuts off.
Closed(E, S) == \A e \in E : e[1] \in S => e[2] \in S
Reaches(E, n, m) == \A S \in SUBSET Node : n \in S /\ Closed(E, S) => m \in S
Component(E, n) == {m \in Node : Reaches(E, n, m) /\ Reaches(E, m, n)}

Init ==
    /\ edges \in SUBSET (Node \X Node)
    /\ repOf = [n \in Node |-> NoNode]
    /\ topo = <<>>

\* A new run, on whatever the graph has become.
Restart ==
    /\ edges' \in SUBSET (Node \X Node)
    /\ repOf' = [n \in Node |-> NoNode]
    /\ topo' = <<>>

Emit(r) ==
    LET S == Component(edges, r)
    IN /\ \A n \in S : repOf[n] = NoNode
       /\ \A e \in edges : e[1] \in S => e[2] \in S \/ repOf[e[2]] # NoNode
       /\ repOf' = [n \in Node |-> IF n \in S THEN r ELSE repOf[n]]
       /\ topo' = Append(topo, r)
       /\ UNCHANGED edges

Next == Restart \/ \E r \in Node : Emit(r)

Spec == Init /\ [][Next]_vars
=============================================================================
