----------------------------- MODULE CFGrammar -----------------------------
(***************************************************************************)
(* A normalised context-free grammar over edge labels, and the edges it    *)
(* derives from a labelled graph.  Every production of a normalised        *)
(* grammar has at most two symbols on its right, so it either labels a     *)
(* self loop, relabels an edge, or joins two edges that meet in a node.    *)
(***************************************************************************)
EXTENDS Naturals, FiniteSets

CONSTANTS Node,      \* nodes of the CFL graph
          Symbol,    \* the grammar's terminals and nonterminals, attributes included
          Epsilon,   \* the X with a production X -> epsilon
          Unary,     \* <<X, Y>>: a production X -> Y
          Binary     \* <<X, Y, Z>>: a production X -> Y Z

CFLEdge == [src : Node, kind : Symbol, dst : Node]
edge(i, X, j) == [src |-> i, kind |-> X, dst |-> j]

\* The self loops that X -> epsilon asks for at the nodes of ns.
EpsilonEdges(ns) == {edge(i, X, i) : i \in ns, X \in Epsilon}

\* What a production says of the edges in E.
SelfLoops(E) == EpsilonEdges(Node) \subseteq E
ClosedUnary(E) == \A p \in Unary : \A e \in E :
                    e.kind = p[2] => edge(e.src, p[1], e.dst) \in E
ClosedBinary(E) == \A p \in Binary : \A y, z \in E :
                     y.kind = p[2] /\ z.kind = p[3] /\ y.dst = z.src
                       => edge(y.src, p[1], z.dst) \in E
Closed(E) == SelfLoops(E) /\ ClosedUnary(E) /\ ClosedBinary(E)

\* One derivation step from the edges of E, by any production.
Derive(E) ==
    E \union EpsilonEdges(Node)
      \union (UNION {{edge(e.src, p[1], e.dst) : e \in {x \in E : x.kind = p[2]}} : p \in Unary})
      \union UNION {UNION {{edge(y.src, p[1], z.dst) :
                              z \in {x \in E : x.kind = p[3] /\ x.src = y.dst}} :
                           y \in {x \in E : x.kind = p[2]}} : p \in Binary}

\* The edges X(i, j) for which some path from i to j over E spells a word of X:
\* what further derivation steps no longer add to.
Derivable(E) ==
    LET closure[D \in SUBSET CFLEdge] == IF Derive(D) = D THEN D ELSE closure[Derive(D)]
    IN  closure[E]
=============================================================================
