---------------------------- MODULE SCCDetection ----------------------------
(***************************************************************************)
(* Nuutila's algorithm as SCC.h implements it: one depth-first search that *)
(* keeps for each open node the earliest node it is known to share a       *)
(* component with, and closes a component when its root is left.           *)
(* The recursion of visit is an explicit stack of frames.  Candidates and  *)
(* successors are taken in any order: both come from unordered or id-      *)
(* ordered containers whose order the algorithm does not rely upon.        *)
(***************************************************************************)
EXTENDS Naturals, FiniteSets, Sequences, SequencesExt

CONSTANTS Node,     \* the nodes of the graph
          NoNode,   \* UINT_MAX, the representative of a node not yet seen
          Pairs     \* the pairs of nodes a graph may have an edge between

ASSUME NodeAssumption ==
    IsFiniteSet(Node) /\ NoNode \notin Node /\ Pairs \subseteq Node \X Node

VARIABLES
    edges,      \* the direct edges of _graph
    todo,       \* the candidates find still has to look at
    frames,     \* the active calls of visit: the node, the successors not yet
                \* looked at, and the successor being looked at (or NoNode)
    I, D,       \* _I, and _D (0: not visited)
    rep, sub, inSCC,    \* _NodeSCCAuxInfo
    repNodes,   \* repNodes
    stack,      \* _SS, its top last
    topo        \* _T, its top last

aux == <<rep, sub, repNodes>>
vars == <<edges, todo, frames, I, D, inSCC, stack, topo, aux>>

Frame == [node : Node, kids : SUBSET Node, child : Node \union {NoNode}]

visited(n) == D[n] # 0
Visited == {n \in Node : visited(n)}
succs(n) == {e[2] : e \in {x \in edges : x[1] = n}}
frame(v, kids, child) == [node |-> v, kids |-> kids, child |-> child]
top == frames[Len(frames)]
setTop(kids, child) == [frames EXCEPT ![Len(frames)] = frame(top.node, kids, child)]
idle == todo = {} /\ frames = <<>>

Init ==
    /\ edges \in SUBSET Pairs
    /\ todo = {} /\ frames = <<>> /\ stack = <<>> /\ topo = <<>>
    /\ I = 0
    /\ D = [n \in Node |-> 0]
    /\ rep = [n \in Node |-> NoNode]
    /\ sub = [n \in Node |-> {}]
    /\ inSCC = {} /\ repNodes = {}

-----------------------------------------------------------------------------
(* The nodes in N come under r.                                             *)
MutSetRepKeepsSub(N, r) ==      \* broken: sub-nodes are not taken along
    /\ rep' = [n \in Node |-> IF n \in N THEN r ELSE rep[n]]
    /\ sub' = [sub EXCEPT ![r] = @ \union N]
    /\ repNodes' = (repNodes \ N) \union (IF N \ {r} = {} THEN {} ELSE {r})
MutSetRepKeepsRepNode(N, r) ==  \* broken: a node that lost its role stays listed
    /\ rep' = [n \in Node |-> IF n \in N THEN r ELSE rep[n]]
    /\ sub' = [n \in Node |-> IF n = r THEN sub[r] \union N
                              ELSE IF n \in N THEN {} ELSE sub[n]]
    /\ repNodes' = repNodes \union (IF N \ {r} = {} THEN {} ELSE {r})
setRep(N, r) ==
    /\ rep' = [n \in Node |-> IF n \in N THEN r ELSE rep[n]]
    /\ sub' = [n \in Node |-> IF n = r THEN sub[r] \union N
                              ELSE IF n \in N THEN {} ELSE sub[n]]
    /\ repNodes' = (repNodes \ (N \ {r})) \union (IF N \ {r} = {} THEN {} ELSE {r})

MutClearKeepsInSCC ==   \* broken: one part of the node information survives
    /\ I' = 0 /\ D' = [n \in Node |-> 0]
    /\ rep' = [n \in Node |-> NoNode] /\ sub' = [n \in Node |-> {}]
    /\ inSCC' = inSCC /\ repNodes' = {}
    /\ stack' = <<>> /\ topo' = <<>>
MutClearKeepsCounter == \* broken: numbering goes on from the last run
    /\ I' = I /\ D' = [n \in Node |-> 0]
    /\ rep' = [n \in Node |-> NoNode] /\ sub' = [n \in Node |-> {}]
    /\ inSCC' = {} /\ repNodes' = {}
    /\ stack' = <<>> /\ topo' = <<>>
clear ==
    /\ I' = 0 /\ D' = [n \in Node |-> 0]
    /\ rep' = [n \in Node |-> NoNode] /\ sub' = [n \in Node |-> {}]
    /\ inSCC' = {} /\ repNodes' = {}
    /\ stack' = <<>> /\ topo' = <<>>

(* find() and find(candidates), which the solvers call again and again on a  *)
(* graph they change in between.                                             *)
Find(candidates) ==
    /\ idle
    /\ clear
    /\ todo' = candidates
    /\ edges' \in {edges} \union {edges \union {e} : e \in Pairs}
                          \union {edges \ {e} : e \in edges}
    /\ UNCHANGED frames

-----------------------------------------------------------------------------
(* Entering visit(v).                                                       *)
visit(v) ==
    /\ I' = I + 1
    /\ D' = [D EXCEPT ![v] = I + 1]
    /\ setRep({v}, v)
    /\ frames' = Append(frames, frame(v, succs(v), NoNode))
    /\ UNCHANGED <<edges, inSCC, stack, topo>>

\* A representative other than itself is never met: nothing is merged before
\* the search and the node is not visited.
VisitCandidate(n) ==
    /\ frames = <<>> /\ n \in todo
    /\ ~visited(n)
    /\ todo' = todo \ {n}
    /\ visit(n)

SkipCandidate(n) ==
    /\ frames = <<>> /\ n \in todo
    /\ visited(n)
    /\ todo' = todo \ {n}
    /\ UNCHANGED <<edges, frames, I, D, inSCC, stack, topo, aux>>

\* The loop over the direct successors of the node of the top frame.
MutNextSuccStays(w) ==      \* broken: the iterator does not advance
    /\ frames # <<>> /\ top.child = NoNode /\ w \in top.kids
    /\ frames' = setTop(top.kids, w)
    /\ UNCHANGED <<edges, todo, I, D, inSCC, stack, topo, aux>>
NextSucc(w) ==
    /\ frames # <<>> /\ top.child = NoNode /\ w \in top.kids
    /\ frames' = setTop(top.kids \ {w}, w)
    /\ UNCHANGED <<edges, todo, I, D, inSCC, stack, topo, aux>>

VisitSucc ==
    /\ frames # <<>> /\ top.child # NoNode
    /\ ~visited(top.child)
    /\ visit(top.child)
    /\ UNCHANGED todo

MutAlwaysOpen(w) == TRUE    \* broken: a successor in a closed component counts
open(w) == w \notin inSCC

\* Of two representatives the one met first.
earlier(a, b) == IF D[a] < D[b] THEN a ELSE b

CompareRep ==
    /\ frames # <<>> /\ top.child # NoNode
    /\ visited(top.child)
    /\ IF open(top.child)
       THEN setRep({top.node}, earlier(rep[top.node], rep[top.child]))
       ELSE UNCHANGED aux
    /\ frames' = setTop(top.kids, NoNode)
    /\ UNCHANGED <<edges, todo, I, D, inSCC, stack, topo>>

-----------------------------------------------------------------------------
(* Leaving visit(v).                                                        *)
finished == frames # <<>> /\ top.child = NoNode /\ top.kids = {}

\* _SS is popped when the root v is left, down to the first node met before v.
MutKeepAllButOne(v) ==      \* broken: pops once
    IF stack # <<>> /\ D[Last(stack)] > D[v] THEN Len(stack) - 1 ELSE Len(stack)
kept(v) ==
    CHOOSE k \in 0..Len(stack) :
        /\ k > 0 => D[stack[k]] <= D[v]
        /\ \A j \in (k+1)..Len(stack) : D[stack[j]] > D[v]
popped(v) == {stack[j] : j \in (kept(v) + 1)..Len(stack)}

LeaveRoot ==
    /\ finished /\ rep[top.node] = top.node
    /\ inSCC' = inSCC \union {top.node} \union popped(top.node)
    /\ setRep(popped(top.node), top.node)
    /\ stack' = SubSeq(stack, 1, kept(top.node))
    /\ topo' = Append(topo, top.node)
    /\ frames' = Front(frames)
    /\ UNCHANGED <<edges, todo, I, D>>

LeaveInner ==
    /\ finished /\ rep[top.node] # top.node
    /\ stack' = Append(stack, top.node)
    /\ frames' = Front(frames)
    /\ UNCHANGED <<edges, todo, I, D, inSCC, topo, aux>>

-----------------------------------------------------------------------------
Search ==
    \/ \E n \in Node : VisitCandidate(n) \/ SkipCandidate(n) \/ NextSucc(n)
    \/ VisitSucc
    \/ CompareRep
    \/ LeaveRoot
    \/ LeaveInner

Next == (\E S \in SUBSET Node : Find(S)) \/ Search

Spec == Init /\ [][Next]_vars
\* find is a function: it runs until it returns.
FairSpec == Spec /\ WF_vars(Search)

-----------------------------------------------------------------------------
(* Queries.                                                                 *)
isInCycle(n) == Cardinality(sub[rep[n]]) > 1 \/ <<rep[n], rep[n]>> \in edges

-----------------------------------------------------------------------------
(* Properties.                                                              *)

(* Types; the visit numbers handed out are 1..I. *)
TypeOK ==
    /\ edges \subseteq Pairs
    /\ todo \subseteq Node /\ inSCC \subseteq Node /\ repNodes \subseteq Node
    /\ frames \in Seq(Frame) /\ stack \in Seq(Node) /\ topo \in Seq(Node)
    /\ D \in [Node -> Nat] /\ I \in Nat
    /\ {D[n] : n \in Visited} = 1..I
    /\ rep \in [Node -> Node \union {NoNode}]
    /\ sub \in [Node -> SUBSET Node]

C == INSTANCE Condensation WITH
        repOf <- [n \in Node |-> IF n \in inSCC THEN rep[n] ELSE NoNode]

(* visit hands out whole components, each after those it has edges to, so    *)
(* that _T read from its top is a topological order of the condensation.     *)
Refines == C!Spec

(* When find returns every node it has seen belongs to a closed component,   *)
(* nothing waits on _SS, and what it saw is closed under the edges.          *)
NothingPending ==
    idle => /\ stack = <<>> /\ inSCC = Visited
            /\ \A n \in Visited : succs(n) \subseteq Visited

(* subNodes(n): the whole component for a representative, nothing for the    *)
(* others, as mergeSccCycle, isInCycle and the flow-sensitive solvers need.  *)
SubNodesExact ==
    \A n \in inSCC : sub[n] = IF rep[n] = n THEN C!Component(edges, n) ELSE {}

(* What clients ask when find has returned.  getRepNodes lists the           *)
(* representatives that have others to represent, and isInCycle(n) holds     *)
(* exactly when a path of at least one edge leads from n to itself, which    *)
(* decides about recursion of functions.                                     *)
QueriesExact ==
    idle => /\ repNodes = {n \in Node : rep[n] = n /\ Cardinality(sub[n]) > 1}
            /\ \A n \in Visited :
                 isInCycle(n) <=> \E m \in succs(n) : C!Reaches(edges, m, n)

(* Within a run the representative of a node in a closed component is final: *)
(* clients keep what repNode returned.                                       *)
RepFinal ==
    [][\A n \in inSCC : ~idle => n \in inSCC' /\ rep'[n] = rep[n]]_vars

(* find returns. *)
Termination == ~idle ~> idle
=============================================================================
