----------------------------- MODULE CFLSolver -----------------------------
(***************************************************************************)
(* CFL-reachability by a work list of edges (CFLSolver), driven by the     *)
(* alias analysis (CFLAlias): solve, connect the callees the answer        *)
(* resolves by adding copy edges to the solved graph, and solve again      *)
(* while that left edges to process.                                       *)
(*                                                                         *)
(* processCFLEdge handles one edge in three loops over the productions     *)
(* that have its label alone, first, and second on the right.  A step of   *)
(* this module is the handling of one production: the edges it inserts are *)
(* seen by the productions after it, whose order is that of a hash set and *)
(* left open.  The work list is a first-in first-out list without repeats, *)
(* kept as the sequence of what each loop pushed; Rank orders the edges a  *)
(* loop pushes.                                                            *)
(***************************************************************************)
EXTENDS CFGrammar, Sequences

CONSTANTS Graphs,         \* the graphs to solve, as sets of edges
          Rank,           \* position of an edge among those one loop pushes
          Calls,          \* indirect calls: [need, copies]
          copy, copybar,  \* the labels addCopyEdge inserts
          NoEdge          \* nullptr

\* Graph and grammar are finite.  An indirect call is resolved by the edge
\* `need`, which shows a function in the points-to set of its pointer, and then
\* links the pairs in `copies`.
ASSUME CFLAssumption ==
    /\ IsFiniteSet(Node) /\ IsFiniteSet(Symbol)
    /\ Graphs \subseteq SUBSET CFLEdge /\ Rank \in [CFLEdge -> Nat]
    /\ Epsilon \subseteq Symbol /\ Unary \subseteq Symbol \X Symbol
    /\ Binary \subseteq Symbol \X Symbol \X Symbol
    /\ copy \in Symbol /\ copybar \in Symbol
    /\ Calls \subseteq [need : CFLEdge, copies : SUBSET (Node \X Node)]
    /\ NoEdge \notin CFLEdge

VARIABLES given,      \* edges the graph was built with or addCopyEdge inserted
          graph,      \* the CFL graph
          worklist,   \* edges to process, in the sets they were pushed in
          current,    \* the edge processCFLEdge works on
          todo,       \* its productions still to handle, by loop
          phase,      \* "initialize", "solve", "update", "done"
          connected   \* calls whose callee has been connected

vars == <<given, graph, worklist, current, todo, phase, connected>>

TypeOK ==
    /\ given \subseteq CFLEdge /\ graph \subseteq CFLEdge
    /\ worklist \in Seq(SUBSET (CFLEdge \union {NoEdge}))
    /\ current \in CFLEdge \union {NoEdge}
    /\ todo \in [single : SUBSET Unary, first : SUBSET Binary, second : SUBSET Binary]
    /\ phase \in {"initialize", "solve", "update", "done"}
    /\ connected \subseteq Calls

NoProds == [single |-> {}, first |-> {}, second |-> {}]
Idle == todo = NoProds

\* The solver is made for the graph g, in which the calls of c are connected.
Start(g, c) ==
    /\ given = g /\ graph = g /\ worklist = <<>> /\ connected = c
    /\ current = NoEdge /\ todo = NoProds /\ phase = "initialize"
Init == \E g \in Graphs : Start(g, {})

\* The edges on a work list, and the list with E pushed: what is on it already
\* is not pushed again.
Pending(w) == UNION {w[n] : n \in 1..Len(w)}
Push(w, E) == IF E \subseteq Pending(w) THEN w ELSE Append(w, E \ Pending(w))

\* Broken: an edge is pushed whether or not it was new.
MutPushAlways(E) == graph' = graph \union E /\ worklist' = Push(worklist, E)

\* addCFLEdge of every edge in E; those the graph did not hold are pushed.
AddAndPush(E) ==
    /\ graph' = graph \union E
    /\ worklist' = Push(worklist, E \ graph)

\* Every edge is pushed again at the start of every solve, and X -> epsilon
\* puts X(i, i) at each node.
Initialize ==
    /\ phase = "initialize" /\ phase' = "solve"
    /\ graph' = graph \union EpsilonEdges(Node)
    /\ worklist' = Push(Push(worklist, graph), EpsilonEdges(Node) \ graph)
    /\ UNCHANGED <<given, current, todo, connected>>

\* Broken: the productions of the third loop are looked up by their first symbol.
MutProdsByFirst(Y) == [single |-> {p \in Unary : p[2] = Y},
                       first  |-> {p \in Binary : p[2] = Y},
                       second |-> {p \in Binary : p[2] = Y}]
\* Broken: the first loop runs over the productions of the second.
MutProdsMixed(Y) == [single |-> {p \in Binary : p[2] = Y},
                     first  |-> {}, second |-> {p \in Binary : p[3] = Y}]

\* The productions processCFLEdge goes through for a label.
ProdsOf(Y) == [single |-> {p \in Unary : p[2] = Y},
               first  |-> {p \in Binary : p[2] = Y},
               second |-> {p \in Binary : p[3] = Y}]

\* The work list without the edge e of its first set.
Drop(w, e) == IF Head(w) = {e} THEN Tail(w) ELSE [w EXCEPT ![1] = @ \ {e}]

Pop ==
    /\ phase = "solve" /\ Idle
    /\ worklist # <<>>
    /\ \E e \in Head(worklist) \ {NoEdge} :
         /\ \A x \in Head(worklist) \ {NoEdge} : Rank[e] <= Rank[x]
         /\ current' = e /\ todo' = ProdsOf(e.kind)
         /\ worklist' = Drop(worklist, e)
    /\ UNCHANGED <<given, graph, phase, connected>>

\* X -> Y
SingleRHS ==
    \E p \in todo.single :
      /\ todo' = [todo EXCEPT !.single = @ \ {p}]
      /\ AddAndPush({edge(current.src, p[1], current.dst)})
      /\ UNCHANGED <<given, current, phase, connected>>

\* X -> Y Z: join the current edge with the Z edges that leave its target.
FirstRHS ==
    /\ todo.single = {}
    /\ \E p \in todo.first :
         /\ todo' = [todo EXCEPT !.first = @ \ {p}]
         /\ AddAndPush({edge(current.src, p[1], z.dst) :
                          z \in {x \in graph : x.kind = p[3] /\ x.src = current.dst}})
    /\ UNCHANGED <<given, current, phase, connected>>

\* X -> Z Y: join the Z edges that reach its source with the current edge.
SecondRHS ==
    /\ todo.single = {} /\ todo.first = {}
    /\ \E p \in todo.second :
         /\ todo' = [todo EXCEPT !.second = @ \ {p}]
         /\ AddAndPush({edge(z.src, p[1], current.dst) :
                          z \in {x \in graph : x.kind = p[2] /\ x.dst = current.src}})
    /\ UNCHANGED <<given, current, phase, connected>>

SolveEnds ==
    /\ phase = "solve" /\ Idle /\ worklist = <<>>
    /\ phase' = "update" /\ current' = NoEdge
    /\ UNCHANGED <<given, graph, worklist, todo, connected>>
-----------------------------------------------------------------------------
\* addCopyEdge: nothing for a copy edge that exists, else the edge and its
\* inverse; what addCFLEdge returns is pushed, nullptr for one that existed.
NewCopies(pairs) == {c \in pairs : edge(c[1], copy, c[2]) \notin graph}
CopyEdges(pairs) == {edge(c[1], copy, c[2]) : c \in pairs}
CopyBarEdges(pairs) == {edge(c[2], copybar, c[1]) : c \in pairs}

\* resolveIndCalls; programs are taken to have fewer call edges than
\* IndirectCallLimit (50,000), where it gives up, and arguments that match.
NewCalls == {c \in Calls \ connected : c.need \in graph}

\* Broken: the call graph is updated once, and the solver run again once at most.
MutUpdateOnce ==
    LET pairs == NewCopies(UNION {c.copies : c \in NewCalls})
        added == CopyEdges(pairs) \union CopyBarEdges(pairs)
    IN  /\ phase = "update" /\ phase' = IF connected = {} THEN "initialize" ELSE "done"
        /\ connected' = connected \union NewCalls
        /\ graph' = graph \union added /\ given' = given \union added
        /\ worklist' = Push(worklist, added \ graph)
        /\ UNCHANGED <<current, todo>>

UpdateCallGraph ==
    LET pairs == NewCopies(UNION {c.copies : c \in NewCalls})
        added == CopyEdges(pairs) \union CopyBarEdges(pairs)
        bad   == IF added \intersect graph = {} THEN {} ELSE {NoEdge}
    IN  /\ phase = "update"
        /\ connected' = connected \union NewCalls
        /\ graph' = graph \union added
        /\ given' = given \union added
        /\ worklist' = Push(worklist, (added \ graph) \union bad)
        /\ phase' = IF worklist' = <<>> THEN "done" ELSE "initialize"
        /\ UNCHANGED <<current, todo>>

ProcessCFLEdge == SingleRHS \/ FirstRHS \/ SecondRHS
Done == phase = "done" /\ UNCHANGED vars
Next == Initialize \/ Pop \/ ProcessCFLEdge \/ SolveEnds \/ UpdateCallGraph \/ Done
Spec == Init /\ [][Next]_vars /\ WF_vars(Next)
-----------------------------------------------------------------------------
\* Edges are processed one at a time against the edges present then.  Two edges
\* that a production joins must not both have left the work list before the
\* edge they derive is in the graph (processCFLEdge's two loops).
PairHandled(p, y, z) ==
    \/ edge(y.src, p[1], z.dst) \in graph
    \/ y \in Pending(worklist) \/ z \in Pending(worklist)
    \/ current = y /\ p \in todo.first
    \/ current = z /\ p \in todo.second
NoPairMissed ==
    phase # "initialize" =>
      \A p \in Binary : \A y, z \in graph :
        y.kind = p[2] /\ z.kind = p[3] /\ y.dst = z.src => PairHandled(p, y, z)

\* When the work list has run empty no production yields another edge, whatever
\* call edges were connected on the way (CFLSolver::solve, CFLAlias::solve).
ClosedWhenSolved == phase \in {"update", "done"} => Closed(graph)

\* Solving and connecting calls come to an end.
Termination == <>(phase = "done")

\* The solver keeps the promise of a CFL-reachability solver.
Promised == INSTANCE CFLReachability WITH base <- given,
             resting <- phase \in {"update", "done"}
Promise == Promised!Spec
=============================================================================
