----------------------------- MODULE POCRSolver -----------------------------
(***************************************************************************)
(* POCRSolver keeps the edges a second time, as a map from a node to its   *)
(* successors by label and one to its predecessors, joins edges by whole   *)
(* sets through these maps, and inserts into the graph what was new to     *)
(* them.  The maps are filled from the graph when the solver is made.      *)
(***************************************************************************)
EXTENDS CFLSolver

VARIABLES succMap, predMap,   \* the two maps, as the edges they hold
          keys                \* nodes that have an entry in succMap

maps == <<succMap, predMap, keys>>

Sources(E) == {e.src : e \in E}

\* buildCFLData: addEdge for every edge of the graph.
buildCFLData(g) == succMap = g /\ predMap = g /\ keys = Sources(g)

\* graph->addCFLEdge for the edges that were new to the maps, and their push.
InsertAndPush(fresh) ==
    /\ graph' = graph \union fresh
    /\ worklist' = Push(worklist, (fresh \ graph) \union
                                  (IF fresh \intersect graph = {} THEN {} ELSE {NoEdge}))

\* addEdge, for each edge of E: it is new if its target did not know it.
AddEdge(E) ==
    /\ succMap' = succMap \union E /\ predMap' = predMap \union E
    /\ keys' = keys \union Sources(E)
    /\ InsertAndPush(E \ predMap)

\* addEdges from one source: none is new if the source knew all of them.
AddEdgesFrom(E) ==
    IF E \subseteq succMap THEN UNCHANGED <<graph, worklist, succMap, predMap>>
    ELSE /\ succMap' = succMap \union E /\ predMap' = predMap \union E
         /\ InsertAndPush(E \ predMap)

\* Broken: the sources are not told.
MutSourcesNotTold(E) ==
    IF E \subseteq predMap THEN UNCHANGED <<graph, worklist, maps>>
    ELSE /\ predMap' = predMap \union E /\ UNCHANGED <<succMap, keys>>
         /\ InsertAndPush(E \ succMap)

\* addEdges to one target: none is new if the target knew all of them.
AddEdgesTo(E) ==
    IF E \subseteq predMap THEN UNCHANGED <<graph, worklist, maps>>
    ELSE /\ succMap' = succMap \union E /\ predMap' = predMap \union E
         /\ keys' = keys \union Sources(E)
         /\ InsertAndPush(E \ succMap)

\* Self loops go to the nodes with an entry in succMap.
POCRInitialize ==
    LET loops == EpsilonEdges(keys)
        fresh == loops \ predMap
    IN  /\ phase = "initialize" /\ phase' = "solve"
        /\ succMap' = succMap \union loops /\ predMap' = predMap \union loops
        /\ graph' = graph \union fresh
        /\ worklist' = Push(Push(worklist, graph), (fresh \ graph) \union
                            (IF fresh \intersect graph = {} THEN {} ELSE {NoEdge}))
        /\ UNCHANGED <<given, current, todo, connected, keys>>

POCRSingleRHS ==
    \E p \in todo.single :
      /\ todo' = [todo EXCEPT !.single = @ \ {p}]
      /\ AddEdge({edge(current.src, p[1], current.dst)})
      /\ UNCHANGED <<given, current, phase, connected>>

POCRFirstRHS ==
    /\ todo.single = {}
    /\ \E p \in todo.first :
         /\ todo' = [todo EXCEPT !.first = @ \ {p}]
         /\ LET E == {edge(current.src, p[1], z.dst) :
                        z \in {x \in succMap : x.kind = p[3] /\ x.src = current.dst}}
            IN  AddEdgesFrom(E) /\ keys' = keys \union {current.dst} \union Sources(E)
    /\ UNCHANGED <<given, current, phase, connected>>

POCRSecondRHS ==
    /\ todo.single = {} /\ todo.first = {}
    /\ \E p \in todo.second :
         /\ todo' = [todo EXCEPT !.second = @ \ {p}]
         /\ AddEdgesTo({edge(z.src, p[1], current.dst) :
                          z \in {x \in predMap : x.kind = p[2] /\ x.dst = current.src}})
    /\ UNCHANGED <<given, current, phase, connected>>

\* The loop and the call graph are the base class's: addCopyEdge changes the
\* graph and the work list, not the maps.
POCRProcess == POCRSingleRHS \/ POCRFirstRHS \/ POCRSecondRHS
POCRNext ==
    \/ POCRInitialize \/ POCRProcess
    \/ (Pop \/ SolveEnds \/ UpdateCallGraph \/ Done) /\ UNCHANGED maps
-----------------------------------------------------------------------------
\* The two maps are inverse to each other and say what the graph says, however
\* addEdge and addEdges shortcut one of them (POCRSolver::addEdges).
InStep == succMap = predMap /\ succMap = graph

\* "For each production X -> Y Z, foreach outgoing edge Z(j,k) from node j do
\* add X(i,k) if not exist to E and to worklist" (POCRSolver::processCFLEdge).
JoinsAdded == phase \in {"update", "done"} => ClosedBinary(graph)
=============================================================================
