-------------------------- MODULE FlowSensitiveSCD --------------------------
(***************************************************************************)
(* The analysis on the flow-sensitive constraint graph (FlowSensitiveSCD), *)
(* run on the same value-flow graph once the sparse analysis it is to      *)
(* replace is done, so that the two answers can be compared.  A round of   *)
(* solveConstraints collapses the cycles reachable from the candidates,    *)
(* lets new targets flow once through the nodes in topological order,      *)
(* turns the loads and stores of changed nodes into copy edges between     *)
(* versions, and connects callees; rounds repeat while edges are added.    *)
(* A strong update empties the version it overwrites at that moment.       *)
(***************************************************************************)
EXTENDS FlowSensitive, FSConsG

VARIABLES copyEdges, loadEdges, storeEdges,
          rep,            \* nodeToRepMap
          cgPts, propa,   \* points-to sets, and the part already propagated
          sccCandidates,
          nodeStack,      \* nodes the wave has still to visit
          cgWorklist,
          dueStores,      \* store edges of the current node still to be handled
          cgConnected, reanalyze, pc,
          cleared         \* history: nodes a strong update has emptied

cgGraph == <<copyEdges, loadEdges, storeEdges, rep>>
cgVars == <<cgGraph, cgPts, propa, sccCandidates, nodeStack, cgWorklist, dueStores,
            cgConnected, reanalyze, pc, cleared>>
allVars == <<vars, cgVars>>

getPts(n) == cgPts[rep[n]]
AddrStmts == {l \in Loc : stmt(l).kind = "addr"}
Pointer(l) == plain(Only(stmt(l).dst))

(* FSConsG's constructor and processAllAddr. *)
CGInit ==
    /\ copyEdges = CopyEdges(prog)
    /\ loadEdges = AccessEdges(prog, "load") /\ storeEdges = AccessEdges(prog, "store")
    /\ rep = [n \in CGNode |-> n]
    /\ cgPts = [n \in CGNode |-> UNION {stmt(l).obj : l \in {k \in AddrStmts : n = Pointer(k)}}]
    /\ propa = [n \in CGNode |-> {}]
    /\ sccCandidates = {Pointer(l) : l \in AddrStmts}
    /\ nodeStack = {} /\ cgWorklist = {} /\ dueStores = {}
    /\ cgConnected = {} /\ reanalyze = FALSE /\ pc = "detect" /\ cleared = {}

-----------------------------------------------------------------------------
(* SCCDetect and mergeSccCycle. *)
succs(S) == {c[2] : c \in {e \in copyEdges : e[1] \in S}}
ReachedFrom(S) ==
    LET grow[T \in SUBSET CGNode] == IF succs(T) \subseteq T THEN T ELSE grow[T \union succs(T)]
    IN  grow[S]

(* The cycles the search finds, and where it can have entered one: the node  *)
(* it enters a cycle at represents it.                                       *)
Cycles ==
    LET reach == [n \in ReachedFrom(sccCandidates) |-> ReachedFrom({n})]
    IN  {C \in {{m \in reach[n] : n \in reach[m]} : n \in DOMAIN reach} : ~Single(C)}
Entries(C) ==
    {n \in C : n \in sccCandidates
               \/ \E m \in ReachedFrom(sccCandidates) \ C : <<m, n>> \in copyEdges}

(* An edge that has become a duplicate is lost, with its place.              *)
OneOfEach(E) ==
    {S \in SUBSET E : \A e \in E : \E f \in S : \A g \in S :
        g.src = e.src /\ g.dst = e.dst <=> g = f}

(* What merging leaves of the propagated sets of the nodes in C.             *)
propagatedByAll(C) == {o \in UNION {propa[n] : n \in C} : \A n \in C : o \in propa[n]}

SCCDetect ==
    /\ pc = "detect"
    /\ \E S \in {Cycles} : \E head \in {h \in [S -> UNION S] : \A C \in S : h[C] \in Entries(C)} :
         LET merged(n) == IF n \in UNION S THEN head[CHOOSE C \in S : n \in C] ELSE n
             moved(E) == {[e EXCEPT !.src = merged(@), !.dst = merged(@)] : e \in E}
             into(n)  == {n} \union UNION {C \in S : head[C] = n}
         IN /\ rep' = [n \in CGNode |-> merged(rep[n])]
            /\ cgPts' = [n \in CGNode |-> UNION {cgPts[m] : m \in into(n)}]
            /\ propa' = [n \in CGNode |-> propagatedByAll(into(n))]
            /\ copyEdges' = {<<merged(c[1]), merged(c[2])>> :
                                c \in {e \in copyEdges : merged(e[1]) # merged(e[2])}}
            /\ loadEdges' \in OneOfEach(moved(loadEdges))
            /\ storeEdges' \in OneOfEach(moved(storeEdges))
            /\ nodeStack' = {merged(n) : n \in ReachedFrom(sccCandidates)}
            /\ cgWorklist' = {merged(n) : n \in sccCandidates}
    /\ sccCandidates' = {} /\ reanalyze' = FALSE /\ pc' = "wave"
    /\ UNCHANGED <<vars, dueStores, cgConnected, cleared>>

-----------------------------------------------------------------------------
(* The wave.  Nothing leads back to a node that was visited, so every        *)
(* topological order gives the same; one of them is followed.                *)
gain(n) == {m \in CGNode : <<n, m>> \in copyEdges /\ ~(cgPts[n] \ propa[n] \subseteq cgPts[m])}

handleCopyGep ==
    /\ pc = "wave" /\ nodeStack # {}
    /\ LET n == CHOOSE m \in nodeStack : \A k \in nodeStack : <<k, m>> \notin copyEdges
           D == cgPts[n] \ propa[n]
       IN /\ nodeStack' = nodeStack \ {n}
          /\ IF n \notin cgWorklist THEN UNCHANGED <<cgPts, propa, cgWorklist>>
             ELSE /\ propa' = [propa EXCEPT ![n] = cgPts[n]]
                  /\ cgPts' = [m \in CGNode |-> cgPts[m] \union IF <<n, m>> \in copyEdges THEN D ELSE {}]
                  /\ cgWorklist' = cgWorklist \union gain(n)
    /\ UNCHANGED <<vars, cgGraph, sccCandidates, dueStores, cgConnected, reanalyze, pc, cleared>>

WaveEnds ==
    /\ pc = "wave" /\ nodeStack = {} /\ pc' = "accesses"
    /\ UNCHANGED <<vars, cgGraph, cgPts, propa, sccCandidates, nodeStack, cgWorklist, dueStores,
                   cgConnected, reanalyze, cleared>>

-----------------------------------------------------------------------------
(* addCopyEdge: what the source has propagated may not have reached the      *)
(* destination, and the search starts from the source next time.             *)
MutKeepPropa(s, d, P) == P   \* broken: the source is not to propagate again
propaAfterEdge(s, d, P) == [P EXCEPT ![s] = @ \intersect P[d]]
addCopyEdge(c, G) ==
    IF c[1] = c[2] \/ c \in G.edges THEN G
    ELSE [edges |-> G.edges \union {c}, propa |-> propaAfterEdge(c[1], c[2], G.propa),
          from |-> G.from \union {c[1]}]
addCopyEdges(C) ==
    \E G \in {FoldSet(addCopyEdge, [edges |-> copyEdges, propa |-> propa, from |-> {}], C)} :
        /\ copyEdges' = G.edges /\ propa' = G.propa
        /\ sccCandidates' = sccCandidates \union G.from
askAgain == reanalyze' = (reanalyze \/ copyEdges' # copyEdges)

(* Loads and stores of the nodes that changed (handleLoadStore): first the   *)
(* loads of a node, then its stores, one edge after the other.  What is      *)
(* loaded and stored is always a pointer here (processLoad and processStore  *)
(* pass over the accesses where it is not).                                  *)
Accessed == {e.src : e \in loadEdges} \union {e.dst : e \in storeEdges}
version(o, e) == rep[getAddrDef(prog, o, e.loc)]

handleLoads(n) ==
    /\ pc = "accesses" /\ dueStores = {} /\ n \in cgWorklist \intersect Accessed
    /\ cgWorklist' = cgWorklist \ {n}
    /\ addCopyEdges({<<version(x[1], x[2]), x[2].dst>> :
                        x \in (cgPts[n] \ prog.const) \X {e \in loadEdges : e.src = n}})
    /\ askAgain
    /\ dueStores' = {e \in storeEdges : e.dst = n}
    /\ UNCHANGED <<vars, loadEdges, storeEdges, rep, cgPts, nodeStack, cgConnected, pc, cleared>>

(* isStrongUpdate: the versions a store edge overwrites whole.               *)
emptied(e) ==
    {getAddrDef(prog, o, e.loc) :
        o \in {x \in cgPts[e.dst] \ (prog.weak \union prog.const) : cgPts[e.dst] = {x}}}

handleStore(e) ==
    /\ e \in dueStores /\ dueStores' = dueStores \ {e}
    /\ addCopyEdges({<<e.src, version(o, e)>> : o \in cgPts[e.dst] \ prog.const})
    /\ askAgain
    /\ cgPts' = [n \in CGNode |-> IF n \in emptied(e) THEN {} ELSE cgPts[n]]
    /\ cleared' = cleared \union {n \in emptied(e) : rep[n] = n}
    /\ UNCHANGED <<vars, loadEdges, storeEdges, rep, nodeStack, cgWorklist, cgConnected, pc>>

(* The rest of the work list has neither loads nor stores.                   *)
AccessesEnd ==
    /\ pc = "accesses" /\ dueStores = {} /\ cgWorklist \intersect Accessed = {}
    /\ cgWorklist' = {} /\ pc' = "connect"
    /\ UNCHANGED <<vars, cgGraph, cgPts, propa, sccCandidates, nodeStack, dueStores, cgConnected,
                   reanalyze, cleared>>

(* updateCallGraph, connectCaller2CalleeParams: only pointers are passed.    *)
(* Programs are taken to have fewer call edges than IndirectCallLimit        *)
(* (50,000), where resolveIndCalls gives up, and arguments that match.       *)
connectCallees ==
    LET new == {c \in prog.calls \ cgConnected : c.fun \in getPts(plain(c.fp))}
    IN /\ pc = "connect"
       /\ cgConnected' = cgConnected \union new
       /\ addCopyEdges({<<rep[c[1]], rep[c[2]]>> :
                           c \in PassCopies(prog, UNION {k.passes : k \in new})})
       /\ pc' = IF reanalyze \/ new # {} THEN "detect" ELSE "done"
       /\ UNCHANGED <<vars, loadEdges, storeEdges, rep, cgPts, nodeStack, cgWorklist, dueStores,
                      reanalyze, cleared>>

CGNext ==
    \/ SCCDetect \/ handleCopyGep \/ WaveEnds
    \/ \E n \in cgWorklist : handleLoads(n)
    \/ \E e \in dueStores : handleStore(e)
    \/ AccessesEnd \/ connectCallees

BothInit == Init /\ CGInit
BothNext ==
    \/ phase # "done" /\ Next /\ UNCHANGED cgVars
    \/ phase = "done" /\ CGNext
    \/ pc = "done" /\ UNCHANGED allVars
\* Both analyses are loops that go on until they return.
BothSpec == BothInit /\ [][BothNext]_allVars /\ WF_allVars(BothNext)

-----------------------------------------------------------------------------
\* What a strong update has emptied, and how a required edge can be there.
Emptied(n) == \E x \in cleared : rep[x] = n
Linked(c) == c[1] = c[2] \/ c \in copyEdges

CGTypeOK ==
    /\ copyEdges \subseteq CGNode \X CGNode
    /\ \A e \in loadEdges \union storeEdges : {e.src, e.dst} \subseteq CGNode /\ e.loc \in Loc
    /\ rep \in [CGNode -> CGNode]
    /\ cgPts \in [CGNode -> SUBSET Obj] /\ propa \in [CGNode -> SUBSET Obj]
    /\ UNION {sccCandidates, nodeStack, cgWorklist, cleared} \subseteq CGNode
    /\ dueStores \subseteq storeEdges /\ cgConnected \subseteq prog.calls
    /\ reanalyze \in BOOLEAN /\ pc \in {"detect", "wave", "accesses", "connect", "done"}

\* Although a round only searches from the sources of new edges and propagates
\* only what a node has not propagated, in the end every constraint between
\* nodes that remain holds, and every load and store has its copy edges, except
\* where a strong update has emptied a node that counted as propagated
\* (solveWorklist, addCopyEdge, processStore).
SolvedUnlessEmptied ==
    /\ CGTypeOK
    /\ pc = "done" =>
         /\ \A c \in copyEdges : Emptied(c[2]) \/ cgPts[c[1]] \subseteq cgPts[c[2]]
         /\ \A l \in AddrStmts : Emptied(rep[Pointer(l)]) \/ stmt(l).obj \subseteq getPts(Pointer(l))
         /\ \A e \in loadEdges : \A o \in cgPts[e.src] \ prog.const : Linked(<<version(o, e), e.dst>>)
         /\ \A e \in storeEdges : \A o \in cgPts[e.dst] \ prog.const : Linked(<<e.src, version(o, e)>>)

\* Where the two analyses may differ: a version passes a store the sparse analysis
\* lets nothing through, a load has no version for what it reads, a call receives
\* more than its callee returns, or an access has lost its place.
NothingHeldBack == \A f \in indirectEdgeSet(prog) :
    stmt(f.to).kind = "store" => ~blocked(f.to) /\ f.obj \notin overwritten(f.to)
LoadsVersioned == \A l \in Loc :
    stmt(l).kind = "load" => \A o \in Touched(stmt(l).src) : <<o, l>> \in Versions(prog)
ReturnsApart == \A e \in prog.passes :
    e[1] \in FormalRet => PtsOf(stmt(e[2]).dst) \subseteq PtsOf(stmt(e[1]).src)
PlacesKept == \A l \in Loc :
    /\ stmt(l).kind = "load" => \E e \in loadEdges : e.loc = l
    /\ stmt(l).kind = "store" => \E e \in storeEdges : e.loc = l

\* At every moment, however cycles are merged, no target the sparse analysis
\* rules out; and nothing lost at the end where objects stay inside one function:
\* across calls it may find less, see indirectEdgeSet, and so it may when a strong
\* update empties a version that cycles have merged with pointers.
WithinSparse ==
    phase = "done" /\ NothingHeldBack /\ LoadsVersioned /\ ReturnsApart =>
        \A v \in Var : getPts(plain(v)) \subseteq pts[v]
CoversSparse ==
    pc = "done" /\ cleared = {} /\ prog.calls = {} /\ flows \subseteq indirectEdgeSet(prog) /\ PlacesKept =>
        \A v \in Var : pts[v] \subseteq getPts(plain(v))

\* The constraint graph has the precision of the sparse analysis, and its answers:
\* its versions express the flow, and neither merging nor searching only from new
\* edges disturbs that (buildSVFG2CG, getAddrDef, mergeSccCycle, solveConstraints).
AgreesWithSparse == WithinSparse /\ CoversSparse

\* What the README claims: the constraint graph keeps the precision of the
\* flow-sensitive analysis.  It does not where a strong update is possible: an
\* overwritten object is emptied when the store is processed, and its former
\* targets arrive along the version edge afterwards (processStore).
Precise == pc = "done" => \A v \in Var : getPts(plain(v)) \subseteq pts[v]

\* Both analyses end, although strong updates shrink sets that are propagated
\* again (solveConstraints of both).
BothEnd == <>(pc = "done")
=============================================================================
