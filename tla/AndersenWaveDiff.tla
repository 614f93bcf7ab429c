-------------------------- MODULE AndersenWaveDiff --------------------------
(***************************************************************************)
(* The default whole-program pointer analysis: Andersen's constraints      *)
(* solved by wave propagation with difference propagation, online cycle    *)
(* elimination, collapsing of positive-weight cycles and an on-the-fly     *)
(* call graph.  One round of solveConstraints is                           *)
(*                                                                         *)
(*   SCCDetect, mergeSccCycle   collapse every cycle of direct edges;      *)
(*   wave                       visit the nodes in topological order and   *)
(*                              send each node's new targets along its     *)
(*                              copy and gep edges, collapsing structures  *)
(*                              that stop being field-sensitive;           *)
(*   post                       turn the loads and stores of the nodes     *)
(*                              whose points-to set changed into copies;   *)
(*   updateCallGraph            connect newly discovered callees,          *)
(*                                                                         *)
(* and rounds repeat while the last one set reanalyze.                     *)
(***************************************************************************)
EXTENDS ConsG, FiniteSets

CONSTANTS Programs,   \* the programs to analyse: [stmts, calls]
          constObj,   \* constant objects (isConstantObj)
          blkObj,     \* the black hole object, as a set
          formal,     \* formal parameter of each function object
          funRet      \* return variable of each function object

CallSite == [fp : Var, arg : Var, res : Var]

ASSUME AndersenAssumption ==
    /\ Programs \subseteq [stmts : SUBSET Edge, calls : SUBSET CallSite]
    /\ constObj \subseteq Obj /\ blkObj \subseteq Obj
    /\ formal \in [DOMAIN formal -> Var] /\ DOMAIN formal \subseteq Obj
    /\ funRet \in [DOMAIN formal -> Var]
    \* Fields of constants are constants, and a program is finite.
    /\ \A o \in Obj : baseOf[o] \in constObj => o \in constObj
    /\ IsFiniteSet(Var) /\ IsFiniteSet(Obj)
    \* Statements take the address of base objects; in SSA form no pointer is copied
    \* or computed from itself.
    /\ \A P \in Programs : \A e \in P.stmts :
         /\ e.kind = "addr" => e.src \in Obj /\ baseOf[e.src] = e.src /\ e.dst \in Var
         /\ e.kind # "addr" => e.src \in Var /\ e.dst \in Var
         /\ e.kind \in DirectKind => e.src # e.dst

isBlkObjOrConstantObj(o) == o \in constObj \union blkObj
isField(o) == baseOf[o] # o

VARIABLES prog,        \* the program being analysed
          edges,       \* the constraint graph
          alive,       \* the nodes of the constraint graph
          rep, subs,   \* nodeToRepMap (identity where it has no entry), nodeToSubsMap
          pwc,         \* nodes flagged as part of a positive-weight cycle
          pts, propa,  \* points-to sets, and the part of them already propagated
          fi,          \* field-insensitive base objects
          worklist,    \* nodes whose loads and stores are due
          reanalyze,
          resolved,    \* indirect call edges found so far
          \* where the solver is
          pc,          \* "detect", "wave", "visit", "post", "connect", "done"
          merges,      \* sub/rep pairs mergeSccCycle has still to merge
          left,        \* the topological node stack of this wave: nodes still on it
          before,      \* the order of that stack: pairs that must come out in order
          current,     \* the node being visited
          newCopies,   \* copy edges the current loop has still to add
          toCollapse,  \* nodesToBeCollapsed
          agenda,      \* objects collapseNodePts has still to look at
          collapsing   \* the collapseField call in progress, or NotCollapsing

graph == <<edges, alive, rep, subs, pwc>>
facts == <<pts, propa, fi>>
control == <<pc, merges, left, before, current, newCopies, toCollapse, agenda, collapsing>>
vars == <<prog, graph, facts, worklist, reanalyze, resolved, control>>

NotCollapsing == [base |-> {}, rep |-> {}, fields |-> {}]

sccRepNode(n) == rep[n]
getPts(n) == pts[rep[n]]
isFieldInsensitive(o) == baseOf[o] \in fi
\* A field object is on the graph once getGepObjVar has created it.
onGraph(n) == n \in alive \/ rep[n] # n

-----------------------------------------------------------------------------
(* Andersen::initialize: build the graph, processAllAddr. *)
Init ==
    /\ prog \in Programs
    /\ edges = prog.stmts
    /\ alive = Var \union {o \in Obj : ~isField(o)}
    /\ rep = [n \in Node |-> n]
    /\ subs = [n \in Node |-> {}]
    /\ pwc = {}
    /\ pts = [n \in Node |-> {e.src : e \in {x \in OfKind(prog.stmts, "addr") : x.dst = n}}]
    /\ propa = [n \in Node |-> {}]
    /\ fi = {}
    /\ worklist = {e.dst : e \in OfKind(prog.stmts, "addr")}
    /\ reanalyze = FALSE
    /\ resolved = {}
    /\ pc = "detect"
    /\ merges = {} /\ left = {} /\ before = {} /\ current = CHOOSE v \in Var : TRUE
    /\ newCopies = {}
    /\ toCollapse = {} /\ agenda = {} /\ collapsing = NotCollapsing

-----------------------------------------------------------------------------
(* What merging s into r leaves of the propagated sets, and the new           *)
(* representatives: s and everything merged into s earlier now stand under r.*)
MutKeepPropa(s, r) == propa   \* a broken variant: no updatePropaPts
propaAfterMerge(s, r) == [propa EXCEPT ![r] = @ \intersect propa[s]]

MutForgetSubs(s, r) == [rep EXCEPT ![s] = r]   \* broken: earlier subs keep s
repAfterMerge(s, r) == [n \in Node |-> IF n \in subs[s] \union {s} THEN r ELSE rep[n]]

(* mergeSrcToTgt(s, r), starting from the points-to sets P.  Note that r is  *)
(* not put on the worklist.                                                *)
mergeSrcToTgt(s, r, P) ==
    /\ propa' = propaAfterMerge(s, r)
    /\ pts' = [P EXCEPT ![r] = @ \union P[s]]
    /\ edges' = moveEdgesToRepNode(edges, s, r)
    /\ pwc' = (pwc \union (IF criticalGepInsideSCC(edges, s, r) \/ s \in pwc
                           THEN {r} ELSE {})) \ {s}
    /\ rep' = repAfterMerge(s, r)
    /\ subs' = [subs EXCEPT ![r] = @ \union subs[s] \union {s}, ![s] = {}]
    /\ alive' = alive \ {s}

(* SCC detection over the direct edges.  R holds the representative of each *)
(* component; the node stack holds R in a topological order of the          *)
(* condensation, any of which SCC.h may produce.                            *)
MutOneWay(reach, n, m) == <<n, m>> \in reach   \* broken: reached is taken for strongly connected
sameSCC(reach, n, m) == <<n, m>> \in reach /\ <<m, n>> \in reach
MutReversed(reach, R) == {p \in R \X R : p[1] # p[2] /\ <<p[2], p[1]>> \in reach}   \* broken order
inOrder(reach, R) == {p \in R \X R : p[1] # p[2] /\ p \in reach}

SCCDetect ==
    /\ pc = "detect"
    /\ \E reach \in {Reaches(edges, alive)} : \E R \in SUBSET alive :
           /\ \A n \in alive : \E r \in R : sameSCC(reach, n, r)
           /\ \A r, q \in R : sameSCC(reach, r, q) => r = q
           /\ merges' = {p \in (alive \ R) \X R : sameSCC(reach, p[1], p[2])}
           /\ left' = R
           /\ before' = inOrder(reach, R)
    /\ pc' = "wave"
    /\ UNCHANGED <<prog, graph, facts, worklist, reanalyze, resolved,
                   current, newCopies, toCollapse, agenda, collapsing>>

mergeSccNode(s, r) ==
    /\ <<s, r>> \in merges
    /\ mergeSrcToTgt(s, r, pts)
    /\ merges' = merges \ {<<s, r>>}
    /\ UNCHANGED <<prog, fi, worklist, reanalyze, resolved, pc, left, before,
                   current, newCopies, toCollapse, agenda, collapsing>>

-----------------------------------------------------------------------------
(* Collapsing structures: collapseFields takes what processGep queued,      *)
(* collapseNodePts the still field-sensitive targets of a PWC node.         *)
pendingPts == {o \in agenda : ~isFieldInsensitive(o) /\ ~isBlkObjOrConstantObj(o)}
idle == merges = {} /\ collapsing = NotCollapsing /\ pendingPts = {}

collapseField(o) ==
    LET base == baseOf[o]
    IN  /\ collapsing = NotCollapsing
        /\ IF pendingPts # {} THEN o \in pendingPts ELSE merges = {} /\ o \in toCollapse
        /\ fi' = fi \union {base}
        /\ collapsing' = [base |-> {base}, rep |-> {rep[base]},
                          fields |-> {f \in Obj : baseOf[f] = base /\ f # base /\ onGraph(f)}]
        /\ toCollapse' = IF pendingPts # {} THEN toCollapse ELSE toCollapse \ {o}
        /\ UNCHANGED <<prog, graph, pts, propa, worklist, reanalyze, resolved, pc,
                       merges, left, before, current, newCopies, agenda>>

(* One field f of the object: whoever points to f now points to the base,   *)
(* and f's node is merged into the base's node.                             *)
collapseOneField(f) ==
    LET revPts == {n \in Node : f \in pts[n]}
    IN  /\ f \in collapsing.fields
        /\ \E base \in collapsing.base, r \in collapsing.rep :
             LET P == [n \in Node |-> IF n \in revPts THEN (pts[n] \ {f}) \union {base}
                                      ELSE pts[n]]
             IN  IF rep[f] = r
                 THEN pts' = P /\ UNCHANGED <<propa, graph>>
                 ELSE mergeSrcToTgt(rep[f], r, P)
        /\ worklist' = worklist \union {rep[n] : n \in revPts}
        /\ reanalyze' = (reanalyze \/ revPts # {})
        /\ collapsing' = [collapsing EXCEPT !.fields = @ \ {f}]
        /\ UNCHANGED <<prog, fi, resolved, pc, merges, left, before, current,
                       newCopies, toCollapse, agenda>>

endCollapseField ==
    /\ collapsing # NotCollapsing /\ collapsing.fields = {}
    /\ agenda' = agenda \union UNION {pts[r] : r \in collapsing.rep \intersect pwc}
    /\ collapsing' = NotCollapsing
    /\ UNCHANGED <<prog, graph, facts, worklist, reanalyze, resolved, pc, merges,
                   left, before, current, newCopies, toCollapse>>

-----------------------------------------------------------------------------
(* The wave.  Take the next node off the stack; if it is a PWC node,        *)
(* collapse its targets before it is processed.                             *)
visit(n) ==
    /\ pc = "wave" /\ idle /\ toCollapse = {}
    /\ n \in left
    /\ \A m \in left : <<m, n>> \notin before
    /\ left' = left \ {n}
    /\ current' = n
    /\ agenda' = IF rep[n] \in pwc THEN getPts(n) ELSE {}
    /\ pc' = "visit"
    /\ UNCHANGED <<prog, graph, facts, worklist, reanalyze, resolved, merges, before,
                   newCopies, toCollapse, collapsing>>

(* What edge e yields for one target o of its source: o itself, the field    *)
(* of o at the offset, or the whole structure.  The black hole and constants *)
(* have no fields, and a field-insensitive object keeps its own.            *)
MutAlwaysField(e, o) ==   \* broken: gives a field of a field-insensitive object
    CASE e.kind = "copy" \/ isBlkObjOrConstantObj(o) -> o
      [] e.kind = "vgep" /\ ~isBlkObjOrConstantObj(o) -> baseOf[o]
      [] e.kind = "ngep" /\ ~isBlkObjOrConstantObj(o) -> fieldOf[<<o, e.off>>]
edgeTarget(e, o) ==
    IF e.kind = "copy" \/ isBlkObjOrConstantObj(o) THEN o
    ELSE IF e.kind = "vgep" THEN baseOf[o]
    ELSE IF isFieldInsensitive(o) THEN o ELSE fieldOf[<<o, e.off>>]

(* What the new targets D of node n add to node d, over all edges n -> d.    *)
(* Normal geps come before variant geps, so they still see the objects as    *)
(* field-sensitive.                                                          *)
flowTo(n, d, D) ==
    {edgeTarget(e, o) :
        e \in {x \in edges : x.kind \in DirectKind /\ x.src = n /\ x.dst = d}, o \in D}
MutNothingDue(n, D) == {}   \* broken: pushIntoWorklist forgotten
changedBy(n, D) == {d \in Node : ~(flowTo(n, d, D) \subseteq pts[d])}

(* The objects that normal geps of n create (getGepObjVar), and those whose  *)
(* structure a variable gep of n makes field-insensitive.                    *)
gepFields(n, D) ==
    {edgeTarget(e, o) : e \in {x \in OfKind(edges, "ngep") : x.src = n}, o \in D}
losesFields(n, D) ==
    {baseOf[o] : o \in {x \in D : /\ ~isBlkObjOrConstantObj(x) /\ ~isFieldInsensitive(x)
                                  /\ \E e \in OfKind(edges, "vgep") : e.src = n}}

(* handleCopyGep on the current node (computeDiffPts, processCopy,          *)
(* processGep), unless it was merged away while it waited.                  *)
processNode ==
    /\ pc = "visit" /\ idle
    /\ LET n == current
           D == pts[n] \ propa[n]
       IN  IF rep[n] # n
           THEN UNCHANGED <<facts, alive, worklist, toCollapse>>
           ELSE /\ propa' = [propa EXCEPT ![n] = pts[n]]
                /\ pts' = [d \in Node |-> pts[d] \union flowTo(n, d, D)]
                /\ alive' = alive \union {f \in gepFields(n, D) : rep[f] = f}
                /\ fi' = fi \union losesFields(n, D)
                /\ toCollapse' = losesFields(n, D)
                /\ worklist' = worklist \union changedBy(n, D)
    /\ pc' = "wave"
    /\ agenda' = {}
    /\ UNCHANGED <<prog, edges, rep, subs, pwc, reanalyze, resolved, merges, left,
                   before, current, newCopies, collapsing>>

endWave ==
    /\ pc = "wave" /\ idle /\ toCollapse = {} /\ left = {}
    /\ pc' = "post"
    /\ UNCHANGED <<prog, graph, facts, worklist, reanalyze, resolved, merges, left,
                   before, current, newCopies, toCollapse, agenda, collapsing>>

-----------------------------------------------------------------------------
(* Loads and stores, after the wave (postProcessNode), for a node whose      *)
(* points-to set changed: each target becomes the source or the destination *)
(* of a copy edge.  The edges are added one at a time.                       *)
newCopyEdges(C) == {c \in C : isNewCopyEdge(edges, c[1], c[2])}

loadCopies(n)  == {<<rep[o], e.dst>> : o \in pts[n] \ constObj,
                                      e \in {x \in OfKind(edges, "load") : x.src = n}}
storeCopies(n) == {<<e.src, rep[o]>> : o \in pts[n] \ constObj,
                                      e \in {x \in OfKind(edges, "store") : x.dst = n}}

MutNotPopped(n) ==   \* broken: the node stays on the work list
    /\ pc = "post" /\ newCopies = {}
    /\ n \in worklist
    /\ newCopies' = newCopyEdges(loadCopies(rep[n]) \union storeCopies(rep[n]))
    /\ UNCHANGED <<prog, graph, facts, worklist, reanalyze, resolved, pc, merges, left, before,
                   current, toCollapse, agenda, collapsing>>

postProcessNode(n) ==
    /\ pc = "post" /\ newCopies = {}
    /\ n \in worklist
    /\ worklist' = worklist \ {n}
    /\ newCopies' = newCopyEdges(loadCopies(rep[n]) \union storeCopies(rep[n]))
    /\ UNCHANGED <<prog, graph, facts, reanalyze, resolved, pc, merges, left, before,
                   current, toCollapse, agenda, collapsing>>

(* A new copy edge: what its source has propagated so far may not have      *)
(* reached the destination, so the source is to propagate it again.  After  *)
(* an indirect call it is the source whose loads and stores are due.        *)
MutKeepPropaOnEdge(s, d) == propa   \* broken: no updatePropaPts
propaAfterEdge(s, d) == [propa EXCEPT ![s] = @ \intersect propa[d]]

addCopyEdge(s, d) ==
    /\ <<s, d>> \in newCopies
    /\ edges' = edges \union {PlainEdge("copy", s, d)}
    /\ propa' = propaAfterEdge(s, d)
    /\ newCopies' = newCopies \ {<<s, d>>}
    /\ IF pc = "post"
       THEN reanalyze' = TRUE /\ UNCHANGED worklist
       ELSE worklist' = worklist \union {s} /\ UNCHANGED reanalyze
    /\ UNCHANGED <<prog, alive, rep, subs, pwc, pts, fi, resolved, pc, merges, left,
                   before, current, toCollapse, agenda, collapsing>>

-----------------------------------------------------------------------------
(* The on-the-fly call graph: resolveIndCalls finds the callees of each      *)
(* indirect call that are not connected yet, connectCaller2CalleeParams     *)
(* copies the argument to the formal and the returned value to the result.  *)
(* Programs are taken to have fewer call edges than IndirectCallLimit        *)
(* (50,000), where resolveIndCalls gives up, and arguments that match.       *)
callees(cs) == {baseOf[o] : o \in getPts(cs.fp)} \intersect DOMAIN formal
newCallEdges == {c \in prog.calls \X DOMAIN formal : c[2] \in callees(c[1])} \ resolved

MutReturnOnly(cs, f) == {<<rep[funRet[f]], rep[cs.res]>>}   \* broken: no parameters
paramCopies(cs, f) == {<<rep[cs.arg], rep[formal[f]]>>, <<rep[funRet[f]], rep[cs.res]>>}

updateCallGraph ==
    /\ pc = "post" /\ newCopies = {} /\ worklist = {}
    /\ resolved' = resolved \union newCallEdges
    /\ reanalyze' = (reanalyze \/ newCallEdges # {})
    /\ newCopies' = newCopyEdges(UNION {paramCopies(c[1], c[2]) : c \in newCallEdges})
    /\ pc' = "connect"
    /\ UNCHANGED <<prog, graph, facts, worklist, merges, left, before, current,
                   toCollapse, agenda, collapsing>>

endRound ==
    /\ pc = "connect" /\ newCopies = {}
    /\ pc' = IF reanalyze THEN "detect" ELSE "done"
    /\ reanalyze' = FALSE
    /\ UNCHANGED <<prog, graph, facts, worklist, resolved, merges, left, before,
                   current, newCopies, toCollapse, agenda, collapsing>>

finished == pc = "done" /\ UNCHANGED vars

-----------------------------------------------------------------------------
Next ==
    \/ SCCDetect
    \/ \E s, r \in Node : mergeSccNode(s, r)
    \/ \E o \in Obj : collapseField(o) \/ collapseOneField(o)
    \/ endCollapseField
    \/ \E n \in Node : visit(n) \/ postProcessNode(n)
    \/ processNode
    \/ endWave
    \/ \E s, d \in Node : addCopyEdge(s, d)
    \/ updateCallGraph
    \/ endRound
    \/ finished

\* One thread runs the loop: it never stops before the analysis is done.
Spec == Init /\ [][Next]_vars /\ WF_vars(Next)

-----------------------------------------------------------------------------
(* Invariants *)

TypeOK ==
    /\ edges \subseteq Edge /\ alive \subseteq Node
    /\ rep \in [Node -> Node] /\ subs \in [Node -> SUBSET Node]
    /\ pwc \subseteq Node
    /\ pts \in [Node -> SUBSET Obj] /\ propa \in [Node -> SUBSET Obj]
    /\ fi \subseteq Obj
    /\ worklist \subseteq Node
    /\ reanalyze \in BOOLEAN
    /\ resolved \subseteq prog.calls \X DOMAIN formal
    /\ pc \in {"detect", "wave", "visit", "post", "connect", "done"}
    /\ merges \subseteq Node \X Node /\ left \subseteq Node
    /\ before \subseteq Node \X Node
    /\ current \in Node
    /\ newCopies \subseteq Node \X Node
    /\ toCollapse \subseteq Obj /\ agenda \subseteq Obj
    /\ collapsing \in [base : SUBSET Obj, rep : SUBSET Node, fields : SUBSET Obj]

\* Node merging keeps the graph whole: no edge ends in a removed node, and
\* nodeToRepMap and nodeToSubsMap are inverse to each other with chains of
\* merges flattened, so that one lookup finds a live node (mergeSrcToTgt,
\* updateNodeRepAndSubs, moveEdgesToRepNode).
GraphWellFormed ==
    /\ TypeOK
    /\ \A n \in Node : rep[rep[n]] = rep[n]
    /\ \A n \in Node : rep[n] # n => rep[n] \in alive /\ n \notin alive
    /\ \A n, r \in Node : n \in subs[r] <=> rep[n] = r /\ n # r
    /\ \A e \in edges : e.src \in alive /\ e.dst \in alive
    /\ pwc \subseteq alive

\* What d has received in place of object o: o itself, or whatever stands for
\* it once its structure is field-insensitive.
covers(d, o) == \/ o \in pts[d]
                \/ isFieldInsensitive(o) /\ \E x \in pts[d] : baseOf[x] = baseOf[o]

\* Difference propagation never loses a target: whatever a node counts as
\* propagated has arrived at the end of each of its copy and gep edges, through
\* merges, re-targeted edges, late edges and collapsed fields (computeDiffPts,
\* updatePropaPts, mergeSrcToTgt, addCopyEdge, collapseField).
PropagatedArrived ==
    \A e \in edges : e.kind \in DirectKind =>
        \A o \in propa[e.src] : covers(e.dst, edgeTarget(e, o))

\* One wave is enough: when no step asked for another round, every node has
\* propagated all it points to although each was visited once (solveWorklist
\* follows the topological order; collapsePWCNode, collapseFields and
\* handleLoad set reanalyze whenever they disturb a visited node).
WaveComplete ==
    pc = "post" /\ newCopies = {} /\ ~reanalyze => \A n \in alive : pts[n] \subseteq propa[n]

\* Once an object is field-insensitive no pointer keeps one of its fields as a
\* target, except while that object waits to be collapsed (processGepPts,
\* collapseField, setObjFieldInsensitive).
NoStaleField ==
    \A n \in alive : \A o \in pts[n] :
        isField(o) /\ isFieldInsensitive(o) => baseOf[o] \in toCollapse \union collapsing.base

-----------------------------------------------------------------------------
(* What the analysis has established when it is done. *)
Stmts(k) == OfKind(prog.stmts, k)

\* The result is closed under address, copy and call statements, those of
\* calls resolved late included (processAddr, processCopy, updateCallGraph).
FlowClosed ==
    pc = "done" =>
        /\ \A e \in Stmts("addr") : covers(rep[e.dst], e.src)
        /\ \A e \in Stmts("copy") : getPts(e.src) \subseteq getPts(e.dst)
        /\ \A cs \in prog.calls : \A f \in callees(cs) :
              /\ getPts(cs.arg) \subseteq getPts(formal[f])
              /\ getPts(funRet[f]) \subseteq getPts(cs.res)

\* The result is closed under gep statements: the field of every target of
\* the source is a target of the destination (processGep).
GepClosed ==
    pc = "done" => \A e \in Stmts("ngep") \union Stmts("vgep") :
        \A o \in getPts(e.src) : covers(rep[e.dst], edgeTarget(e, o))

loadClosed(e) == \A o \in getPts(e.src) \ constObj : getPts(o) \subseteq getPts(e.dst)
storeClosed(e) == \A o \in getPts(e.dst) \ constObj : getPts(e.src) \subseteq getPts(o)

\* The result is closed under loads and stores: node in pts(src) ==>
\* node --copy--> dst, and src --copy--> node for stores (processLoad,
\* processStore).
LoadStoreClosed ==
    pc = "done" => /\ \A e \in Stmts("load") : loadClosed(e)
                   /\ \A e \in Stmts("store") : storeClosed(e)

\* The same for the loads and stores through a pointer that was never merged.
unmerged(n) == rep[n] = n /\ subs[n] = {}
LoadStoreClosedUnmerged ==
    pc = "done" => /\ \A e \in Stmts("load") : unmerged(e.src) => loadClosed(e)
                   /\ \A e \in Stmts("store") : unmerged(e.dst) => storeClosed(e)

\* The least solution of the program's constraints with every structure taken
\* as one object, as a set of pairs: a round of all rules, and their closure.
fiStep(A) ==
    LET at(n) == {o \in Obj : <<n, o>> \in A}
        copies == {<<e.src, e.dst>> : e \in {x \in prog.stmts : x.kind \in DirectKind}}
                  \union (UNION {(at(e.src) \ constObj) \X {e.dst} : e \in Stmts("load")})
                  \union (UNION {{e.src} \X (at(e.dst) \ constObj) : e \in Stmts("store")})
                  \union UNION {UNION {{<<cs.arg, formal[f]>>, <<funRet[f], cs.res>>} :
                                      f \in at(cs.fp) \intersect DOMAIN formal} :
                               cs \in prog.calls}
    IN  A \union {<<e.dst, e.src>> : e \in Stmts("addr")}
          \union UNION {{c[2]} \X at(c[1]) : c \in copies}

fiLeast ==
    LET grow[A \in SUBSET (Node \X Obj)] == IF fiStep(A) = A THEN A ELSE grow[fiStep(A)]
    IN  grow[{}]

\* The result is no coarser than the field-insensitive least solution: merging
\* nodes and collapsing structures adds no target of its own (mergeSccCycle,
\* collapseField).
Precise ==
    pc = "done" =>
        LET least == fiLeast
        IN  \A v \in Var : \A o \in getPts(v) : <<v, baseOf[o]>> \in least

\* The analysis comes to an end: each round that asks for another one has
\* added an edge, merged a node, collapsed a structure or found a callee.
Termination == <>(pc = "done")
=============================================================================
