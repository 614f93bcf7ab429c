# A TLA+ verification of SVF's pointer analysis

SVF computes points-to and value-flow information for LLVM programs. This repository is a fork that
adds a flow-sensitive pointer analysis working on a *flow-sensitive constraint graph* (`FSConsG`,
`FlowSensitiveSCD`). Everything in it, the fork's own analysis, the sparse flow-sensitive solvers, the
memory SSA, the demand-driven analysis and the checkers, starts from one result: the points-to sets of
Andersen's whole-program analysis. If that solver loses a target, every client is silently unsound and
no assertion fires. The development therefore begins there, with the data structure under the solver
and the solver itself, and goes on to the other engines: CFL reachability, the sparse flow-sensitive
analysis, the fork's analysis on the same value-flow graph, the demand-driven one, and abstract execution
with its weak topological order.

Paths below are relative to `src/svf/` unless they start with `src/`.

## 1. Inventory

| Component | State | Operations | What makes it hard |
|---|---|---|---|
| Points-to cache (`include/MemoryModel/PersistentPointsToCache.h`) | `idToPts`, `ptsToId`, `idCounter`, three operation caches | intern, union, complement, intersect, remap, reset | operations record answers ahead of time; a wrong record is met much later by another caller |
| Points-to data structures (`PersistentPointsToDS.h`, `MutablePointsToDS.h`) | points-to, propagated and reverse maps; IN/OUT sets per location; updated-variable sets | add, union, clear, diff, propagate along an edge | incremental propagation: "already sent" must mean "arrived" |
| Points-to sets (`PointsTo`, `CoreBitVector`, `SparseBitVector`, `ConditionalPT`) | bits, node mapping | set algebra, remap | bit-level offsets, sparse growth, remapping in place |
| Constraint graph (`ConsG`) | nodes, typed edges, `nodeToRepMap`, `nodeToSubsMap`, collapse queue, PWC flags | add edge, re-target, merge nodes, create field node | surgery while others hold node ids |
| SCC detection (`Graphs/SCC.h`) | visit numbers, node information, two stacks, list of representatives | find, find from candidates, queries | one pass that revises representatives under way; one detector for a changing graph |
| Andersen, wave propagation (`WPA/Andersen*`, `AndersenWaveDiff`) | the graph, points-to data, work list, `reanalyze` | SCC merge, wave, collapse, loads/stores, call graph | everything below |
| Other Andersen variants (`AndersenLCD`, `AndersenSCD`, `AndersenSFR`, `CSC`), Steensgaard, type analysis | the same, with candidate sets | lazy or selective cycle detection, strides, unification | later cycle detection, re-done work |
| Flow-sensitive constraint graph (`FSConsG`) and its solver (`FlowSensitiveSCD`, `...CG`, `...FS`) | versioned objects, direct and address edges, candidates | build from SVFG, solve, strong update | strong updates are not monotone |
| Sparse and versioned flow-sensitive solvers (`FlowSensitive`, `VersionedFlowSensitive`) | IN/OUT sets, versions, melded labels | propagate along SVFG edges, strong update, meld | order of visits, on-the-fly edges |
| Value-flow graphs (`VFG`, `SVFG`, `SVFGOPT`), memory SSA (`MSSA`) | nodes, edges, mod-ref sets, memory regions | build, optimise, connect callees | removal must preserve reachability |
| CFL reachability (`CFL`) | grammar, labelled graph, work list | normalise, close | completeness of the closure |
| Demand-driven analysis (`DDA`) | cached queries, call stacks, budget | query, re-compute, give up | stale and partial cached answers |
| Multithreading (`MTA`) | thread creation tree, interleavings, lock spans | fork, join, propagate | all interleavings of analysed programs |
| Checkers (`SABER`) | slices, guards | reach sources and sinks | path conditions |
| Abstract execution (`AE`) | abstract states, weak topological order | interval arithmetic, widening, narrowing | bounds, termination |
| SVFIR, ICFG, call graphs, class hierarchy | program representation | built once, then read | lazily created field objects |
| Utilities, options, pass drivers, LLVM front end (`src/svf-llvm`), vendored `cJSON` and `fastcluster` | - | - | outside the scope |

How they interact: the front end fills the SVFIR; `ConstraintGraph::buildCG` turns its statements between
pointers into typed edges; the solver reads and rewrites the graph, keeps points-to sets in a
`DiffPTData` (by default the persistent one, whose sets are ids of the points-to cache) and asks the SVFIR
for field objects as it meets them; indirect calls are resolved between rounds and add edges; memory SSA
and the SVFG are then built from the result. There are no threads inside the analyses: the interleavings
that matter are those of one loop's work items, whose order comes from containers and is not promised.

### Components in depth: what must hold

* **Points-to cache.** Clients compare ids instead of sets ("did the union change anything?"), so equal
  sets must have equal ids; an id keeps its set until a reset; every memo entry is right.
* **Constraint graph.** Merging nodes leaves no edge to a removed node; one lookup finds the live
  representative; duplicates are dropped without losing information.
* **SCC detection.** Components are handed out whole, each under one member, never before one they have an
  edge to; sub-node sets partition the nodes; nothing survives from one run to the next.
* **Andersen's solver.** Soundness: the final sets are closed under every statement. Difference propagation:
  what counts as propagated has arrived. Field sensitivity: once a structure is collapsed no pointer keeps
  a field of it. Precision: optimisations add nothing to the result. Termination.
* **Flow-sensitive solvers.** The same with kills: a strong update removes only what cannot survive.
* **CFL, DDA, MTA, AE, SABER.** Completeness against the mathematical definition (derivation, a
  whole-program run, all interleavings, concrete executions, guarded reachability).

`PROJECT.json` lists the hazards with the line where each one bites; those no property covers say why, or
which module they would need.

## 2. The modules

| Modules | Model | Proofs |
|---|---|---|
| `PTCache` | the points-to cache | `PTCache_proofs` |
| `ConsG`, `AndersenWaveDiff` | the constraint graph (operators) and the default solver on it | `AndersenWaveDiff_proofs` |
| `Condensation`, `SCCDetection` | what SCC detection promises, and the algorithm of `SCC.h`, a refinement of it | `SCCDetection_proofs` |
| `CFGrammar`, `CFLReachability`, `CFLSolver`, `POCRSolver`, `CFLAlias` | grammars, what a CFL solver promises, the two solvers, and the alias analysis around them | `CFLSolver_proofs` |
| `SVFG`, `FlowSensitive` | the value-flow graph as data, and the sparse flow-sensitive solver on it | `FlowSensitive_proofs` |
| `FSConsG`, `FlowSensitiveSCD` | the flow-sensitive constraint graph of the same value-flow graph, and the fork's solver, run behind `FlowSensitive` and compared with it | `FlowSensitive_proofs` |
| `FlowDDA` | the demand-driven analysis on the same graph, compared with the equations of `FlowSensitive` | `FlowDDA_proofs` |
| `WTO`, `IntervalValue`, `AbstractInterpretation`, `ProgramRun` | Bourdoncle's order, intervals, the abstract execution that uses both, and concrete runs to compare it with | `ProgramRun_proofs` |

`Iteration_proofs` is about no component: it says what a recursive function of the form
`grow[x] == IF F(x) = x THEN x ELSE grow[F(x)]` returns, for every `F`. The least solutions and closures that the
results are compared with have this form, and the prover has no induction over data. The lemmas do without: the
*orbit* of `x` (what every set closed under `F` that holds `x` holds) meets at most one fixed point, so a function
with this equation exists and is determined; and a member of the orbit of greatest finite size, when
`F` only adds, is one.

`AndersenWaveDiff` takes from `SCCDetection` only what `Condensation` promises: its `SCCDetect` step chooses any
answer the abstract module allows, which is what the refinement theorem of section 5 justifies.

What would come next, in this order: `DiffPTData` (an abstract map from variables to sets with the mutable and
the persistent family as refinements, the reverse map as an invariant), geps and field collapsing in `FlowSensitiveSCD`, `VersionedFlowSensitive`, `TCT`/`MHP`/`LockAnalysis`, `ProgSlice`. A proof
still worth having: `AnswersRight` of the demand-driven analysis under a hypothesis that excludes values
going round through parameters (section 9).

## 3. `PTCache`: hash-consed sets

One variable per member (`size` is `idToPts.size()`), one action per public method: `emplacePts`,
`unionPts`, `complementPts`, `intersectPts`, `reset`, `remapAllPts`. `Intern` is the find-or-insert both
`emplacePts` and `opPts` perform; the guard of `newPointsToId` is its assertion that the counter has not
wrapped round. Each binary operation has the code's two paths: *Known* (the property cases, such as union
with the empty set, and the memo hit) and *Perform* (compute, intern, record the answer and the answers it
implies for other pairs). `answer` remembers what the last call was asked for and what it returned.
A remap changes how sets are encoded and not what they hold, so it leaves `idToPts` alone and rebuilds
`ptsToId` the way the code does, the highest id winning. Statistics counters are left out.

Run **ptcache** (`MCPTCache`, `PTCache.cfg`): three objects, ids 0..3 (`IdSpace = 4`). Four ids are fewer
than the eight sets of three objects, so the counter runs out in every long behaviour; three objects are
enough for two incomparable sets with a common element. Objects are symmetric.

* `HashConsed` - no two ids name one set, and `ptsToId` finds each of them.
* `AnswerRight` - whichever path a call takes, the id it returns names the right set. That every entry of the three
  operation caches is right, those nobody asked for included (`MemoSound`), is what it rests on, and is proved.
* `IdsStable` (action property) - only `reset` may change the set a handed-out id names.

There is no fairness: the cache is a passive object and promises nothing about progress.

**Proved** (`PTCache_proofs`), for any set of objects and any id space: `TypeCorrect`, `CanonicalIds`
(`HashConsed`), `OperationsRight` (`MemoSound` and `AnswerRight`) and `IdsKeepTheirSets` (`IdsStable`). The
inductive invariant `IInv` joins the four state properties with the relation between `size` and `idCounter`: they
agree until the last id is handed out, when the counter wraps to 0 and stays there. Without that relation
`Put(idToPts, size, S)` and `Put(ptsToId, S, idCounter)` could name different ids.

## 4. `ConsG` and `AndersenWaveDiff`: the solver

`ConsG` holds the graph as pure operators on sets of edges. An edge is a record of kind, source,
destination and, for a normal gep, a field offset; as in the code (`equalGEdge`, `hasEdge`) the identity of an
edge does not include the offset, so re-targeting may drop one of two parallel geps. `moveEdgesToRepNode`
re-targets in-edges before out-edges, drops address edges, removes direct edges inside the cycle and
reports a gep that gives the cycle positive weight.

`AndersenWaveDiff` is the loop of `solveConstraints`:

| `pc` | Code | Actions |
|---|---|---|
| `detect` | `SCCDetect`, first half of `solveWorklist` | `SCCDetect` |
| `wave` | `mergeSccCycle`, then the loop over the node stack | `mergeSccNode`, `visit`, `collapseField`, `collapseOneField`, `endCollapseField`, `endWave` |
| `visit` | between `collapsePWCNode` and `processNode` | the collapse actions, `processNode` |
| `post` | `postProcessNode` over the work list, then `updateCallGraph` | `postProcessNode`, `addCopyEdge`, `updateCallGraph` |
| `connect` | `connectCaller2CalleeParams`, the end of the round | `addCopyEdge`, `endRound` |
| `done` | after `solveConstraints` | `finished` |

Choices the containers make are nondeterministic: which member represents a component, the order of merges,
any topological order of the condensation, the order of the work list, of fields to collapse and of copy
edges. Every property thus holds for every such order. The work list is a set: its order is not relied on, and a
node queued twice is processed once more with no new work.

Variables follow the members: `rep` and `subs` are `nodeToRepMap` and `nodeToSubsMap`, `alive` the nodes of
the graph, `pwc` the `_isPWCNode` flags, `pts` and `propa` the points-to and propagated maps of `DiffPTData`,
`fi` the base objects that were set field-insensitive, `toCollapse` the queue `nodesToBeCollapsed`,
`agenda` the objects a running `collapseNodePts` has still to look at (nested calls share it, since
each of them looks at every target in the end), `collapsing` the running `collapseField`: its
base, the representative it looked up *before* the loop and the fields left.

The programs under analysis are a constant, a set of `[stmts, calls]`, and the initial state chooses one,
so that one run covers all programs of a shape. The assumption `AndersenAssumption` says of them what the
builder guarantees: addresses are of base objects, statements join pointers, copies are no self copies.
`fieldOf` is the SVFIR's map from object and offset to field object, with the offset already taken
modulo the number of fields.

Left out: `updateThreadCallGraph` (forks add the same kind of copy edges as calls), heap allocators called
through pointers (they add a fresh object), virtual calls (another way to name a callee), time limits,
statistics and reading a saved result. The `-ff-eq-base`, `-merge-pwc`, `-diff=false` variants are not
modelled; the defaults are. Nor is `IndirectCallLimit` (section 11). All nodes are pointers: `buildCG` only keeps statements between pointers, and
of loads and stores only those whose value is one.

### Runs

| Run | Instance | Shows |
|---|---|---|
| **andersen** | *Plain*: 3 pointers, 2 objects, two addresses, a copy, a load or store, any third statement; *Fields*: 3 pointers, a structure with a field at offset 0 and one at offset 1, the black hole, a gep and two more statements; *Calls*: 2 functions, two indirect calls, the second of which may call what the first returns (72 programs) | cycles found at once and late, objects merged with pointers, chains over rounds; collapsing by a variable gep and by a positive-weight cycle, before, during and after the visit of the nodes concerned; callees found in later rounds and recursion through parameters; that the loop ends for all of them (825,182 states) |
| **andersen_late_cycle** | one program | finding 1 |
| **andersen_zero_gep** | one program | finding 2 |

*Why these bounds.* A late cycle needs a copy, a dereference and one statement that closes the loop; three
pointers and two objects let a merged node be dereferenced, be a target and be an outsider. A collapse needs a
structure, two distinct fields, a gep and something that makes the object field-insensitive or puts the
gep on a cycle. One constant offset per program suffices because in the SSA programs the graph is built
from each pointer is defined by one gep, so two geps with different offsets never share both ends
originally. Two things are not reached by these instances and are only covered by the proofs: a
collapse agenda that outlives the visit it belongs to, and a field that already shares its base's
representative when the collapse starts.

Properties:

* `GraphWellFormed` - the type invariant together with the shape of the graph: every merged node has a
  live representative in one lookup, sub-node and representative maps are inverse, no edge or PWC flag on a
  removed node.
* `PropagatedArrived` - for each copy and gep edge, whatever the source counts as propagated is *covered* at
  the destination: present, or represented by the structure once it is field-insensitive. This is the promise
  difference propagation makes to every later step; it involves merging (`updatePropaPts` intersects), late edges
  (it intersects again) and collapsing (targets are replaced under way).
* `WaveComplete` - if the round did not ask for another one, every live node has propagated everything,
  although each was visited once: the order of the stack matters, and so does that collapsing sets `reanalyze`.
* `NoStaleField` - no pointer keeps a field of a collapsed structure, except while that structure is queued.
* `FlowClosed`, `GepClosed`, `LoadStoreClosedUnmerged` - what holds when the analysis is done: the sets are
  closed under address, copy and call statements, under geps, and under loads and stores through pointers
  that were never merged (see finding 1 for the others).
* `Precise` - the result is within the least solution, computed independently as a recursive function, with
  every structure taken as one object: merging invents nothing.
* `Termination` - under weak fairness of `Next`. The code runs one loop in one thread, which never pauses
  while a step is possible, so weak fairness of the whole next-state relation is what it provides; no
  fairness between work items is assumed.

Deadlock is checked in every run; the finished analysis stutters in `finished`.

### Findings

1. **Merged pointers are dereferenced with old targets** (`lib/WPA/Andersen.cpp:866`). `mergeSrcToTgt` unions
   the points-to sets and moves load and store edges to the representative but does not put it on the work
   list. In a round where a cycle is found among nodes whose sets no longer change, the loads and stores that
   one member brought along are never applied to the targets of the others. Comments at lines 525-527 and
   545-547 state the rule that then fails. In **andersen_late_cycle** `p` is dereferenced by `x = *p`, joins a
   cycle with `q` in the next round, and `x` never receives what `b`, a target of `q`, holds. The wave itself
   hides the problem in most programs, because the merged node's set usually changes again afterwards.
2. **A gep to the first field inside a cycle is treated as a copy** (`lib/Graphs/ConsG.cpp:486` and `545`).
   The check for offset 0 is right if a base object is its own first field (`-ff-eq-base`), but the default is
   off (`lib/Util/Options.cpp:165-169`) and `getGepObjVar` makes field 0 an object of its own. The
   destination then misses the field object that the comment at `Andersen.cpp:617-620` promises. In
   **andersen_zero_gep** the program is `p = &s; p = q; q = &p->f0`.

### Proved

`AndersenWaveDiff_proofs`, for every set of programs and all finite sets of pointers and objects satisfying the two
assumptions:

* `Invariance`: `Spec => []IInv`. `IInv` is the typing of all variables, the shape of the graph, and the
  *agenda* invariants: whatever the solver holds in its hands is alive. Targets of pointers have live
  representatives (`TargetsLive`), so do base objects (`Represented`), copy edges still to be added join live
  nodes (`CopiesLive`), no node is both merged away and merged into (`MergesDisjoint`, from transitivity of
  reachability), a collapse's representative stays alive while fields are merged into it
  (`CollapsingLive`), and the loop does one of these things at a time (`OneAtATime`). `GraphWellFormed` is not
  inductive alone: a pending merge or copy edge naming a dead node would break it at the next step.
* `GraphStaysWhole`: `Spec => []GraphWellFormed`.
* `NothingLost`: `Spec => []PropagatedArrived`. Besides `IInv` it needs `PropaCovered` (a node still points to
  what it counts as propagated), because a copy edge added late keeps as propagated what source *and*
  destination have propagated, and that must be at the destination. The argument is one of inheritance: after
  any step each edge continues an earlier edge whose destination's targets are covered by the new destination
  (`EdgesContinue`), except for the edge `addCopyEdge` adds and the targets `processNode` sends. The subtle
  case is a structure becoming field-insensitive, which changes what a gep *should* yield for targets it has
  already processed (`TargetStays`).
* `FieldsCollapse`: `Spec => []NoStaleField`. The invariant `FieldInv` adds that a node not created yet points to
  nothing (`Bare`), that what is queued is a field-insensitive base (`Queue`), that a running `collapseField` has
  listed every field a pointer still has (`FieldsListed`), and that every field of a structure still
  field-sensitive is some pointer's target (`FieldsWanted`), so that collapsing one always asks for a new round.
* `OneWaveSuffices`: `Spec => []WaveComplete`, by `SolveInv`. As long as nothing asked for another round, every live
  node is unvisited, due to be merged, or settled (`AllMet`), and an edge leads from where its source is *headed*
  (its representative once the pending merges are done) to a node later in the order (`EdgesOrdered`,
  `OrderAhead`): whatever a visit changes is still to come. Anything that would break the order - a new field, a
  collapse - sets `reanalyze` first. Copies onto oneself are excluded (`NoSelf`).
* `FlowsClosed`, `LoadsStoresClosed`: `FlowClosed` and `LoadStoreClosedUnmerged`. `KeptInv` says that through all
  merges the graph keeps an edge between the representatives for every statement but the geps with an offset, and that
  a load or store through a node that was never merged is on the work list or has an edge, present or about to be
  added, for each target. With `SolveInv` and `NothingLost` the rest follows at `done`.
* `GepsClosed`: the part of `GepClosed` that merging cannot damage, `GepClosedApart`: variable geps between nodes
  not merged with each other, constant geps neither of whose ends was merged. `GepClosed` itself also speaks of geps
  inside cycles and is not true of every program (finding 2); the **andersen** run has programs of which it is.
* `NoTargetInvented`: `Spec => []Precise`. `PreciseInv` compares with *every* set closed under the constraints with
  structures as one object: what a node holds, and where edges lead, merged nodes and pending merges
  included, stays within it. That the reference function of `Precise` yields such a set uses `Iteration_proofs`.

The proofs assume `ConsGAssumption` and `AndersenAssumption`, which TLC evaluates in every run. The latter says
that pointers and objects are finitely many (needed by `Precise` alone), that fields of constants are
constants and that a statement in SSA form does not copy or compute a pointer from itself.

### Only model-checked

`GepClosed` for merged nodes, and `Termination`, which is liveness under fairness.

## 5. `Condensation` and `SCCDetection`

`SCC.h` is the most shared algorithm of the repository: all solvers, memory SSA, the multithreaded analysis, the
demand-driven analysis and the abstract execution call it, and the solver of section 4 takes its answer for
granted (`SCCDetect` chooses any member as representative and any topological order of the condensation).

`Condensation` is the promise. Its state is the graph, the representative of each node (`NoNode` until it has
one) and the list of representatives handed out. `Emit(r)` hands out the whole component of `r`, provided no
member has a representative yet and every edge out of it leads to a component that has. `Restart` begins again
on another graph. Components are defined by reachability: a node reaches what no edge-closed set cuts off.

`SCCDetection` is the code. A call of `visit` is a frame: the node, the successors not looked at yet, and
the successor under comparison, whose recursive call has to return first.

| Action | Code in `include/Graphs/SCC.h` |
|---|---|
| `Find` | `clear` and the start of `find()` (all nodes) or `find(candidates)`; between two runs the clients change the graph, here by any one edge |
| `VisitCandidate`, `SkipCandidate` | the loop of `find`; 312 and 328 read a flag and change nothing |
| `NextSucc`, `VisitSucc`, `CompareRep` | the loop of `visit`: next successor, the recursive call, lines 249-255 |
| `LeaveRoot`, `LeaveInner` | lines 257-275; the `while` that pops `_SS` is `kept`, the height at which it stops, and `popped` |

`rep`, `sub` and `inSCC` are the fields of `_NodeSCCAuxInfo`, `stack` is `_SS` and `topo` is `_T`, `D[n] = 0` stands
for a node not visited (`_visited` is set together with `_D`). `setRep` is `rep(n, r)`, for the set of
nodes popped at once: the calls of the loop commute, since all have the same `r`. Successors come in any
order, as do candidates, because both are read from containers whose order is not promised. A node with a
foreign representative, which lines 309 and 325 skip, is never met: nothing is merged before the search.

### Run

**scc** (`MCSCC`): four nodes, the 256 graphs over eight pairs - two triangles sharing a side, the ways back, a
self edge - with any candidates, and a graph that changes by one edge between runs. Four nodes are needed for a
node on `_SS` that belongs to an outer cycle while an inner root is still to be left, for nested cycles
whose representative is revised twice, and for a closed component next to an open one. That this is enough is
not an argument the run has to carry: the main properties are proved for every graph.

* `Refines` - `Condensation` is implemented: `repOf` is `rep` of the nodes in closed components.
* `SubNodesExact` - a representative's sub-nodes are its whole component, the other members have none.
  `mergeSccCycle` merges, and the flow-sensitive solvers revisit, exactly these sets.
* `NothingPending` - when `find` returns no node waits on `_SS` and all that was seen is closed under edges.
* `QueriesExact` - `getRepNodes` lists the components of more than one node, `isInCycle` tells whether a path of
  at least one edge leads from a node to itself.
* `RepFinal` (action property) - within a run the representative of a closed component does not change.
* `Termination` - under weak fairness of `Search`: `find` is a function of one thread and takes its next
  step as long as there is one. `Find` itself, the choice of the caller, is not under fairness.
* `TypeOK` - types, and that the visit numbers since the last `clear` are exactly `1..I`.

### Observation

`revTopoNodeStack` (`include/Graphs/SCC.h:103`) is in topological order, although its comment promises the
reverse: `_T` has the topologically first node on top, and emptying it into a queue keeps that order. One
caller, `WPAFSSolver::SCCDetect`, pushes what it reads onto a stack to "restore the topological order" and so
hands out sinks first; `MRGenerator::collectModRefForCall` starts with callers rather than callees. Both
repeat until nothing changes, so the order costs time and not correctness.

### Proved

`SCCDetection_proofs`, for every finite set of nodes and every graph over it, changed in any way between runs:

* `Invariance`: `Spec => []IInv`, the textbook argument for this algorithm written out. A visited node is in
  one place (`Placed`); the frames are a path of the graph in order of visit numbers (`Path`), `_SS` is layered
  by them (`Layered`); what was left has all its edges explored and closed components have no edge to the rest
  (`Explored`); an active node reaches everything met since (`Down`), what waits on `_SS` reaches an active node met
  before it (`Up`); a representative is open, reachable and met no later (`RepRight`). The heart is `LowLink`: the
  representative of an active node was met no later than any open node an explored edge from under it leads to,
  where *under* it are the node itself and what was left on `_SS` since it was entered. Without that last clause
  the invariant breaks when an inner node is left, since its knowledge then lives only in the comparison that
  follows in its caller (`Knows`).
* `Implements`: `Spec => Refines`. `WholeComponent` shows that when a root is left, it and what lies above it on
  `_SS` have no edge out except to closed components, and reach each other: they are its component.
* `SubNodesRight`: `Spec => []SubNodesExact`. Besides `IInv` it needs that an open node's sub-nodes are open, met
  no earlier and have representatives met no later (`SubOpen`); otherwise a node that was taken over by an earlier
  one could leave a sub-node behind when its component is closed.
* `QueriesRight`: `Spec => []QueriesExact`. That `repNodes` lists the nodes with others below them (`Listed`) is kept by
  every call of `setRep`, whatever its arguments. `Rooted` says that the representative of a closed node is a closed
  node of the same component representing itself, and that unseen nodes have none. That a component of two nodes or a
  self edge at its representative means a path of at least one edge from each member to itself is `CycleRight`;
  the self edge counts only at the representative because a component of one node has no other member.
* `AllClosed` (`NothingPending`), `RepsFinal` (`RepFinal`) and `TypeCorrect` (`TypeOK`).

They assume `NodeAssumption` only. `Termination`, which is liveness, is model-checked.

## 6. `CFLSolver`, `POCRSolver`, `CFLAlias`: CFL reachability

`CFLAlias` computes points-to sets as reachability by words of a grammar. `CFLReachability` is what it may
expect of a solver: while it works only edges the grammar derives from the given ones are added, when it rests all
of them are there, and the client may then give more edges and have it go on. What is derivable is the
intersection of the closed edge sets (`CFGrammar`), not the result of any iteration.

`CFLSolver` is `lib/CFL/CFLSolver.cpp` with the loop of `CFLAlias::solve` around it:

| `phase` | Code | Actions |
|---|---|---|
| `initialize` | `CFLSolver::initialize` | `Initialize` |
| `solve` | `solve`, `processCFLEdge` | `Pop`, `SingleRHS`, `FirstRHS`, `SecondRHS`, `SolveEnds` |
| `update` | `onTheFlyCallGraphSolve`, `addCopyEdge` | `UpdateCallGraph` |
| `done` | after `CFLAlias::solve` | `Done` |

A step handles one production of the edge being processed: its insertions are visible to the next production, and
productions come out of a hash set in any order. The work list is first-in first-out without repeats, as in
`FIFOWorkList`; edges one loop pushes are ordered by `Rank`, since they come out of sorted sets. `NoEdge` is the
null pointer `addCFLEdge` returns for an edge that exists and `addCopyEdge` would push unchecked.

`POCRSolver` extends it by the two maps, `AddEdge`, `AddEdgesFrom` and `AddEdgesTo` being `addEdge` and the two
forms of `addEdges` with their shortcuts: each decides what is new from one of the maps. `CFLAlias` runs either solver.

Run **cfl** (`MCCFLAlias`, `CFLAlias.cfg`): nodes 1 to 3, an address edge and every set of copies between them (64
graphs), the grammar `F -> epsilon | F copy | F F`, `M -> addr F`. The base solver runs with two indirect calls, the
second of which is resolved through the edges of the first and closes a cycle; the solver with maps runs without
calls on graphs with inverse edges and no isolated node (see the finding and the observations for why). Three
nodes are a chain of two edges, the smallest case in which the order of processing decides which loop finds a pair.

* `NoPairMissed` - two edges a production joins never both leave the work list before their product is in the graph.
* `Promise` - the solver implements `CFLReachability`: at rest the graph is closed under every production, nothing
  else was inserted, and it answers after every extension.
* `MapsAgree` - the maps are inverse to each other and equal to the graph.
* `Termination` - under weak fairness of the whole loop, which is one sequential function.

### Finding

3. **Copy edges of resolved calls do not reach the maps** (`include/CFL/CFLAlias.h:91`). `POCRAlias` inherits
   `addCopyEdge`, which inserts into the graph and the work list; `POCRSolver` joins through `succMap` and
   `predMap`. The new edge is processed once against the maps, but an edge derived later never meets it.
   Run **pocr_calls** (`POCRCalls.cfg`) uses a left-linear grammar, `F -> F copy`, without `F -> F F`.

Observations: `POCRHybridSolver` hands the pairs of `F -> F F` to `addArc`, which returns at once if the `F` edge exists,
as the edge being processed does, so that its trees are not extended there (it is not modelled); on a graph without inverse edges `POCRSolver` gives no epsilon loop to nodes
that have no successor, because it looks for them in `succMap`.

### Proved

`CFLSolver_proofs`, for every grammar of productions with at most two symbols, every finite graph and every set of calls:
`TypeCorrect`, `NoPairIsMissed`, `SolvedIsClosed` (`ClosedWhenSolved`), and `LeastClosed`: whatever closed set
holds the given edges holds the graph, so at rest the graph is the least closed one. The invariant joins
`NoPairMissed` and its counterpart for single-symbol productions (`NoSingleMissed`) with: the productions still to
handle belong to the current edge (`TodoOfCurrent`), the epsilon loops are present (`LoopsThere`), what is pending is
in the graph (`PendingInGraph`), and nothing is pending or current outside `solve` (`AtRest`).

* `SolverImplements`: initial states and steps of the base solver are initial states, steps or stutters of
  `CFLReachability`. `Solving` adds to the invariant that the given edges are in the graph and the graph within every closed
  set that holds them (`Sound`); what `CFGrammar` computes as the derivable edges is such a set and the
  least (`DerivableIsLeast`, from `Iteration_proofs`).
* `MapsStayRight`: `MapsAgree`, where the solver with maps is run with every call connected from the start
  (`CallsConnected`); without that it is false, which is finding 3.
* `SolversImplement`: where moreover every node has an out-edge (`NodesConnected`, as in graphs with inverse edges),
  each step of `POCRSolver` is a step of the base solver (`StepPromised`), so that `CFLAlias` has `TypeOK`, `NoPairMissed` and
  the steps of the promise whichever solver it runs.

`Promise` has a third part, that the solver comes to rest after every extension; it and `Termination` are liveness and
model-checked. The programs of the **cfl** run satisfy both conditions.

Not modelled: reading and normalising grammars, building the labelled graph, the hybrid solver's trees, the
value-flow client.

## 7. `SVFG` and `FlowSensitive`: the sparse flow-sensitive analysis

`SVFG` says what the solver reads of the value-flow graph: the kind of each node, its operands, indirect edges with the
object they carry, parameter edges, and what each indirect call would add. Building it (memory SSA) is not modelled; the
programs are a constant. The four nodes for a call's side effects and the memory phi are one kind, `mssa`, since
`processSVFGNode` treats them alike.

`FlowSensitive` has one action per kind of node (`processAddr`, `processCopy`, `processLoad`, `processStore`/`skipStore`,
`processMSSA`, `processPass`, `processReceive`), each a whole `processNode` including the propagation along its out-edges,
and `updateCallGraph` with `updateConnectedNodes`. `inUpdated` are the flags of the incremental data structure
(`PersistentIncDFPTData`): a node only looks at objects flagged since it last looked. The OUT flags are set and
cleared within a step and therefore local to it. The work list is a set: every order is explored.

Run **flow_sensitive**: nine nodes, four objects, four families. *Loop*: a store sits in a loop behind another
store, and its pointer gets one or two targets, in any order. *Call*: a callee reads a function from
what its argument points to and calls itself through it, so that new edges appear after their sources' sets have
settled. *List*: a loop walks a list and stores into it, so that pointers and memory form one cycle. *Direct*: a
function gets a pointer and returns what it points to. Weak and constant objects are varied.

* `NoNewsLost` - a node that is not due to be processed again has handed on everything it knows, although flags were
  taken earlier, under another points-to set of its pointer or as a strong update.
* `StrongUpdateKills` - no earlier target of an object passes a store that overwrites it, nor passed while the
  store's pointer had no target yet.
* `Exact` - at the end the three maps are the least solution of the equations of the final graph, computed
  independently, and exactly the resolved callees are connected. Strong updates make the equations
  non-monotone, so that this does not depend on the order is not obvious: it holds because a blocked store passes
  nothing and a pointer goes from none to one to several targets.
* `BothEnd` - this analysis, and the one of section 8 behind it, end: under weak fairness of their loops.

### Proved

`FlowSensitive_proofs`, for every set of programs over finitely many nodes, pointers and objects (`SVFGAssumption`): `TypeCorrect`, `NewsKept` (`NoNewsLost`),
`StrongUpdatesKill` (`StrongUpdateKills`) and `ClosedAtTheEnd`: when the analysis returns every node's equation holds,
every store's OUT sets are in the IN sets behind it, and every callee is connected. The inductive invariant adds to the
checked properties: an unflagged object has nothing in its IN set the node has not taken over (`FlagsRight`, with
a different meaning for each kind of node, since phis never clear their flags), a store's OUT sets are always
delivered (`StoresDelivered`), a store without targets has said nothing (`BlockedSilent`), and the shape of
the graph.

`EndsExact` is `Spec => []Exact`: whatever the order of the work list, what the analysis ends with is the least solution of the
equations, and a call is connected exactly to the functions its pointer has. One half is `ClosedAtTheEnd`. For the
other, `PreciseInv` says that the maps stay below *every* solution of the present graph, and `StepPrecise` that new call
edges, which make the equations ask for more, keep it so. The equations are monotone in spite of strong
updates (`EquationsMonotone`): a store whose pointer has no target writes nothing, and with more targets it
never writes less. That the reference computation reaches their least solution is `LeastSolutionRight`, by
`Iteration_proofs`. `ComparedWithExact` says the same of `BothSpec`, in which the analysis of section 8 follows: every step
of both is a step of this one or leaves it alone. Termination is model-checked.

Left out: geps and fields (the analysis that made the graph has collapsed what it collapses), thread
forks, `SVFGOPT`, clustering of identifiers, reading a saved result. Observations: with the unoptimised graph the
transfer in `updateConnectedNodes` is redundant, since every node is pushed again at the start of the next round; and
`updateCallGraph` dereferences the end iterator if the pre-analysis has no entry for a call the flow-sensitive one resolves.

## 8. `FSConsG` and `FlowSensitiveSCD`: the flow-sensitive constraint graph

`FSConsG` is the graph the constructor and `buildSVFG2CG` make of a value-flow graph. Pointers have one node
(`plain`), objects one for every place an indirect edge carries them from or to (`Versions`); indirect edges become copy
edges between versions. The constructor first copies the whole flow-insensitive graph, which is where parameters and results
come from. Loads and stores keep the place of their value-flow node, with which `getAddrDef` finds the version an
access means; accesses with the same operands share one edge and the last place.

`FlowSensitiveSCD` starts when `FlowSensitive` has reached `done` on the same program, so that both answers can be
compared in one state. Its `pc` follows a round of `solveConstraints`:

| `pc` | Code | Actions |
|---|---|---|
| `detect` | `SCCDetect` with `mergeSccCycle`, from the candidates only | `SCCDetect` |
| `wave` | the loop over the node stack | `handleCopyGep`, `WaveEnds` |
| `accesses` | the loop over the work list, `handleLoadStore` | `handleLoads`, one `handleStore` per store edge, `AccessesEnd` |
| `connect` | `updateCallGraph`, the test for another round | `connectCallees` |

Left open, as containers decide it: which node of a cycle the search enters first (it represents the cycle), which of two
edges that merging makes equal survives with its place, the order of the work list and of the stores of a node. The wave
follows one topological order, since all of them give the same. A store is handled edge by edge because the set it
clears may be read by the next. `cleared` records, for the properties, which nodes were emptied.

Run **flow_sensitive** again, all four families (18,088 states):

* `SolvedUnlessEmptied` - searching only from the sources of new edges and sending only differences is enough: at the end
  every copy edge, address and dereference is satisfied, except into nodes a strong update has emptied. (With
  the types of the variables as its first part.)
* `AgreesWithSparse` - the two analyses give the same answers, in two halves with preconditions of their own.
  `WithinSparse`: at every moment, and however cycles were merged, no pointer has a target the sparse analysis does not
  give it, if the versions express the flow: no flow between versions enters a store that lets nothing of the object through
  (`NothingHeldBack`; with a strong update this is finding 4), every load has a version for what it reads
  (`LoadsVersioned`), and a call receives what its callee returns (`ReturnsApart`; the constructor's edge back from each
  result makes two calls of one function share their results).
  `CoversSparse`: at the end nothing is missing, if no strong update emptied a version (see the observation below), no
  callee is resolved on the way, all flow of memory is inside functions, and each load and store still has an edge
  with its place (`PlacesKept`). Across functions the result can be smaller: only `addIntraIndirectVFEdge` fills
  `svfg->indirectEdgeSet` (`lib/Graphs/SVFG.cpp:450`), so versions are not carried into callees and back.
* `BothEnd` - although strong updates shrink sets, rounds stop, since only new edges ask for another one.

### Finding

4. **A strong update comes before what it should kill** (`lib/WPA/FlowSensitiveSCD.cpp:760`). The version is emptied when the
   store edge is processed, but the copy edge from the previous version stays; what arrives along it afterwards is kept
   and passed on. `src/README.md:13` promises "the precision of flow-sensitive analysis". Run **scd_precision**
   (`FlowSensitiveSCD.cfg`) ends with `z` pointing to `c` and `d` after `*p = &c; *r = &d; z = *p` in a loop with both
   pointers to `a`, where `FlowSensitive` has `d` alone.

### Proved

`FlowSensitive_proofs`, second half, for every set of programs and every choice of merging and order left open above, under
`SVFGAssumption` and `FSConsGAssumption` (places are numbers, a plain node has none, and pointers and objects are different
nodes of one numbering):

* `ConstraintGraphSolved` - `BothSpec => []SolvedUnlessEmptied`. The inductive invariant `SCDInv` says what a round may put
  off. What counts as propagated has arrived, unless the target was emptied (`CGArrived`). A node with news is a candidate for
  the next search or lies ahead of the wave on the stack (`CGPending`); what the wave has ahead of it is closed under
  edges and free of cycles (`WaveAhead`), so nothing is sent behind it. Every cycle is either without targets
  or has a candidate on it (`CycleFound`): a new edge that closes one makes its source a candidate, and the next search
  starts there. An access that will not be handled again has its edges (`AccessesDone`).
* `SameAnswers` - `BothSpec => []AgreesWithSparse`, which is the next two together.
* `KeepsPrecision` - `BothSpec => []WithinSparse`. `SparsePts` is what the sparse analysis ended with for the pointer or version
  a node stands for. Under the preconditions it only grows along edges (`Bounded`), also along those loads and stores
  may still add; so the nodes of a cycle stand for the same, and merging them adds nothing. An object without version is not
  bounded by anything, which is why the loads need versions.
* `LosesNothing` - `BothSpec => []CoversSparse`. Each edge of the graph as built is still there between what represents its
  ends (`BuiltInv`), so by `SolvedUnlessEmptied` the sets of the graph, read as answers of the sparse analysis
  (`GraphResult`), solve its equations (`GraphHolds`). `PreciseInv` of section 7 puts the sparse answers below every solution. This
  half does not say what a strong update may empty.

Two groups of lemmas carry these. Edges are added in a fold over a set, each addition deciding from the sets so far whether its
source has to propagate again: `FoldedEdges` is what holds whatever the order of the fold. And merging: a path of the
merged graph comes from a path of the graph before (`MergedLeads`), so merging makes no cycle that was not there (`MergedCycle`),
and the result of a search is one node for each cycle through a candidate (`CyclesRight`, `SCCDetectCollapses`).

`BothEnd` is model-checked, as everything about termination; `Precise` is false.

### Observation

The strong update of finding 4 can also lose targets, which is unsound and not only imprecise; it is why `CoversSparse` needs
its first precondition. `clearFullPts` clears the set of whatever represents the version. Cycle detection may
have merged the version with pointers; their targets go too, and do not come back, since their sources count them as
propagated. With `p = &a; y = &c; t = &b; *t = p; s = *t; *p = p; do { x = phi(y, w); *p = x; w = *s; } while (...); *s = p;`
the version of `a` at the store in the loop, `x` and `w` form a cycle (through the load of `w`) and become one node while `x` and `w`
have targets; the strong update empties it, and `FlowSensitiveSCD` can end with `x` and `w` empty although `y` points to `c`.
The program is larger than those of the run's families.

Left out: geps, field collapsing and positive-weight cycles, forks and joins, the nodes for memory phis' own versions
(nothing connects them; their numbers can clash with objects', see the hazard at `lib/Graphs/FSConsG.cpp:280`),
the tests that pass over loads and stores of values that are no pointers (`FlowSensitiveSCD.cpp:708` and `742`; everything
is a pointer in these programs), and the variants `FlowSensitiveCG` and `FlowSensitiveFS`. Noted elsewhere: `AndersenLCD` (`lib/WPA/AndersenLCD.cpp:53`)
*returns* from its candidate loop where the comment and the shape of the loop suggest `continue`.

## 9. `FlowDDA`: the demand-driven analysis

A client asks for single pointers. `DDAVFSolver::findPT` walks the value-flow graph backwards from the pointer's
definition; an *item* is a pointer or an object at a node. Answers are cached across queries: `pts` for
pointers (`FlowDDA` keeps them per pointer, not per node), `adPts` for objects at stores and memory phis. An item
met again while its answer is under way yields what the cache has (`visited` is `backwardVisited`); when a
cached answer grows, `reCompute` asks again the items of this query behind it (`dpmsAt` is
`locToDpmSetMap`) and connects calls through the pointer. After `budget` steps a query is given up and answered
by Andersen's sets.

The C++ recursion is a stack of frames, one per `handleSingleStatement` in progress, each with its local sets
(`pts`, and `ptr` for the pointer of a load or store) and the tasks its code has still to do, every one with the
set it iterates over.

| Actions | Code |
|---|---|
| `Query`, `Answer` | `computeDDAPts` with `resetQuery` and `handleOutOfBudgetDpm` |
| `findPT` (`FindCached`, `FindNew`), `Return` | `findPT`, called by `backwardPropDpm`, by `resolveFunPtr` and, with the visited flag cleared first, by `reComputeForEdges` |
| `HandleStatement`, `ThroughPointer`, `ThroughObject`, `AfterWrite` | `handleSingleStatement`: the kind of node, the loop over the targets of a load or store, strong and weak updates |
| `UpdateCache`, `Affected`, `ReComputeForEdge` | `updateCachedPointsTo`, the halves of `reCompute`, the loop of `reComputeForEdges` |

The order of each loop is left open (edges and items come out of sets ordered by number). `whole` is chosen in the
initial state: the least solution of the equations of `FlowSensitive` for the graph in which exactly the callees of
that solution are connected, computed from the bottom.

Run **demand_driven** (`MCFlowDDA`, 263,652 states), four families. *Loop*: two stores, one in a loop, so that
an answer depends on itself, with and without strong updates, and budgets 1, 3, 5, 8, 12 and 1000, which end
queries in the traversal, in a revision, after an answer that was cached, and never. *Call*: an indirect call whose
callee reads a function from memory and calls itself through it. *List*: a loop whose pointer is read through
itself (a cycle of loads, stores and copies). *Copy*: all circles of three phis. Two or three pointers are asked for in any
order and repeatedly.

* `AnswersRight` - after each query the answer is exactly that of the whole-program analysis, or lies between it and
  Andersen's once a query was given up; and everything later queries will take from the cache is complete,
  although it may have been computed while items it depends on were in progress, or partly within a budget that ran out.
* `NothingInvented` - within the budget no cache ever holds more than the whole-program analysis has. This is about
  strong updates decided from partial answers.
* `TypeOK` - types and the discipline of the stack: every frame waits in a loop for the item of the frame above
  it, that item was asked in this query, and whatever was asked is marked visited - which is the assertion of
  `clearbkVisited`, and keeps steps within the budget.
* `Termination` - every query returns, under weak fairness of `Work`: a query is one sequential call. The revisions
  make this more than obvious, since they clear visited flags.

### Proved

`FlowDDA_proofs`, for every set of programs that satisfies `DDAAssumption` and every budget:

* `TypeCorrect` - `TypeOK`, with the stack discipline. The inductive invariant `Inv` adds to it that the outermost frame
  asks for the client's pointer and nothing else (`Asked`), that only frames of loads and stores go through a pointer
  (`Kinds`), that the edges are those of the graph and of connected calls (`EdgesKnown`), and the two facts about budgets
  (`Budgeted`, `GivenUp`).
* `WithinEverySolution` - for *every* solution of the whole-program equations (`Closed`; the least one or not), the
  caches stay within it while no query has been given up, and only its calls are connected. The invariant `Within` is
  about every frame in progress: what it has gathered is within the solution's answer for its item, and so
  is the answer for everything a task will ask. The step that matters is `AfterWrite`: a write found weak from the targets
  known so far, which are a subset of the solution's, is weak in the solution too, or is not a write of this object.
* `NeverBeyondAndersen` - if Andersen's sets are themselves part of a solution, they bound the caches at all times,
  also after queries that were given up and answered by them.
* `WholeProgramIsLeast` - the reference is right: what `WholeProgram` computes, by iterating from no calls to the calls its own
  answer has, satisfies the whole-program equations and is below everything that does. Least solutions for more
  calls are larger (`CalledMonotone`), so the iteration ends and, at every step, stays below (`BelowClosed`).
* `NothingIsInvented` - `Spec => []NothingInvented`, the two theorems together.

`AnswersRight`, the other direction, is only model-checked: it rests on every revision reaching every reader, and as the
observation below shows it is not true of every graph. `Termination` is only model-checked.

### Observation

All items of a pointer share one cached set: not only its definition, but also the nodes of a call at
which it is an argument or a returned value (`include/DDA/FlowDDA.h:125-130`). If one of them has filled
the set, the other's recomputation finds no change and asks nothing behind it again, against the comments at
`include/DDA/DDAVFSolver.h:134` and `226`. In `f(q) { x = phi(q, z); p = x; f(p); }` with `z = &a`, asking for `x` and
then for `q` leaves `q` without `a`: the definition of `p` has taken it from `x`, the argument node of `f(p)` then
sees nothing new, and `q` is not revised. A value has to go round through a parameter or result for this, which the run's
programs avoid. The optimised graph, in which such nodes are removed, is off by default
(`lib/Util/Options.cpp:429`).

Not modelled: geps and fields, the context-sensitive instance (`ContextDDA`), the clients' choice of
queries, statistics. `dpmToloadDpmMap` and `loadToPTCVarMap` are redundant in `FlowDDA`, where the loaded
object is always the one traced and `isMustAlias` is false. Functions found to be recursive during the analysis do not
turn strong updates of their locals into weak ones here: weak objects are fixed.

## 10. `WTO`, `IntervalValue`, `AbstractInterpretation`, `ProgramRun`: abstract execution

`WTO` is Bourdoncle's algorithm as `include/Graphs/WTO.h` runs it on the graphs `ICFGWTO` presents (inside one function,
calls stepped over). `visit` and `component` are mutually recursive: `frames` is the call stack, `parts` the
partitions handed down by reference. A list of components is flat, each node with the heads around it.

| Actions | Code |
|---|---|
| `Descend`, `Skip` | the loops over successors of `visit` and `component`, with the comparison `m <= head` |
| `Leave`, `PlaceNode` | a node that stays on the stack, and one in no cycle |
| `OpenCycle`, `CloseCycle` | popping and renumbering the nodes of a cycle, `component`, the cycle it returns |

`IntervalValue` has the bounds (`BoundedInt`, saturating at infinity) and interval operations as operators.
`AbstractInterpretation` is `initWTO` and the recursive interpretation: `calls` is the stack of
`handleWTOComponents`, `handleCycleWTO` and `directCallFunPass`. `HandleNode` merges predecessors, refines by branches
and applies the statement; `CycleHead`, `CycleDelayed`, `CycleWiden`, `CycleNarrow` are a turn of the cycle loop; a recursive
call is skipped with what the callee stores unknown, constants excepted. `ProgramRun` runs the program once it is analysed.

Run **abstract_execution** (7644 programs, 260,017 states): all graphs of four nodes with at most two out-edges per
node, which are only ordered; one operation on every pair of intervals with bounds in -2, 0, 1 and the infinities; one
branch with every predicate and operand order; single, nested, consecutive and two-entry loops; calls in
sequence, in a loop, with a loop inside, and recursion. Bounds: `Inf = 20` is farther than any finite bound a program
reaches before widening; concrete runs are followed within `-3..3` (`Window`) and two calls (`Depth`), beyond
the limits every loop guard uses; `WidenDelay = 1` (the default is 3) has both a delayed and an undelayed turn;
`UINT_MAX = 100` is a number no node of eight gets. `CHECK_DEADLOCK FALSE`: a concrete run may stop, at a
division by zero or the end of `main`.

* `WeakTopologicalOrder` (`EveryNodeOnce`, `WeakOrder`, `CyclesReal`) - the listed nodes are the reachable ones, each once; edges lead forward
  or back to the head of a cycle around their source; the nodes of a cycle are strongly connected.
* `Covered` - whatever state a concrete run is in right after a node is among those recorded for the node, except
  inside a skipped recursive call. A cell without a recorded value counts as unknown. Statements of the programs store
  what they compute or a constant; those of recursive functions only the former, see the observations.
* `TypeOK` - in particular no operation stores half of an empty interval, and no number reaches `UINT_MAX`.
* `Termination` - ordering and analysis end, under weak fairness of the sequential program (a run of the analysed
  program has no fairness). Intervals narrow only from infinity, which is why the second phase ends.

In the passing run every cell has a value before the loops, as globals have. The other case is

5. **A cell first stored in a loop is forgotten at its head** (`lib/AE/Core/AbstractState.cpp:31`,
   `AbstractInterpretation.cpp:664`). `widening` and `narrowing` iterate over the keys of the *old* state and return only
   those. Behind the loop the cell has no value, which is harmless while it is read as unknown, but `joinWith` at a
   later join takes the value of a path that stores it as the only one. Run **abstract_widening** is
   `x = 0; while (x < 2) { y = x; x = x + 1; } if (y < 1) y = 3;`, which ends with `y = 1` against `[3,3]`.

Observation: recursion and constants do not go together. `SkipRecursiveCall` makes a stored cell unknown only if the stored value
is no constant (`AbstractInterpretation.cpp:789`); for a constant the cell keeps what the caller had. In
`x = 0; g();` with `g() { if (x < 2) { x = 2; g(); } }` the recorded state after the call has `x` in `[0,0]`, and the program
has `x = 2`: given this program (`Recursion(If(x, "lt", 2), Put(2, x))` in `MCAbstractInterpretation`) TLC finds `Covered`
violated. No comment or test states what a skipped call should keep, so it is not among the findings and the
recursive functions of the run store no constants.

Other observations made while modelling, none of them in a run: neither predicate table of `AbstractInterpretation.h`
(280-319) has an entry for `<=`, so that such a branch refines nothing when it has to be reversed or its operands
swapped (imprecise, not wrong; modelled); `SkipRecursiveCall` makes unknown only what the callee's own statements
store, not what its callees store; a bottom index counts as 0 in `getElementIndex`; a logical right shift is computed as an
arithmetic one; an indirect call is followed to its first target only; in the turns below the widening delay the head is
handled again without merging; the sum of opposite infinities asserts.

### Proved

`ProgramRun_proofs`, for every `Inf` and so for every width of bound, about the operations the iteration is built
from: sums and differences enclose (`AddEncloses`, `SubEncloses`); widening holds both states and moves a bound only to
infinity (`WidenEncloses`), and a state it leaves alone holds the next one (`StableHolds`), which is the exit test of the loop;
narrowing keeps what both have (`NarrowKeeps`); merging predecessors keeps what each of them says of the cells
it has (`MergeEncloses` - that premise is where finding 5 enters); comparisons answer for every concrete pair
(`CompareRight`); and the state a branch passes on describes every run that takes it, whichever operand was a number,
with the predicate reversed, swapped or both (`BranchKeeps`). Intervals are neither empty nor entirely
beyond an infinity, the inputs on which the code does not assert.

`OrdersRight` proves `WeakTopologicalOrder` of `initWTO`, for every program, every set of nodes and every function graph:
each node reachable from the entry is listed once, edges lead forward or back to the head of a cycle around their
source, and every cycle is strongly connected with an edge to its head. Its one hypothesis is `[](num < UINT_MAX)`: `visit` numbers
a node anew each time it meets it again inside a component, in the same `u32_t` whose largest value marks a placed node, and
does not check. Without it the theorem would be false (a node numbered `UINT_MAX` counts as placed); the run checks it, in `TypeOK`.

The algorithm renumbers and revisits, so its invariant (`WTORight`) speaks of the calls that have not returned, from the
outermost to the innermost. A call of `visit` is active until it opens the cycle of its node, which then counts under the number
its head was found to go back to (`Nr`). `Stacked` says what the stack holds and in what order. `Dfs` is the search: calls are numbered upwards
(`PathRight`); the head number a call carries is the number of a node its own node reaches without going below it
(`HeadReached`), and no edge it has followed goes further back (`LowLink`), which is Tarjan's argument; a node without
a loop leaves nothing above it (`Quiet`); what is above a node on the stack is reached from it (`Down`) and reaches a pending one
(`Up`), so what is popped together is strongly connected. Reachability is stated without recursion, by the sets closed under
edges (`Inside`). `Lists` is the other half: with `b` cycles open, `b + 1` lists are under construction,
each in weak topological order, no two with a node in common, no edge leading from an outer list, whose nodes come
later, into an inner one, and each open cycle with the set of nodes it will have in the end (`Region`). That set is closed but
for placed nodes (`AllSealed`), which is why renumbering its nodes to 0 does not disturb the calls outside. There is one lemma per
way a step can change the search (`PopStack`, `PopPlaced`, `Descends`, `Opens`), and one per step for the lists.

Multiplication, division and remainder and the fixpoint (`Covered`) are model-checked, as are the types: that
narrowing never yields half of an empty interval rests on the second state being below the first, which no local argument
gives when an inner loop has widened.

Not modelled: addresses and aggregates, bitwise operations, shifts, phi, select, cast and switch, indirect and
external calls, the buffer-overflow detector, the relational domain.

## 11. Conventions

Definitions keep the source's names (`mergeSrcToTgt`, `collapseField`, ...). Operators whose names begin with
`Mut` are not part of a model: each is a broken variant of the definition after it, used to confirm that the
property it names in `PROJECT.json` would notice that mistake. `MC...` modules only give constants their values.
Proofs live in `..._proofs` modules.

One limit is left out of all solvers: `resolveIndCalls` returns as soon as `IndirectCallLimit` call edges (50,000 by default)
have been resolved (`lib/MemoryModel/PointerAnalysis.cpp:356-360`), and a warning
is all that tells of the callees left unconnected. Programs are taken to stay below it in `AndersenWaveDiff`, `CFLSolver`, `FlowSensitive`, `FlowSensitiveSCD`
and `FlowDDA`, and so is what is checked and proved of their calls: beyond the limit none of the closure properties
would hold. They are also taken to call functions whose number of parameters fits (`matchArgs`, the next test there).

To run everything, model-check each `.cfg` with the module named in
`PROJECT.json` and check the proof modules with `tlapm`; the longest runs take three minutes with two
workers, and the longest proof module, `FlowSensitive_proofs`, six; `SCCDetection_proofs`,
`AndersenWaveDiff_proofs` and `FlowDDA_proofs` take three each.

## 12. Not modelled

| Part | Why |
|---|---|
| Front end, drivers, vendored `cJSON` and `fastcluster`, options, statistics, external API tables | translation, parsing and tables; nothing in them evolves |
| SVFIR, ICFG, call graphs, class hierarchy | filled once, then read: they are the constants the models start from |
| Memory SSA, construction and optimisation of value-flow graphs | a pass over a finished result; `FlowSensitive` starts from its output |
| Bit vectors, identifier strategies, access paths | data representations; sets, identifiers and offsets are mathematical here |
| Other Andersen variants, Steensgaard, versioned flow-sensitive solver | further ways to results that are modelled; off by default |
| `FlowSensitiveCG`, `FlowSensitiveFS` | variants of `FlowSensitiveSCD`, which is modelled without fields |
| Context-sensitive demand-driven analysis, multithreaded analysis, SABER | not reached |
