---------------------------- MODULE FlowSensitive ----------------------------
(***************************************************************************)
(* The sparse flow-sensitive pointer analysis (FlowSensitive).  Top-level  *)
(* pointers have one points-to set each, objects one before (IN) and, at a *)
(* store, one after (OUT) each node that carries them.  Nodes are taken    *)
(* from a work list and their news handed to the nodes after them.  The    *)
(* data structure is the incremental one (-inc-data, the default): a node  *)
(* looks only at objects whose IN set is flagged as updated since it last  *)
(* looked (PersistentIncDFPTData).                                         *)
(*                                                                         *)
(* A step is one processNode.  The OUT flags of the data structure are set *)
(* and cleared within it, so they are local to the step.  The work list is *)
(* kept as a set: nothing relies on its order.  Fields are left out: the   *)
(* analysis that made the graph has already made every object it collapses *)
(* field-insensitive, which counts in weak.                                *)
(***************************************************************************)
EXTENDS SVFG

CONSTANT Programs
ASSUME ProgramsAssumption ==
    Programs \subseteq Program /\ \A p \in Programs : WellFormed(p)

VARIABLES prog,       \* the program analysed
          passes,     \* parameter edges so far
          flows,      \* indirect edges so far
          pts,        \* points-to sets of top-level pointers
          inPts,      \* IN sets, by node and object
          outPts,     \* OUT sets, by node and object
          inUpdated,  \* flags: objects with a new IN set, by node
          worklist, connected, phase

vars == <<prog, passes, flows, pts, inPts, outPts, inUpdated, worklist, connected, phase>>
graphVars == <<prog, passes, flows, connected, phase>>

DFPts == [Loc -> [Obj -> SUBSET Obj]]
TypeOK ==
    /\ prog \in Programs
    /\ passes \subseteq Loc \X Loc /\ flows \subseteq Flow
    /\ pts \in [Var -> SUBSET Obj] /\ inPts \in DFPts /\ outPts \in DFPts
    /\ inUpdated \in [Loc -> SUBSET Obj]
    /\ worklist \subseteq Loc /\ connected \subseteq prog.calls
    /\ phase \in {"initWorklist", "solveWorklist", "updateCallGraph", "done"}

Init ==
    /\ prog \in Programs /\ passes = prog.passes /\ flows = prog.flows
    /\ pts = [v \in Var |-> {}]
    /\ inPts = [l \in Loc |-> [o \in Obj |-> {}]] /\ outPts = inPts
    /\ inUpdated = [l \in Loc |-> {}]
    /\ worklist = {} /\ connected = {} /\ phase = "initWorklist"

stmt(l) == prog.stmt[l]
PtsOf(V) == UNION {pts[v] : v \in V}
\* Where direct edges from l lead: to the uses of the pointer it defines.
DirectSuccs(l) == {m \in Loc : Defs(stmt(l)) \intersect Uses(stmt(m)) # {}}

\* initWorklist pushes every node.
InitWorklist ==
    /\ phase = "initWorklist" /\ phase' = "solveWorklist"
    /\ worklist' = Loc
    /\ UNCHANGED <<prog, passes, flows, pts, inPts, outPts, inUpdated, connected>>

\* l is popped, its pointer gets the targets T, and its uses are pushed if that
\* was new.
Define(l, T) ==
    /\ pts' = [v \in Var |-> IF v \in stmt(l).dst THEN pts[v] \union T ELSE pts[v]]
    /\ worklist' = (worklist \ {l}) \union (IF T \subseteq PtsOf(stmt(l).dst) THEN {} ELSE DirectSuccs(l))

processAddr(l) ==
    /\ stmt(l).kind = "addr"
    /\ Define(l, stmt(l).obj)
    /\ UNCHANGED <<graphVars, inPts, outPts, inUpdated>>

\* Broken: the operand itself is added, not what it points to.
MutAddsOperand(l) ==
    /\ stmt(l).kind = "copy"
    /\ Define(l, stmt(l).src)
    /\ UNCHANGED <<graphVars, inPts, outPts, inUpdated>>

\* Copies and phis.
processCopy(l) ==
    /\ stmt(l).kind = "copy"
    /\ Define(l, PtsOf(stmt(l).src))
    /\ UNCHANGED <<graphVars, inPts, outPts, inUpdated>>

\* The objects a load or store through a pointer of V may touch.
Touched(V) == PtsOf(V) \ prog.const

\* A load reads the objects it may read that are flagged, and takes the flags.
processLoad(l) ==
    LET read == Touched(stmt(l).src) \intersect inUpdated[l]
    IN  /\ stmt(l).kind = "load"
        /\ Define(l, UNION {inPts[l][o] : o \in read})
        /\ inUpdated' = [inUpdated EXCEPT ![l] = @ \ read]
        /\ UNCHANGED <<graphVars, inPts, outPts>>

\* l is popped after it has taken the flags of `taken`, and each of its indirect
\* edges carries the targets `news` gives to its object.  What is new at the
\* other end is flagged there and that node is pushed.
Propagate(l, taken, news) ==
    LET got(m, o) == IF [from |-> l, obj |-> o, to |-> m] \in flows THEN news[o] ELSE {}
        fresh(m)  == {o \in Obj : ~(got(m, o) \subseteq inPts[m][o])}
    IN  /\ inPts' = [m \in Loc |-> [o \in Obj |-> inPts[m][o] \union got(m, o)]]
        /\ inUpdated' = [m \in Loc |-> (inUpdated[m] \ IF m = l THEN taken ELSE {}) \union fresh(m)]
        /\ worklist' = (worklist \ {l}) \union {m \in Loc : fresh(m) # {}}

\* A memory phi, or a node of a call: its flags are never taken.
processMSSA(l) ==
    /\ stmt(l).kind = "mssa"
    /\ Propagate(l, {}, [o \in Obj |-> IF o \in inUpdated[l] THEN inPts[l][o] ELSE {}])
    /\ UNCHANGED <<graphVars, pts, outPts>>

\* Broken: every store is a weak update.
MutAllWeak(l) == {}
\* isStrongUpdate: the object a store overwrites whole, if there is one.
overwritten(l) == {o \in PtsOf(stmt(l).dst) \ prog.weak : PtsOf(stmt(l).dst) = {o}}

\* Broken: the flag of an overwritten object is taken although it is not passed.
MutTakesAll(l) == inUpdated[l]
\* The objects whose flags a store takes as it passes their IN sets on.
passed(l) == inUpdated[l] \ overwritten(l)

\* Broken: a store through a pointer without targets passes its IN sets on.
MutNeverBlocked(l) == FALSE
\* A store whose pointer has no targets yet does nothing.
blocked(l) == PtsOf(stmt(l).dst) = {}

\* The OUT set of o when the store l has been processed.
stored(l, o) ==
    outPts[l][o] \union (IF o \in Touched(stmt(l).dst) THEN PtsOf(stmt(l).src) ELSE {})
                 \union (IF o \in inUpdated[l] \ overwritten(l) THEN inPts[l][o] ELSE {})

\* Only objects whose OUT set grew are passed on.
processStore(l) ==
    /\ stmt(l).kind = "store" /\ ~blocked(l)
    /\ outPts' = [outPts EXCEPT ![l] = [o \in Obj |-> stored(l, o)]]
    /\ Propagate(l, passed(l), [o \in Obj |-> IF stored(l, o) = outPts[l][o] THEN {} ELSE stored(l, o)])
    /\ UNCHANGED <<graphVars, pts>>

skipStore(l) ==
    /\ stmt(l).kind = "store" /\ blocked(l)
    /\ worklist' = worklist \ {l}
    /\ UNCHANGED <<graphVars, pts, inPts, outPts, inUpdated>>

\* propagateFromAPToFP, propagateFromFRToAR: an actual parameter or returned
\* pointer gives its targets to the receiving pointers.
processPass(l) ==
    LET to == {m \in Loc : <<l, m>> \in passes}
        T  == PtsOf(stmt(l).src)
    IN  /\ stmt(l).kind = "pass"
        /\ pts' = [v \in Var |-> pts[v] \union IF \E m \in to : v \in stmt(m).dst THEN T ELSE {}]
        /\ worklist' = (worklist \ {l}) \union {m \in to : ~(T \subseteq PtsOf(stmt(m).dst))}
        /\ UNCHANGED <<graphVars, inPts, outPts, inUpdated>>

\* The uses of a received pointer are pushed whenever it is processed.
processReceive(l) ==
    /\ stmt(l).kind = "receive"
    /\ worklist' = (worklist \ {l}) \union DirectSuccs(l)
    /\ UNCHANGED <<graphVars, pts, inPts, outPts, inUpdated>>

processSVFGNode(l) ==
    \/ processAddr(l) \/ processCopy(l) \/ processLoad(l) \/ processStore(l) \/ skipStore(l)
    \/ processMSSA(l) \/ processPass(l) \/ processReceive(l)
processNode == phase = "solveWorklist" /\ \E l \in worklist : processSVFGNode(l)

SolveEnds ==
    /\ phase = "solveWorklist" /\ worklist = {} /\ phase' = "updateCallGraph"
    /\ UNCHANGED <<prog, passes, flows, pts, inPts, outPts, inUpdated, worklist, connected>>

\* Broken: a callee counts as new although it is connected.
MutCallsAgain == {c \in prog.calls : c.fun \in pts[c.fp]}
\* resolveIndCalls; programs are taken to have fewer call edges than
\* IndirectCallLimit (50,000), where it gives up, and arguments that match.
newCalls == {c \in prog.calls \ connected : c.fun \in pts[c.fp]}

\* updateConnectedNodes: the targets that new edges carry at once.
carried(E, m, o) == UNION {inPts[f.from][o] : f \in {e \in E : e.to = m /\ e.obj = o}}

\* Callees are connected, whatever flags say; the analysis goes on if there
\* were any.
updateCallGraph ==
    LET E == UNION {c.flows : c \in newCalls}
        fresh(m) == {o \in Obj : ~(carried(E, m, o) \subseteq inPts[m][o])}
    IN  /\ phase = "updateCallGraph"
        /\ connected' = connected \union newCalls
        /\ passes' = passes \union UNION {c.passes : c \in newCalls}
        /\ flows' = flows \union E
        /\ inPts' = [m \in Loc |-> [o \in Obj |-> inPts[m][o] \union carried(E, m, o)]]
        /\ inUpdated' = [m \in Loc |-> inUpdated[m] \union fresh(m)]
        /\ worklist' = {m \in Loc : fresh(m) # {}}
        /\ phase' = IF newCalls = {} THEN "done" ELSE "initWorklist"
        /\ UNCHANGED <<prog, pts, outPts>>

Finished == phase = "done" /\ UNCHANGED vars
Next == InitWorklist \/ processNode \/ SolveEnds \/ updateCallGraph \/ Finished
\* solveConstraints is a loop: it goes on until it returns.
Spec == Init /\ [][Next]_vars /\ WF_vars(Next)
-----------------------------------------------------------------------------
\* Work that has not been done is still on the work list: for a node that will
\* be processed again nothing is claimed.
Due(l) == \/ phase = "initWorklist" \/ l \in worklist
          \/ \E m \in worklist : stmt(m).kind = "receive" /\ l \in DirectSuccs(m)

\* A node that is not due has handed on everything it knows, in spite of flags
\* that were taken earlier, by another pointer set or as a strong update
\* (PersistentIncDFPTData, processLoad, processStore).
DoneWith(l) ==
    LET s == stmt(l)
    IN  /\ s.kind = "addr" => s.obj \subseteq PtsOf(s.dst)
        /\ s.kind = "copy" => PtsOf(s.src) \subseteq PtsOf(s.dst)
        /\ s.kind = "load" => \A o \in Touched(s.src) : inPts[l][o] \subseteq PtsOf(s.dst)
        /\ s.kind = "pass" => \A m \in Loc : <<l, m>> \in passes => PtsOf(s.src) \subseteq PtsOf(stmt(m).dst)
        /\ s.kind = "store" =>
             /\ \A o \in Touched(s.dst) : PtsOf(s.src) \subseteq outPts[l][o]
             /\ ~blocked(l) => \A o \in Obj \ overwritten(l) : inPts[l][o] \subseteq outPts[l][o]
        /\ s.kind = "mssa" => \A f \in flows : f.from = l => inPts[l][f.obj] \subseteq inPts[f.to][f.obj]
NoNewsLost == \A l \in Loc : Due(l) \/ DoneWith(l)

\* A store that overwrites an object lets no earlier target of it through, and
\* let none through while its pointer had no targets (processStore's comment).
StrongUpdateKills ==
    \A l \in Loc : stmt(l).kind = "store" =>
        \A o \in overwritten(l) : outPts[l][o] \subseteq PtsOf(stmt(l).src)

\* The data-flow equations, as one round of all of them on a solution S.
Solution == [pts : [Var -> SUBSET Obj], inPts : DFPts, outPts : DFPts]
AnyPts(S, V) == UNION {S.pts[v] : v \in V}
Defined(S, l) ==
    CASE stmt(l).kind = "addr" -> stmt(l).obj
      [] stmt(l).kind = "copy" -> AnyPts(S, stmt(l).src)
      [] stmt(l).kind = "load" -> UNION {S.inPts[l][o] : o \in AnyPts(S, stmt(l).src) \ prog.const}
      [] stmt(l).kind = "receive" -> UNION {AnyPts(S, stmt(m).src) : m \in {k \in Loc : <<k, l>> \in passes}}
      [] OTHER -> {}
Written(S, l, o) ==
    LET P == AnyPts(S, stmt(l).dst)
    IN  IF stmt(l).kind # "store" \/ P = {} THEN {}
        ELSE (IF o \in P \ prog.const THEN AnyPts(S, stmt(l).src) ELSE {})
             \union (IF P = {o} /\ o \notin prog.weak THEN {} ELSE S.inPts[l][o])
Carried(S, f) == IF stmt(f.from).kind = "store" THEN S.outPts[f.from][f.obj] ELSE S.inPts[f.from][f.obj]
Equations(S) ==
    [pts    |-> [v \in Var |-> UNION {Defined(S, l) : l \in {k \in Loc : v \in Defs(stmt(k))}}],
     inPts  |-> [l \in Loc |-> [o \in Obj |-> UNION {Carried(S, f) : f \in {g \in flows : g.to = l /\ g.obj = o}}]],
     outPts |-> [l \in Loc |-> [o \in Obj |-> Written(S, l, o)]]]
Nothing == [pts |-> [v \in Var |-> {}], inPts |-> [l \in Loc |-> [o \in Obj |-> {}]],
            outPts |-> [l \in Loc |-> [o \in Obj |-> {}]]]
LeastSolution ==
    LET grow[S \in Solution] == IF Equations(S) = S THEN S ELSE grow[Equations(S)]
    IN  grow[Nothing]

\* The analysis ends with the least solution of the equations, in any order of
\* the work list, and with a call connected exactly to the functions its
\* pointer has (solveConstraints).
Exact ==
    phase = "done" =>
      /\ [pts |-> pts, inPts |-> inPts, outPts |-> outPts] = LeastSolution
      /\ connected = {c \in prog.calls : c.fun \in pts[c.fp]}

\* The work list runs empty and call-graph updates come to an end.
Termination == <>(phase = "done")
=============================================================================
