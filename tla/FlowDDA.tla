------------------------------ MODULE FlowDDA ------------------------------
(***************************************************************************)
(* The demand-driven analysis: what one pointer points to is found by      *)
(* walking the value-flow graph backwards from its definition (findPT of   *)
(* DDAVFSolver, as FlowDDA instantiates it).  What is asked is an item, a  *)
(* pointer or object at a node.  Answers are cached and shared by all      *)
(* queries.  An item met again while its answer is still being computed    *)
(* yields what the cache has; when a cached answer grows, the items of     *)
(* this query that used it are asked again.  Calls through pointers are    *)
(* connected when the pointer's answer grows.  A query that takes too many *)
(* steps is given up and answered by Andersen's analysis.                  *)
(*                                                                         *)
(* The recursion is a stack of frames, one per handleSingleStatement in    *)
(* progress.  A frame's tasks are what its code has still to do, each with *)
(* the set it iterates over; the order within a set is left open.          *)
(***************************************************************************)
EXTENDS SVFG, Sequences

CONSTANT Programs   \* [svfg, ander, resolves, budget, candidates], see DDAProgram

item(x, l) == [cur |-> x, loc |-> l]

\* A graph with Andersen's sets, the function pointers resolveFunPtr looks up
\* at a node (those of the call the node is a result of, or of the calls that
\* may enter the function it belongs to), the step budget and the pointers a
\* client asks for (candidateQueries).
DDAProgram(p) ==
    /\ p.svfg \in Program /\ WellFormed(p.svfg)
    /\ p.ander \in [Var -> SUBSET Obj]
    /\ p.resolves \in [Loc -> SUBSET Var] /\ p.budget \in Nat /\ p.candidates \subseteq Var
    /\ \A l \in Loc : /\ p.svfg.stmt[l].kind \in {"pass", "mssa"} => p.svfg.stmt[l].dst = {}
                      /\ p.svfg.stmt[l].kind = "receive" => p.svfg.stmt[l].src = {}
    /\ \A l, m \in Loc : Defs(p.svfg.stmt[l]) \intersect Defs(p.svfg.stmt[m]) # {} => l = m
    \* Every pointer that is read or asked for has a definition.
    /\ \A v \in p.candidates \union UNION {p.resolves[l] \union Uses(p.svfg.stmt[l]) : l \in Loc} :
         \E l \in Loc : v \in Defs(p.svfg.stmt[l])
\* Pointers and objects are numbered together.
ASSUME DDAAssumption == Var \intersect Obj = {} /\ \A p \in Programs : DDAProgram(p)

VARIABLES prog, passes, flows, connected,  \* the graph, growing with calls
          pts, adPts,       \* caches: of pointers, and of objects at stores and phis
          visited,          \* items that are or were asked (backwardVisited)
          dpmsAt,           \* items asked in this query (locToDpmSetMap)
          outOfBudgetDpms, outOfBudgetQuery, steps,
          stack, asked,     \* frames, innermost first; the pointers asked for
          whole             \* what the whole-program analysis finds

\* The equations of the whole-program analysis with the calls C connected.
NoSets == [l \in Loc |-> [o \in Obj |-> {}]]
FS(p, C) == INSTANCE FlowSensitive WITH
    Programs <- {r.svfg : r \in Programs}, prog <- p.svfg, connected <- C,
    passes <- p.svfg.passes \union UNION {c.passes : c \in C},
    flows <- p.svfg.flows \union UNION {c.flows : c \in C},
    pts <- [v \in Var |-> {}], inPts <- NoSets, outPts <- NoSets,
    inUpdated <- [l \in Loc |-> {}], worklist <- {}, phase <- "done"
\* S satisfies them, or more than they ask for, with the calls its pointers have.
Closed(S, p) ==
    LET E == FS(p, {c \in p.svfg.calls : c.fun \in S.pts[c.fp]})!Equations(S)
    IN  /\ \A v \in Var : E.pts[v] \subseteq S.pts[v]
        /\ \A l \in Loc : \A o \in Obj : /\ E.inPts[l][o] \subseteq S.inPts[l][o]
                                         /\ E.outPts[l][o] \subseteq S.outPts[l][o]
\* Their least solution, with exactly the calls its pointers have.
WholeProgram(p) ==
    LET called(C) == {c \in p.svfg.calls : c.fun \in FS(p, C)!LeastSolution.pts[c.fp]}
        more[C \in SUBSET p.svfg.calls] == IF called(C) = C THEN C ELSE more[called(C)]
    IN  FS(p, more[{}])!LeastSolution

answerVars == <<prog, whole, passes, flows, connected, pts, adPts>>
askedVars == <<visited, dpmsAt, outOfBudgetDpms, outOfBudgetQuery, steps, asked>>
vars == <<answerVars, askedVars, stack>>

Init ==
    /\ prog \in Programs /\ passes = prog.svfg.passes /\ flows = prog.svfg.flows /\ connected = {}
    /\ pts = [v \in Var |-> {}] /\ adPts = [l \in Loc |-> [o \in Obj |-> {}]]
    /\ whole = WholeProgram(prog)
    /\ visited = {} /\ dpmsAt = {} /\ outOfBudgetDpms = {}
    /\ outOfBudgetQuery = FALSE /\ steps = 0
    /\ stack = <<>> /\ asked = {}

stmt(l) == prog.svfg.stmt[l]
defOf(v) == item(v, CHOOSE l \in Loc : v \in Defs(stmt(l)))
\* getLHSTopLevPtr: a passed parameter or result stands for the pointer itself.
lhs(l) == IF stmt(l).kind = "pass" THEN Only(stmt(l).src) ELSE Only(stmt(l).dst)

isTopLevel(l) == stmt(l).kind \notin {"store", "mssa"}
\* What is asked at a node: its pointer, or an object it carries.
Item == {d \in [cur : Var \union Obj, loc : Loc] :
           IF isTopLevel(d.loc) THEN d.cur = lhs(d.loc) ELSE d.cur \in Obj \ prog.svfg.const}
\* getCachedPointsTo: all items of a pointer share its points-to set.
cached(d) == IF isTopLevel(d.loc) THEN pts[d.cur] ELSE adPts[d.loc][d.cur]

\* The items at the other end of the direct edges into l.
directInto(l) ==
    {item(lhs(m), m) : m \in {m \in Loc : \/ Defs(stmt(m)) \intersect Uses(stmt(l)) # {}
                                           \/ <<m, l>> \in passes}}
\* The same of the indirect edges that carry o; constant objects are not traced.
indirectInto(l, o) ==
    IF o \in prog.svfg.const THEN {} ELSE {item(o, f.from) : f \in {f \in flows : f.to = l /\ f.obj = o}}

-----------------------------------------------------------------------------
\* Tasks and frames.
task(op, S) == [op |-> op, set |-> S]
\* A loop over nothing is not entered.
ifAny(t) == IF t.set = {} THEN <<>> ELSE <<t>>
find(into, S) == ifAny(task(into, S))
Finds == {"ignore", "pts", "ptr", "redo"}
statement(d) == find("ignore", {defOf(v) : v \in prog.resolves[d.loc]})
                \o <<task("statement", {d}), task("update", {d})>>
newFrame(d) == [dpm |-> d, pts |-> {}, ptr |-> {}, todo |-> statement(d)]

top == Head(stack)
now == Head(top.todo)
busy(op) == stack # <<>> /\ top.todo # <<>> /\ now.op = op
\* The innermost frame f goes on with tasks ts in place of its first one.
goOn(f, ts) == stack' = <<[f EXCEPT !.todo = ts \o Tail(@)]>> \o Tail(stack)
give(f, into, S) == CASE into = "pts" -> [f EXCEPT !.pts = @ \union S]
                      [] into = "ptr" -> [f EXCEPT !.ptr = @ \union S]
                      [] OTHER -> f
MutNotAdvanced(t, x) == t   \* broken: the loop does not go on to the next one
without(t, x) == [t EXCEPT !.set = @ \ {x}]

\* findPT(d) for the next item of a loop; reComputeForEdges clears the item's
\* visited flag first.
Known(d) == now.op # "redo" /\ d \in visited
FindCached(d) ==
    /\ Known(d)
    /\ goOn(give(top, now.op, cached(d)), ifAny(without(now, d)))
    /\ UNCHANGED <<answerVars, askedVars>>
MutNotMarked(d) == visited \ {d}   \* broken: cleared and not marked again
markbkVisited(d) == visited \union {d}
\* testOutOfBudget
overBudget == outOfBudgetQuery \/ steps + 1 > prog.budget
FindNew(d) ==
    /\ ~Known(d)
    /\ visited' = markbkVisited(d) /\ dpmsAt' = dpmsAt \union {d}
    /\ steps' = IF outOfBudgetQuery THEN steps ELSE steps + 1
    /\ outOfBudgetQuery' = overBudget
    /\ IF overBudget \/ d \in outOfBudgetDpms
       THEN goOn(give(top, now.op, cached(d)), ifAny(without(now, d)))
       ELSE stack' = <<newFrame(d)>> \o stack
    /\ UNCHANGED <<answerVars, outOfBudgetDpms, asked>>
findPT == \E op \in Finds : busy(op) /\ \E d \in now.set : FindCached(d) \/ FindNew(d)

\* handleSingleStatement, once function pointers are resolved.
tasksOf(d) ==
    LET s == stmt(d.loc) IN
    CASE s.kind \in {"copy", "pass", "receive"} -> find("pts", directInto(d.loc))
      [] s.kind = "load"  -> find("ptr", {defOf(Only(s.src))}) \o <<task("through", {d})>>
      [] s.kind = "store" -> find("ptr", {defOf(Only(s.dst))}) \o <<task("through", {d})>>
      [] s.kind = "mssa"  -> find("pts", indirectInto(d.loc, d.cur))
      [] OTHER -> <<>>
HandleStatement ==
    /\ busy("statement")
    /\ goOn(IF stmt(top.dpm.loc).kind = "addr" THEN give(top, "pts", stmt(top.dpm.loc).obj) ELSE top,
            tasksOf(top.dpm))
    /\ UNCHANGED <<answerVars, askedVars>>
\* The loop over the targets of the pointer a load or store goes through.
ThroughPointer ==
    /\ busy("through")
    /\ goOn(top, ifAny(task("objects", top.ptr)))
    /\ UNCHANGED <<answerVars, askedVars>>
\* At a store the traced object is either written or passes by.
tasksFor(o) ==
    LET d == top.dpm IN
    IF stmt(d.loc).kind = "load" THEN find("pts", indirectInto(d.loc, o))
    ELSE IF o = d.cur THEN find("pts", {defOf(Only(stmt(d.loc).src))}) \o <<task("written", {o})>>
    ELSE find("pts", indirectInto(d.loc, d.cur))
ThroughObject ==
    /\ busy("objects")
    /\ \E o \in now.set : goOn(top, tasksFor(o) \o ifAny(without(now, o)))
    /\ UNCHANGED <<answerVars, askedVars>>
MutNeverStrong(T) == FALSE   \* broken: nothing is ever overwritten
isStrongUpdate(T) == \E o \in T : T = {o} /\ o \notin prog.svfg.weak
\* What was there before a write is traced as well unless it is overwritten.
AfterWrite ==
    /\ busy("written")
    /\ goOn(top, IF isStrongUpdate(top.ptr) THEN <<>>
                 ELSE find("pts", indirectInto(top.dpm.loc, top.dpm.cur)))
    /\ UNCHANGED <<answerVars, askedVars>>

\* unionDDAPts
Cache(d, S) ==
    IF isTopLevel(d.loc) THEN pts' = [pts EXCEPT ![d.cur] = @ \union S] /\ UNCHANGED adPts
    ELSE adPts' = [adPts EXCEPT ![d.loc][d.cur] = @ \union S] /\ UNCHANGED pts
\* resolveIndCalls with the new targets T of a function pointer v; programs are
\* taken to have fewer call edges than IndirectCallLimit (50,000), where it
\* gives up, and arguments that match.
newCalls(v, T) == {c \in prog.svfg.calls \ connected : c.fp = v /\ c.fun \in T}
\* connectCallerAndCallee
Connect(C) ==
    /\ connected' = connected \union C
    /\ passes' = passes \union UNION {c.passes : c \in C}
    /\ flows' = flows \union UNION {c.flows : c \in C}
\* The nodes new edges lead to.
heads(C) == {e[2] : e \in UNION {c.passes : c \in C}} \union {f.to : f \in UNION {c.flows : c \in C}}

\* What reComputeForEdges asks again at a node an edge leads to: every item of
\* this query, or only those of the same object.
Revision == [loc : Loc, of : SUBSET (Var \union Obj)]
revise(l, X) == [loc |-> l, of |-> X]
MutLoadsForgotten(d) ==   \* broken: loads are left out, they trace another variable
    {revise(l, Var \union Obj) : l \in {m \in Loc : Defs(stmt(d.loc)) \intersect Uses(stmt(m)) # {}}}
    \union {revise(e[2], Var \union Obj) : e \in {e \in passes : e[1] = d.loc}}
    \union {revise(f.to, {d.cur}) : f \in {f \in flows : f.from = d.loc}}
affected(d) ==
    {revise(l, Var \union Obj) : l \in {m \in Loc : Defs(stmt(d.loc)) \intersect Uses(stmt(m)) # {}}}
    \union {revise(e[2], Var \union Obj) : e \in {e \in passes : e[1] = d.loc}}
    \union {revise(f.to, IF stmt(f.to).kind = "load" THEN Var \union Obj ELSE {d.cur}) :
             f \in {f \in flows : f.from = d.loc}}

\* updateCachedPointsTo, and the first half of reCompute.
UpdateCache ==
    LET d == top.dpm
        grown == ~(top.pts \subseteq cached(d))
        C == IF grown THEN newCalls(d.cur, cached(d) \union top.pts) ELSE {}
    IN  /\ busy("update")
        /\ Cache(d, top.pts) /\ Connect(C)
        /\ goOn(top, IF grown THEN ifAny(task("edges", {revise(l, Var \union Obj) : l \in heads(C)}))
                               \o <<task("affected", {d})>>
                     ELSE <<>>)
        /\ UNCHANGED <<prog, whole, askedVars>>
\* The second half: everything behind the node.
Affected ==
    /\ busy("affected")
    /\ goOn(top, ifAny(task("edges", affected(top.dpm))))
    /\ UNCHANGED <<answerVars, askedVars>>
ReComputeForEdge ==
    /\ busy("edges")
    /\ \E e \in now.set :
         goOn(top, find("redo", {d \in dpmsAt : d.loc = e.loc /\ d.cur \in e.of}) \o ifAny(without(now, e)))
    /\ UNCHANGED <<answerVars, askedVars>>

\* findPT returns the cached answer to the frame below.
Return ==
    /\ Len(stack) > 1 /\ top.todo = <<>>
    /\ LET below == stack[2]
           t == Head(below.todo)
       IN  stack' = <<[give(below, t.op, cached(top.dpm)) EXCEPT !.todo = ifAny(without(t, top.dpm)) \o Tail(@)]>>
                    \o Tail(Tail(stack))
    /\ UNCHANGED <<answerVars, askedVars>>

-----------------------------------------------------------------------------
\* computeDDAPts(v): resetQuery, then findPT of the definition.
Query(v) ==
    /\ stack = <<>> /\ asked' = asked \union {v}
    /\ visited' = IF outOfBudgetQuery THEN visited \ (dpmsAt \ outOfBudgetDpms) ELSE visited
    /\ dpmsAt' = {} /\ outOfBudgetQuery' = FALSE /\ steps' = 0
    /\ stack' = <<[dpm |-> defOf(v), pts |-> {}, ptr |-> {}, todo |-> find("ignore", {defOf(v)})]>>
    /\ UNCHANGED <<answerVars, outOfBudgetDpms>>

\* handleOutOfBudgetDpm: what the larger answer affects is visited again, but
\* out of budget and therefore without effect.
Answer ==
    LET d == top.dpm
        T == IF outOfBudgetQuery THEN prog.ander[d.cur] ELSE {}
    IN  /\ Len(stack) = 1 /\ top.todo = <<>> /\ stack' = <<>>
        /\ pts' = [pts EXCEPT ![d.cur] = @ \union T]
        /\ Connect(IF T \subseteq pts[d.cur] THEN {} ELSE newCalls(d.cur, pts[d.cur] \union T))
        /\ outOfBudgetDpms' = outOfBudgetDpms \union (IF outOfBudgetQuery THEN {d} ELSE {})
        /\ UNCHANGED <<prog, whole, adPts, visited, dpmsAt, outOfBudgetQuery, steps, asked>>

Work == \/ findPT \/ HandleStatement \/ ThroughPointer \/ ThroughObject \/ AfterWrite
        \/ UpdateCache \/ Affected \/ ReComputeForEdge \/ Return \/ Answer
Next == Work \/ \E v \in prog.candidates : Query(v)
\* A query is one call: it goes on until it returns.
Spec == Init /\ [][Next]_vars /\ WF_vars(Work)
-----------------------------------------------------------------------------
\* Every frame but the innermost waits in a loop for the answer of the one
\* above it, whose item has been asked in this query; what reComputeForEdges
\* may clear is marked (the assertion of clearbkVisited).
Waiting == [op : Finds, set : SUBSET Item]
Task == Waiting \union [op : {"statement", "through", "update", "affected"}, set : SUBSET Item]
        \union [op : {"objects", "written"}, set : SUBSET Obj]
        \union [op : {"edges"}, set : SUBSET Revision]
Frame == [dpm : Item, pts : SUBSET Obj, ptr : SUBSET Obj, todo : Seq(Task)]
TypeOK ==
    /\ prog \in Programs
    /\ passes \subseteq Loc \X Loc /\ flows \subseteq Flow /\ connected \subseteq prog.svfg.calls
    /\ pts \in [Var -> SUBSET Obj] /\ adPts \in [Loc -> [Obj -> SUBSET Obj]]
    /\ visited \subseteq Item /\ dpmsAt \subseteq visited /\ outOfBudgetDpms \subseteq visited
    /\ outOfBudgetQuery \in BOOLEAN /\ steps \in 0..(prog.budget + 1) /\ asked \subseteq Var
    /\ stack \in Seq(Frame)
    /\ \A i \in 2..Len(stack) :
         /\ stack[i].todo # <<>> /\ Head(stack[i].todo) \in Waiting
         /\ stack[i - 1].dpm \in Head(stack[i].todo).set \intersect dpmsAt

\* What a solution S of the whole program says of an item.
of(S, d) == IF isTopLevel(d.loc) THEN S.pts[d.cur]
            ELSE IF stmt(d.loc).kind = "store" THEN S.outPts[d.loc][d.cur] ELSE S.inPts[d.loc][d.cur]

Idle == stack = <<>>
\* No query has been given up so far.
inBudget == ~outOfBudgetQuery /\ outOfBudgetDpms = {}

\* The items a later query takes from the cache instead of asking again.
reused == visited \ (IF outOfBudgetQuery THEN dpmsAt \ outOfBudgetDpms ELSE {})
\* An answer is what the whole-program analysis has, whatever was asked before,
\* or, out of budget, lies between that and Andersen's.  And what is in the
\* cache for later queries is complete, although it may have been computed
\* while items it depends on were in progress, or partly within the budget.
\* (Before the first query: what it is compared with is a solution.)
\* For programs in which no value goes round through a parameter or a result:
\* all items of a pointer share one cached set, so that where one does, the
\* item visited last sees nothing new and the readers behind it miss it.
AnswersRight ==
    Idle => /\ asked = {} => Closed(whole, prog)
            /\ \A v \in asked : /\ whole.pts[v] \subseteq pts[v] /\ pts[v] \subseteq prog.ander[v]
                                /\ inBudget => pts[v] = whole.pts[v]
            /\ \A d \in reused : of(whole, d) \subseteq cached(d)

CachesWithin(S) ==
    /\ \A v \in Var : pts[v] \subseteq S.pts[v]
    /\ \A l \in Loc : \A o \in Obj : ~isTopLevel(l) => adPts[l][o] \subseteq of(S, item(o, l))

\* At no time is more cached than the whole-program analysis has: a write that
\* was taken for a strong one stays strong, or the cache would keep what it
\* overwrites.
NothingInvented ==
    inBudget => CachesWithin(whole)

\* Every query returns: revisions ask only for items whose answer may grow.
Termination == stack # <<>> ~> stack = <<>>
=============================================================================
