--------------------------- MODULE FlowDDA_proofs ---------------------------
(***************************************************************************)
(* Proofs about FlowDDA, for every set of programs and every budget: the   *)
(* variables keep their types, and the stack its discipline; what the      *)
(* caches hold lies within every solution of the whole-program equations,  *)
(* as long as no query is given up, so within the least one, which the     *)
(* whole-program analysis computes, and within Andersen's sets always if   *)
(* those are a solution.                                                   *)
(***************************************************************************)
EXTENDS FlowDDA, Iteration_proofs

-----------------------------------------------------------------------------
\* Sequences that are pushed, popped and changed at the head.
LEMMA PushSeq ==
    ASSUME NEW S, NEW e \in S, NEW s \in Seq(S)
    PROVE  /\ <<e>> \o s \in Seq(S) /\ Len(<<e>> \o s) = Len(s) + 1
           /\ (<<e>> \o s)[1] = e /\ Head(<<e>> \o s) = e
           /\ \A i \in 1..Len(s) : (<<e>> \o s)[i + 1] = s[i]
OBVIOUS

LEMMA PopSeq ==
    ASSUME NEW S, NEW s \in Seq(S), s # <<>>
    PROVE  /\ Tail(s) \in Seq(S) /\ Len(s) \in Nat \ {0} /\ Len(Tail(s)) = Len(s) - 1
           /\ Head(s) = s[1] /\ Head(s) \in S
           /\ \A i \in 1..(Len(s) - 1) : Tail(s)[i] = s[i + 1]
OBVIOUS

LEMMA ReplaceHead ==
    ASSUME NEW S, NEW e \in S, NEW s \in Seq(S), s # <<>>
    PROVE  /\ <<e>> \o Tail(s) \in Seq(S) /\ Len(<<e>> \o Tail(s)) = Len(s)
           /\ (<<e>> \o Tail(s))[1] = e
           /\ \A i \in 2..Len(s) : (<<e>> \o Tail(s))[i] = s[i]
<1>1. Tail(s) \in Seq(S) /\ Len(Tail(s)) = Len(s) - 1 /\ Len(s) \in Nat \ {0} BY PopSeq
<1>2. \A i \in 1..(Len(s) - 1) : Tail(s)[i] = s[i + 1] BY PopSeq
<1>3. /\ <<e>> \o Tail(s) \in Seq(S) /\ Len(<<e>> \o Tail(s)) = Len(s)
      /\ (<<e>> \o Tail(s))[1] = e
      /\ \A i \in 1..(Len(s) - 1) : (<<e>> \o Tail(s))[i + 1] = Tail(s)[i]
  BY <1>1, PushSeq
<1>4. ASSUME NEW i \in 2..Len(s) PROVE (<<e>> \o Tail(s))[i] = s[i]
  <2>1. i - 1 \in 1..(Len(s) - 1) /\ (i - 1) + 1 = i BY <1>1
  <2> QED BY <2>1, <1>2, <1>3
<1> QED BY <1>3, <1>4

\* The tasks of a list.
tasksIn(s) == {s[i] : i \in 1..Len(s)}
LEMMA ConcatTasks ==
    ASSUME NEW S, NEW s \in Seq(S), NEW t \in Seq(S)
    PROVE  s \o t \in Seq(S) /\ tasksIn(s \o t) \subseteq tasksIn(s) \union tasksIn(t)
<1>1. s \o t \in Seq(S) /\ Len(s \o t) = Len(s) + Len(t) /\ Len(s) \in Nat /\ Len(t) \in Nat OBVIOUS
<1>2. ASSUME NEW i \in 1..Len(s \o t) PROVE (s \o t)[i] \in tasksIn(s) \union tasksIn(t)
  <2>1. CASE i <= Len(s)
    <3>1. (s \o t)[i] = s[i] /\ i \in 1..Len(s) BY <2>1, <1>1
    <3> QED BY <3>1 DEF tasksIn
  <2>2. CASE i > Len(s)
    <3>1. i - Len(s) \in 1..Len(t) BY <2>2, <1>1
    <3>2. (s \o t)[i] = t[i - Len(s)] BY <2>2, <1>1
    <3> QED BY <3>1, <3>2 DEF tasksIn
  <2> QED BY <2>1, <2>2, <1>1
<1> QED BY <1>1, <1>2 DEF tasksIn

LEMMA TailTasks ==
    ASSUME NEW S, NEW s \in Seq(S), s # <<>>
    PROVE  Tail(s) \in Seq(S) /\ tasksIn(Tail(s)) \subseteq tasksIn(s) /\ Head(s) \in tasksIn(s) /\ Head(s) \in S
<1>1. /\ Tail(s) \in Seq(S) /\ Len(s) \in Nat \ {0} /\ Len(Tail(s)) = Len(s) - 1 /\ Head(s) = s[1]
      /\ Head(s) \in S /\ \A i \in 1..(Len(s) - 1) : Tail(s)[i] = s[i + 1]
  BY PopSeq
<1>2. ASSUME NEW i \in 1..Len(Tail(s)) PROVE Tail(s)[i] \in tasksIn(s)
  <2>1. i \in 1..(Len(s) - 1) /\ i + 1 \in 1..Len(s) BY <1>1
  <2> QED BY <2>1, <1>1 DEF tasksIn
<1>3. 1 \in 1..Len(s) BY <1>1
<1> QED BY <1>1, <1>2, <1>3 DEF tasksIn

LEMMA OneTask ==
    ASSUME NEW S, NEW t \in S
    PROVE  /\ <<t>> \in Seq(S) /\ tasksIn(<<t>>) = {t} /\ Head(<<t>>) = t /\ Tail(<<t>>) = <<>> /\ <<t>> # <<>>
           /\ ifAny(t) \in Seq(S) /\ tasksIn(ifAny(t)) \subseteq {t}
<1>1. <<t>> \in Seq(S) /\ Len(<<t>>) = 1 /\ <<t>>[1] = t /\ <<>> \in Seq(S) /\ Len(<<>>) = 0 OBVIOUS
<1>2. tasksIn(<<t>>) = {t} BY <1>1 DEF tasksIn
<1>3. tasksIn(<<>>) = {} BY <1>1 DEF tasksIn
<1> QED BY <1>1, <1>2, <1>3 DEF ifAny
-----------------------------------------------------------------------------
\* What the tasks of each kind go over.
LEMMA TaskSets ==
    ASSUME NEW t \in Task
    PROVE  /\ t.op \in Finds => t \in Waiting /\ t.set \subseteq Item
           /\ t.op \in {"objects", "written"} => t.set \subseteq Obj
           /\ t.op = "edges" => t.set \subseteq Revision
BY DEF Task, Waiting, Finds

LEMMA TaskTypes ==
    /\ \A op \in Finds, S \in SUBSET Item : task(op, S) \in Waiting /\ task(op, S) \in Task
    /\ \A op \in {"statement", "through", "update", "affected"}, S \in SUBSET Item : task(op, S) \in Task
    /\ \A op \in {"objects", "written"}, S \in SUBSET Obj : task(op, S) \in Task
    /\ \A S \in SUBSET Revision : task("edges", S) \in Task
BY DEF Task, Waiting, task

LEMMA FindTasks ==
    ASSUME NEW op \in Finds, NEW S \in SUBSET Item
    PROVE  find(op, S) \in Seq(Task) /\ tasksIn(find(op, S)) \subseteq {task(op, S)}
BY TaskTypes, OneTask DEF find

\* One iteration of a loop.
LEMMA LoopGoesOn ==
    ASSUME NEW t \in Task, NEW x
    PROVE  /\ without(t, x) \in Task /\ without(t, x).op = t.op /\ without(t, x).set = t.set \ {x}
           /\ ifAny(without(t, x)) \in Seq(Task) /\ tasksIn(ifAny(without(t, x))) \subseteq {without(t, x)}
<1>1. without(t, x) \in Task /\ without(t, x).op = t.op /\ without(t, x).set = t.set \ {x}
  BY DEF without, Task, Waiting, Finds
<1> QED BY <1>1, OneTask

LEMMA Gives ==
    ASSUME NEW f \in Frame, NEW into, NEW X \in SUBSET Obj
    PROVE  /\ give(f, into, X) \in Frame
           /\ give(f, into, X).dpm = f.dpm
           /\ give(f, into, X).todo = f.todo
<1>1. CASE into = "pts"
  <2>1. give(f, into, X) = [f EXCEPT !.pts = @ \union X] BY <1>1, Zenon DEF give
  <2> QED BY <2>1, <1>1 DEF Frame
<1>2. CASE into = "ptr"
  <2>1. into # "pts" BY <1>2
  <2>2. give(f, into, X) = [f EXCEPT !.ptr = @ \union X] BY <2>1, <1>2, Zenon DEF give
  <2> QED BY <2>2, <1>2, <2>1 DEF Frame
<1>3. CASE into # "pts" /\ into # "ptr"
  <2>1. give(f, into, X) = f BY <1>3, Zenon DEF give
  <2> QED BY <2>1, <1>3
<1> QED BY <1>1, <1>2, <1>3

LEMMA GivesPts ==
    ASSUME NEW f \in Frame, NEW into, NEW X \in SUBSET Obj
    PROVE  give(f, into, X).pts = (IF into = "pts" THEN f.pts \union X ELSE f.pts)
<1>1. CASE into = "pts"
  <2>1. give(f, into, X) = [f EXCEPT !.pts = @ \union X] BY <1>1, Zenon DEF give
  <2> QED BY <2>1, <1>1 DEF Frame
<1>2. CASE into = "ptr"
  <2>1. into # "pts" BY <1>2
  <2>2. give(f, into, X) = [f EXCEPT !.ptr = @ \union X] BY <2>1, <1>2, Zenon DEF give
  <2> QED BY <2>2, <1>2, <2>1 DEF Frame
<1>3. CASE into # "pts" /\ into # "ptr"
  <2>1. give(f, into, X) = f BY <1>3, Zenon DEF give
  <2> QED BY <2>1, <1>3
<1> QED BY <1>1, <1>2, <1>3

LEMMA GivesPtr ==
    ASSUME NEW f \in Frame, NEW into, NEW X \in SUBSET Obj
    PROVE  give(f, into, X).ptr = (IF into = "ptr" THEN f.ptr \union X ELSE f.ptr)
<1>1. CASE into = "pts"
  <2>1. give(f, into, X) = [f EXCEPT !.pts = @ \union X] BY <1>1, Zenon DEF give
  <2> QED BY <2>1, <1>1 DEF Frame
<1>2. CASE into = "ptr"
  <2>1. into # "pts" BY <1>2
  <2>2. give(f, into, X) = [f EXCEPT !.ptr = @ \union X] BY <2>1, <1>2, Zenon DEF give
  <2> QED BY <2>2, <1>2, <2>1 DEF Frame
<1>3. CASE into # "pts" /\ into # "ptr"
  <2>1. give(f, into, X) = f BY <1>3, Zenon DEF give
  <2> QED BY <2>1, <1>3
<1> QED BY <1>1, <1>2, <1>3

-----------------------------------------------------------------------------
\* Edges are those of the graph and those of connected calls.
EdgesKnown ==
    /\ passes = prog.svfg.passes \union UNION {c.passes : c \in connected}
    /\ flows = prog.svfg.flows \union UNION {c.flows : c \in connected}
Graph == prog \in Programs /\ connected \subseteq prog.svfg.calls /\ EdgesKnown

LEMMA ProgramFacts ==
    ASSUME prog \in Programs
    PROVE  /\ DDAProgram(prog) /\ Var \intersect Obj = {}
           /\ \A l \in Loc : stmt(l) \in Stmt
           /\ prog.svfg \in Program /\ WellFormed(prog.svfg)
           /\ \A l \in Loc : /\ stmt(l).kind \in {"pass", "mssa"} => stmt(l).dst = {}
                             /\ stmt(l).kind = "receive" => stmt(l).src = {}
<1>1. DDAProgram(prog) /\ Var \intersect Obj = {} BY DDAAssumption
<1>2. \A l \in Loc : /\ stmt(l).kind \in {"pass", "mssa"} => stmt(l).dst = {}
                     /\ stmt(l).kind = "receive" => stmt(l).src = {}
  BY <1>1, Zenon DEF DDAProgram, stmt
<1> QED BY <1>1, <1>2 DEF DDAProgram, Program, stmt

LEMMA OnlyOne == ASSUME NEW S, Single(S) PROVE S = {Only(S)}
BY DEF Single, Only

\* A node that defines a pointer defines one, and is a top-level statement.
LEMMA Definition ==
    ASSUME prog \in Programs, NEW l \in Loc
    PROVE  /\ \A v \in Defs(stmt(l)) : lhs(l) = v /\ isTopLevel(l)
           /\ isTopLevel(l) => lhs(l) \in Var /\ item(lhs(l), l) \in Item
<1> USE ProgramFacts
<1>1. /\ stmt(l).kind \in {"addr", "copy", "load", "store", "pass", "receive", "mssa"}
      /\ stmt(l).src \subseteq Var /\ stmt(l).dst \subseteq Var
  BY DEF Stmt
<1>2. /\ stmt(l).kind \in {"addr", "copy", "load", "receive"} => Single(stmt(l).dst)
      /\ stmt(l).kind = "pass" => Single(stmt(l).src)
  BY DEF WellFormed, stmt
<1>3. stmt(l).kind \in {"pass", "mssa"} => stmt(l).dst = {} OBVIOUS
<1>4. ASSUME NEW v \in Defs(stmt(l)) PROVE lhs(l) = v /\ isTopLevel(l)
  <2>1. stmt(l).kind \in {"addr", "copy", "load", "receive"} /\ v \in stmt(l).dst
    BY <1>1, <1>3, <1>4 DEF Defs
  <2>2. stmt(l).dst = {Only(stmt(l).dst)} BY <2>1, <1>2, OnlyOne
  <2> QED BY <2>1, <2>2 DEF lhs, isTopLevel
<1>5. ASSUME isTopLevel(l) PROVE lhs(l) \in Var
  <2>1. CASE stmt(l).kind = "pass" BY <2>1, <1>2, <1>1, OnlyOne DEF lhs
  <2>2. CASE stmt(l).kind # "pass"
    <3>1. Single(stmt(l).dst) BY <1>1, <1>2, <1>5, <2>2 DEF isTopLevel
    <3> QED BY <3>1, <1>1, <2>2, OnlyOne DEF lhs
  <2> QED BY <2>1, <2>2
<1>6. ASSUME isTopLevel(l) PROVE item(lhs(l), l) \in Item
  BY <1>5, <1>6 DEF item, Item
<1> QED BY <1>4, <1>5, <1>6

LEMMA DefinitionOf ==
    ASSUME prog \in Programs,
           NEW v \in prog.candidates \union UNION {prog.resolves[l] \union Uses(stmt(l)) : l \in Loc}
    PROVE  defOf(v) \in Item /\ isTopLevel(defOf(v).loc) /\ defOf(v).cur = v
<1>1. \E l \in Loc : v \in Defs(stmt(l)) BY ProgramFacts DEF DDAProgram, stmt
<1>2. PICK l \in Loc : v \in Defs(stmt(l)) /\ defOf(v) = item(v, l) BY <1>1 DEF defOf
<1>3. lhs(l) = v /\ isTopLevel(l) /\ item(v, l) \in Item BY <1>2, Definition
<1> QED BY <1>2, <1>3 DEF item

LEMMA EdgeShapes ==
    ASSUME Graph
    PROVE  /\ \A e \in passes : e \in Loc \X Loc /\ stmt(e[1]).kind = "pass" /\ stmt(e[2]).kind = "receive"
           /\ \A f \in flows : f \in Flow /\ stmt(f.from).kind \in {"store", "mssa"}
<1> USE ProgramFacts DEF Graph
<1>1. passes \subseteq prog.svfg.passes \union UNION {c.passes : c \in prog.svfg.calls} BY DEF EdgesKnown
<1>2. flows \subseteq prog.svfg.flows \union UNION {c.flows : c \in prog.svfg.calls} BY DEF EdgesKnown
<1>3. /\ \A e \in prog.svfg.passes \union UNION {c.passes : c \in prog.svfg.calls} :
           stmt(e[1]).kind = "pass" /\ stmt(e[2]).kind = "receive"
      /\ \A f \in prog.svfg.flows \union UNION {c.flows : c \in prog.svfg.calls} :
           stmt(f.from).kind \in {"store", "mssa"}
  BY DEF WellFormed, stmt
<1>4. /\ prog.svfg.passes \union UNION {c.passes : c \in prog.svfg.calls} \subseteq Loc \X Loc
      /\ prog.svfg.flows \union UNION {c.flows : c \in prog.svfg.calls} \subseteq Flow
  BY DEF Program, Call
<1> QED BY <1>1, <1>2, <1>3, <1>4

\* What is asked next is an item.
LEMMA DirectItems == ASSUME Graph, NEW l \in Loc PROVE directInto(l) \in SUBSET Item
<1> USE DEF Graph
<1>1. ASSUME NEW m \in Loc, Defs(stmt(m)) \intersect Uses(stmt(l)) # {} \/ <<m, l>> \in passes
      PROVE  item(lhs(m), m) \in Item
  <2>1. CASE Defs(stmt(m)) \intersect Uses(stmt(l)) # {} BY <2>1, Definition
  <2>2. CASE <<m, l>> \in passes
    <3>1. stmt(m).kind = "pass" BY <2>2, EdgeShapes
    <3>2. isTopLevel(m) BY <3>1 DEF isTopLevel
    <3> QED BY <3>2, Definition
  <2> QED BY <1>1, <2>1, <2>2
<1> QED BY <1>1 DEF directInto

LEMMA IndirectItems == ASSUME Graph, NEW l \in Loc, NEW o \in Obj PROVE indirectInto(l, o) \in SUBSET Item
<1>1. ASSUME NEW f \in flows, o \notin prog.svfg.const PROVE item(o, f.from) \in Item
  <2>1. f \in Flow /\ stmt(f.from).kind \in {"store", "mssa"} BY EdgeShapes
  <2>2. f.from \in Loc /\ ~isTopLevel(f.from) BY <2>1 DEF Flow, isTopLevel
  <2> QED BY <2>2, <1>1 DEF item, Item
<1> QED BY <1>1 DEF indirectInto

-----------------------------------------------------------------------------
\* The outermost frame asks for the client's pointer, once.
Asked ==
    stack # <<>> =>
      LET b == stack[Len(stack)]
      IN  /\ isTopLevel(b.dpm.loc)
          /\ b.todo = <<task("ignore", {b.dpm})>> \/ (b.todo = <<>> /\ b.dpm \in visited)
Budgeted == outOfBudgetQuery \/ steps <= prog.budget
\* After a query that was given up its item is marked.
GivenUp == stack = <<>> /\ outOfBudgetQuery => outOfBudgetDpms # {}
\* Each frame waits for the one above it.
Waits == \A i \in 2..Len(stack) :
            /\ stack[i].todo # <<>> /\ Head(stack[i].todo) \in Waiting
            /\ stack[i - 1].dpm \in Head(stack[i].todo).set \intersect dpmsAt
Stacked == stack \in Seq(Frame) /\ Waits /\ Asked
Data == /\ prog \in Programs
        /\ passes \subseteq Loc \X Loc /\ flows \subseteq Flow /\ connected \subseteq prog.svfg.calls
        /\ pts \in [Var -> SUBSET Obj] /\ adPts \in [Loc -> [Obj -> SUBSET Obj]]
        /\ visited \subseteq Item /\ dpmsAt \subseteq visited /\ outOfBudgetDpms \subseteq visited
        /\ outOfBudgetQuery \in BOOLEAN /\ steps \in 0..(prog.budget + 1) /\ asked \subseteq Var
\* Only frames of loads and stores go through a pointer.
TaskKind(l, t) == /\ t.op \in {"through", "objects"} => stmt(l).kind \in {"load", "store"}
                  /\ t.op = "written" => stmt(l).kind = "store"
Kinds == \A i \in 1..Len(stack) : \A t \in tasksIn(stack[i].todo) : TaskKind(stack[i].dpm.loc, t)
Inv == Data /\ Stacked /\ Kinds /\ EdgesKnown /\ Budgeted /\ GivenUp

LEMMA InvTypeOK == Data /\ Stacked => TypeOK
BY DEF Data, Stacked, Waits, TypeOK
LEMMA InvGraph == Inv => Graph
BY DEF Inv, Data, Graph

LEMMA SameProgram ==
    ASSUME prog' = prog
    PROVE  /\ Item' = Item /\ Waiting' = Waiting /\ Task' = Task /\ Frame' = Frame
           /\ \A l : stmt(l)' = stmt(l) /\ isTopLevel(l)' = isTopLevel(l)
<1>1. \A l : stmt(l)' = stmt(l) /\ isTopLevel(l)' = isTopLevel(l) /\ lhs(l)' = lhs(l)
  BY DEF stmt, isTopLevel, lhs
<1>2. Item' = Item BY <1>1 DEF Item
<1> QED BY <1>1, <1>2 DEF Waiting, Task, Frame, Finds, Revision

LEMMA TopFrame ==
    ASSUME Stacked, NEW op, busy(op)
    PROVE  /\ top \in Frame /\ top = stack[1] /\ top.dpm \in Item
           /\ stack # <<>> /\ Len(stack) \in Nat \ {0}
           /\ top.todo # <<>> /\ now \in Task /\ now.op = op /\ now \in tasksIn(top.todo)
           /\ Len(stack) = 1 => op = "ignore" /\ now.set = {top.dpm}
<1>1. stack \in Seq(Frame) /\ stack # <<>> /\ top.todo # <<>> /\ now.op = op BY DEF Stacked, busy
<1>2. top \in Frame /\ top = stack[1] /\ Len(stack) \in Nat \ {0} BY <1>1, PopSeq DEF top
<1>3. top.dpm \in Item /\ top.todo \in Seq(Task) BY <1>2 DEF Frame
<1>4. now \in Task /\ now \in tasksIn(top.todo) BY <1>1, <1>3, TailTasks DEF now
<1>5. ASSUME Len(stack) = 1 PROVE op = "ignore" /\ now.set = {top.dpm}
  <2>1. top.todo = <<task("ignore", {top.dpm})>> BY <1>1, <1>2, <1>5 DEF Stacked, Asked
  <2>2. now = task("ignore", {top.dpm}) BY <2>1 DEF now
  <2> QED BY <2>2, <1>1 DEF task
<1> QED BY <1>1, <1>2, <1>3, <1>4, <1>5

\* The innermost frame goes on: what the stack is then.
LEMMA GoOnStack ==
    ASSUME Stacked, stack # <<>>, top.todo # <<>>,
           NEW f \in Frame, f.dpm = top.dpm, f.todo = top.todo,
           NEW ts \in Seq(Task), goOn(f, ts)
    PROVE  /\ stack' \in Seq(Frame) /\ Len(stack') = Len(stack)
           /\ top = stack[1] /\ Len(stack) \in Nat \ {0}
           /\ stack'[1] \in Frame /\ stack'[1].dpm = f.dpm /\ stack'[1].pts = f.pts /\ stack'[1].ptr = f.ptr
           /\ stack'[1].todo = ts \o Tail(f.todo)
           /\ tasksIn(stack'[1].todo) \subseteq tasksIn(ts) \union tasksIn(top.todo)
           /\ \A i \in 2..Len(stack) : stack'[i] = stack[i]
<1> DEFINE g == [f EXCEPT !.todo = ts \o Tail(@)]
<1>1. stack \in Seq(Frame) /\ Len(stack) \in Nat \ {0} /\ top = stack[1] BY PopSeq DEF Stacked, top
<1>2. f.todo \in Seq(Task) BY DEF Frame
<1>3. Tail(f.todo) \in Seq(Task) /\ tasksIn(Tail(f.todo)) \subseteq tasksIn(f.todo) BY <1>2, TailTasks
<1>4. /\ ts \o Tail(f.todo) \in Seq(Task)
      /\ tasksIn(ts \o Tail(f.todo)) \subseteq tasksIn(ts) \union tasksIn(top.todo)
  <2>1. /\ ts \o Tail(f.todo) \in Seq(Task)
        /\ tasksIn(ts \o Tail(f.todo)) \subseteq tasksIn(ts) \union tasksIn(Tail(f.todo))
    BY <1>3, ConcatTasks
  <2> QED BY <2>1, <1>3
<1>5. /\ g \in Frame /\ g.dpm = f.dpm /\ g.pts = f.pts /\ g.ptr = f.ptr
      /\ g.todo = ts \o Tail(f.todo)
  BY <1>4 DEF Frame
<1>6. stack' = <<g>> \o Tail(stack) BY DEF goOn
<1> HIDE DEF g
<1>7. /\ stack' \in Seq(Frame) /\ Len(stack') = Len(stack) /\ stack'[1] = g
      /\ \A i \in 2..Len(stack) : stack'[i] = stack[i]
  BY <1>1, <1>5, <1>6, ReplaceHead
<1> QED BY <1>1, <1>4, <1>5, <1>7

\* The others wait as before.
LEMMA GoOnKeeps ==
    ASSUME Stacked, prog' = prog, stack # <<>>, top.todo # <<>>,
           NEW f \in Frame, f.dpm = top.dpm, f.todo = top.todo,
           NEW ts \in Seq(Task), goOn(f, ts),
           visited \subseteq visited', dpmsAt \subseteq dpmsAt',
           Len(stack) = 1 => ts = <<>> /\ top.dpm \in visited'
    PROVE  Stacked' /\ stack' # <<>>
<1>1. stack \in Seq(Frame) /\ Len(stack) \in Nat \ {0} /\ top = stack[1] BY PopSeq DEF Stacked, top
<1>2. /\ stack' \in Seq(Frame) /\ Len(stack') = Len(stack)
      /\ stack'[1].dpm = f.dpm /\ stack'[1].todo = ts \o Tail(f.todo)
      /\ \A i \in 2..Len(stack) : stack'[i] = stack[i]
  BY GoOnStack
<1>3. Waits'
  <2> SUFFICES ASSUME NEW i \in 2..Len(stack)
               PROVE  /\ stack'[i].todo # <<>> /\ Head(stack'[i].todo) \in Waiting
                      /\ stack'[i - 1].dpm \in Head(stack'[i].todo).set \intersect dpmsAt'
    BY <1>2, SameProgram DEF Waits
  <2>1. /\ stack[i].todo # <<>> /\ Head(stack[i].todo) \in Waiting
        /\ stack[i - 1].dpm \in Head(stack[i].todo).set \intersect dpmsAt
    BY DEF Stacked, Waits
  <2>2. stack'[i] = stack[i] BY <1>2
  <2>3. stack'[i - 1].dpm = stack[i - 1].dpm
    <3>1. CASE i = 2 BY <3>1, <1>2, <1>1
    <3>2. CASE i # 2
      <4>1. i - 1 \in 2..Len(stack) BY <3>2, <1>1
      <4> QED BY <4>1, <1>2
    <3> QED BY <3>1, <3>2
  <2> QED BY <2>1, <2>2, <2>3
<1>4. Asked'
  <2>1. CASE Len(stack) = 1
    <3>1. stack'[1].dpm = top.dpm /\ Len(stack') = 1 BY <2>1, <1>2
    <3>2. isTopLevel(top.dpm.loc) /\ top.todo = <<task("ignore", {top.dpm})>>
      BY <2>1, <1>1 DEF Stacked, Asked
    <3>3. stack'[1].todo = <<>>
      <4>1. \A t : Tail(<<t>>) = <<>> OBVIOUS
      <4>2. <<>> \o <<>> = <<>> OBVIOUS
      <4> QED BY <4>1, <4>2, <2>1, <3>2, <1>2
    <3> QED BY <3>1, <3>2, <3>3, <1>2, <2>1, SameProgram DEF Asked
  <2>2. CASE Len(stack) # 1
    <3>1. Len(stack) \in 2..Len(stack) BY <2>2, <1>1
    <3>2. stack'[Len(stack')] = stack[Len(stack)] BY <3>1, <1>2
    <3> QED BY <3>2, SameProgram DEF Stacked, Asked
  <2> QED BY <2>1, <2>2
<1>5. Stacked' BY <1>2, <1>3, <1>4, SameProgram DEF Stacked
<1>6. stack' # <<>> BY <1>2, <1>1
<1> QED BY <1>5, <1>6

LEMMA GoOnInv ==
    ASSUME Inv, prog' = prog, stack # <<>>, top.todo # <<>>,
           NEW f \in Frame, f.dpm = top.dpm, f.todo = top.todo,
           NEW ts \in Seq(Task), goOn(f, ts),
           \A t \in tasksIn(ts) : TaskKind(top.dpm.loc, t),
           visited \subseteq visited', dpmsAt \subseteq dpmsAt',
           Len(stack) = 1 => ts = <<>> /\ top.dpm \in visited'
    PROVE  Stacked' /\ Kinds' /\ stack' # <<>>
<1>1. Stacked /\ top = stack[1] /\ Len(stack) \in Nat \ {0} BY PopSeq DEF Inv, Stacked, top
<1>2. /\ Stacked' /\ Len(stack') = Len(stack) /\ stack' # <<>>
      /\ stack'[1].dpm = top.dpm
      /\ tasksIn(stack'[1].todo) \subseteq tasksIn(ts) \union tasksIn(top.todo)
      /\ \A i \in 2..Len(stack) : stack'[i] = stack[i]
  BY <1>1, GoOnKeeps, GoOnStack
<1>3. \A l, t : TaskKind(l, t)' = TaskKind(l, t) BY SameProgram DEF TaskKind
<1>4. ASSUME NEW i \in 1..Len(stack), NEW t \in tasksIn(stack'[i].todo)
      PROVE  TaskKind(stack'[i].dpm.loc, t)
  <2>1. CASE i = 1 BY <2>1, <1>1, <1>2, <1>4 DEF Inv, Kinds
  <2>2. CASE i # 1
    <3>1. stack'[i] = stack[i] BY <2>2, <1>1, <1>2
    <3> QED BY <3>1, <1>4 DEF Inv, Kinds
  <2> QED BY <2>1, <2>2
<1> QED BY <1>1, <1>2, <1>3, <1>4 DEF Kinds

LEMMA QuietStep ==
    ASSUME Inv, UNCHANGED <<answerVars, askedVars>>, stack' # <<>>
    PROVE  Data' /\ EdgesKnown' /\ Budgeted' /\ GivenUp'
<1>1. /\ prog' = prog /\ passes' = passes /\ flows' = flows /\ connected' = connected /\ pts' = pts
      /\ adPts' = adPts /\ visited' = visited /\ dpmsAt' = dpmsAt /\ outOfBudgetDpms' = outOfBudgetDpms
      /\ outOfBudgetQuery' = outOfBudgetQuery /\ steps' = steps /\ asked' = asked
  BY DEF answerVars, askedVars
<1>2. Data' BY <1>1, SameProgram DEF Inv, Data
<1>3. EdgesKnown' BY <1>1 DEF Inv, EdgesKnown
<1> QED BY <1>1, <1>2, <1>3 DEF Inv, Budgeted, GivenUp

\* The tasks of each kind of node.
LEMMA TasksOf ==
    ASSUME Graph, NEW d \in Item
    PROVE  /\ tasksOf(d) \in Seq(Task)
           /\ \A t \in tasksIn(tasksOf(d)) :
                LET s == stmt(d.loc) IN
                \/ t = task("pts", directInto(d.loc)) /\ s.kind \in {"copy", "pass", "receive"}
                \/ t = task("pts", indirectInto(d.loc, d.cur)) /\ s.kind = "mssa"
                \/ t = task("ptr", {defOf(Only(s.src))}) /\ s.kind = "load"
                \/ t = task("ptr", {defOf(Only(s.dst))}) /\ s.kind = "store"
                \/ t = task("through", {d}) /\ s.kind \in {"load", "store"}
<1> DEFINE s == stmt(d.loc)
<1>1. d.loc \in Loc BY DEF Item
<1>2. s.kind \in {"addr", "copy", "load", "store", "pass", "receive", "mssa"}
  BY <1>1, ProgramFacts DEF Graph, Stmt
<1>3. Waiting = Waiting /\ "pts" \in Finds /\ "ptr" \in Finds BY DEF Finds
<1>4. task("through", {d}) \in Task BY TaskTypes
<1>5. CASE s.kind \in {"copy", "pass", "receive"}
  <2>1. tasksOf(d) = find("pts", directInto(d.loc)) BY <1>5, Zenon DEF tasksOf
  <2>2. directInto(d.loc) \in SUBSET Item BY <1>1, DirectItems
  <2> QED BY <2>1, <2>2, <1>3, <1>5, FindTasks
<1>6. CASE s.kind = "load"
  <2>1. s.kind \notin {"copy", "pass", "receive"} BY <1>6
  <2>2. tasksOf(d) = find("ptr", {defOf(Only(s.src))}) \o <<task("through", {d})>>
    BY <2>1, <1>6, Zenon DEF tasksOf
  <2>3. Only(s.src) \in Uses(s)
    <3>1. Single(s.src) BY <1>1, <1>6, ProgramFacts DEF WellFormed, Graph, stmt
    <3> QED BY <3>1, <1>6, OnlyOne DEF Uses
  <2>4. {defOf(Only(s.src))} \in SUBSET Item BY <2>3, <1>1, DefinitionOf DEF Graph
  <2>5. /\ find("ptr", {defOf(Only(s.src))}) \in Seq(Task)
        /\ tasksIn(find("ptr", {defOf(Only(s.src))})) \subseteq {task("ptr", {defOf(Only(s.src))})}
    BY <2>4, <1>3, FindTasks
  <2>6. <<task("through", {d})>> \in Seq(Task) /\ tasksIn(<<task("through", {d})>>) = {task("through", {d})}
    BY <1>4, OneTask
  <2>7. /\ tasksOf(d) \in Seq(Task)
        /\ tasksIn(tasksOf(d)) \subseteq {task("ptr", {defOf(Only(s.src))})} \union {task("through", {d})}
    <3> DEFINE F == find("ptr", {defOf(Only(s.src))})
               G == <<task("through", {d})>>
    <3>1. F \in Seq(Task) /\ G \in Seq(Task) BY <2>5, <2>6
    <3> HIDE DEF F, G
    <3>2. F \o G \in Seq(Task) /\ tasksIn(F \o G) \subseteq tasksIn(F) \union tasksIn(G) BY <3>1, ConcatTasks
    <3> QED BY <3>2, <2>2, <2>5, <2>6 DEF F, G
  <2> QED BY <2>7, <1>6
<1>7. CASE s.kind = "store"
  <2>1. s.kind \notin {"copy", "pass", "receive"} /\ s.kind # "load" BY <1>7
  <2>2. tasksOf(d) = find("ptr", {defOf(Only(s.dst))}) \o <<task("through", {d})>>
    BY <2>1, <1>7, Zenon DEF tasksOf
  <2>3. Only(s.dst) \in Uses(s)
    <3>1. Single(s.dst) BY <1>1, <1>7, ProgramFacts DEF WellFormed, Graph, stmt
    <3> QED BY <3>1, <1>7, OnlyOne DEF Uses
  <2>4. {defOf(Only(s.dst))} \in SUBSET Item BY <2>3, <1>1, DefinitionOf DEF Graph
  <2>5. /\ find("ptr", {defOf(Only(s.dst))}) \in Seq(Task)
        /\ tasksIn(find("ptr", {defOf(Only(s.dst))})) \subseteq {task("ptr", {defOf(Only(s.dst))})}
    BY <2>4, <1>3, FindTasks
  <2>6. <<task("through", {d})>> \in Seq(Task) /\ tasksIn(<<task("through", {d})>>) = {task("through", {d})}
    BY <1>4, OneTask
  <2>7. /\ tasksOf(d) \in Seq(Task)
        /\ tasksIn(tasksOf(d)) \subseteq {task("ptr", {defOf(Only(s.dst))})} \union {task("through", {d})}
    <3> DEFINE F == find("ptr", {defOf(Only(s.dst))})
               G == <<task("through", {d})>>
    <3>1. F \in Seq(Task) /\ G \in Seq(Task) BY <2>5, <2>6
    <3> HIDE DEF F, G
    <3>2. F \o G \in Seq(Task) /\ tasksIn(F \o G) \subseteq tasksIn(F) \union tasksIn(G) BY <3>1, ConcatTasks
    <3> QED BY <3>2, <2>2, <2>5, <2>6 DEF F, G
  <2> QED BY <2>7, <1>7
<1>8. CASE s.kind = "mssa"
  <2>1. s.kind \notin {"copy", "pass", "receive"} /\ s.kind # "load" /\ s.kind # "store" BY <1>8
  <2>2. tasksOf(d) = find("pts", indirectInto(d.loc, d.cur)) BY <2>1, <1>8, Zenon DEF tasksOf
  <2>3. d.cur \in Obj BY <1>8 DEF Item, isTopLevel
  <2>4. indirectInto(d.loc, d.cur) \in SUBSET Item BY <2>3, <1>1, IndirectItems
  <2> QED BY <2>2, <2>4, <1>3, <1>8, FindTasks
<1>9. CASE s.kind = "addr"
  <2>1. s.kind \notin {"copy", "pass", "receive", "load", "store", "mssa"} BY <1>9
  <2>2. s.kind \notin {"copy", "pass", "receive"} /\ s.kind # "load" /\ s.kind # "store" /\ s.kind # "mssa"
    BY <2>1
  <2>3. tasksOf(d) = <<>> BY <2>2, Zenon DEF tasksOf
  <2>4. <<>> \in Seq(Task) /\ Len(<<>>) = 0 OBVIOUS
  <2> QED BY <2>3, <2>4 DEF tasksIn
<1> QED BY <1>2, <1>5, <1>6, <1>7, <1>8, <1>9

LEMMA TasksFor ==
    ASSUME Graph, top \in Frame, stmt(top.dpm.loc).kind \in {"load", "store"}, NEW o \in Obj
    PROVE  /\ tasksFor(o) \in Seq(Task)
           /\ \A t \in tasksIn(tasksFor(o)) :
                LET d == top.dpm
                    s == stmt(d.loc)
                IN  \/ t = task("pts", indirectInto(d.loc, o)) /\ s.kind = "load"
                    \/ t = task("pts", {defOf(Only(s.src))}) /\ s.kind = "store" /\ o = d.cur
                    \/ t = task("written", {o}) /\ s.kind = "store" /\ o = d.cur
                    \/ t = task("pts", indirectInto(d.loc, d.cur)) /\ s.kind = "store" /\ o # d.cur
<1> DEFINE d == top.dpm
           s == stmt(d.loc)
<1>1. d \in Item /\ d.loc \in Loc BY DEF Frame, Item
<1>2. "pts" \in Finds BY DEF Finds
<1>3. CASE s.kind = "load"
  <2>1. tasksFor(o) = find("pts", indirectInto(d.loc, o)) BY <1>3 DEF tasksFor
  <2>2. indirectInto(d.loc, o) \in SUBSET Item BY <1>1, IndirectItems
  <2> QED BY <2>1, <2>2, <1>2, <1>3, FindTasks
<1>4. CASE s.kind = "store" /\ o = d.cur
  <2>1. tasksFor(o) = find("pts", {defOf(Only(s.src))}) \o <<task("written", {o})>> BY <1>4 DEF tasksFor
  <2>2. Only(s.src) \in Uses(s)
    <3>1. Single(s.src) BY <1>1, <1>4, ProgramFacts DEF WellFormed, Graph, stmt
    <3> QED BY <3>1, <1>4, OnlyOne DEF Uses
  <2>3. {defOf(Only(s.src))} \in SUBSET Item BY <2>2, <1>1, DefinitionOf DEF Graph
  <2>4. /\ find("pts", {defOf(Only(s.src))}) \in Seq(Task)
        /\ tasksIn(find("pts", {defOf(Only(s.src))})) \subseteq {task("pts", {defOf(Only(s.src))})}
    BY <2>3, <1>2, FindTasks
  <2>5. <<task("written", {o})>> \in Seq(Task) /\ tasksIn(<<task("written", {o})>>) = {task("written", {o})}
    <3>1. task("written", {o}) \in Task BY TaskTypes
    <3> QED BY <3>1, OneTask
  <2>6. /\ tasksFor(o) \in Seq(Task)
        /\ tasksIn(tasksFor(o)) \subseteq {task("pts", {defOf(Only(s.src))})} \union {task("written", {o})}
    <3> DEFINE F == find("pts", {defOf(Only(s.src))})
               G == <<task("written", {o})>>
    <3>1. F \in Seq(Task) /\ G \in Seq(Task) BY <2>4, <2>5
    <3> HIDE DEF F, G
    <3>2. F \o G \in Seq(Task) /\ tasksIn(F \o G) \subseteq tasksIn(F) \union tasksIn(G) BY <3>1, ConcatTasks
    <3> QED BY <3>2, <2>1, <2>4, <2>5 DEF F, G
  <2> QED BY <2>6, <1>4
<1>5. CASE s.kind = "store" /\ o # d.cur
  <2>1. tasksFor(o) = find("pts", indirectInto(d.loc, d.cur)) BY <1>5 DEF tasksFor
  <2>2. d.cur \in Obj BY <1>1, <1>5 DEF Item, isTopLevel
  <2>3. indirectInto(d.loc, d.cur) \in SUBSET Item BY <2>2, <1>1, IndirectItems
  <2> QED BY <2>1, <2>3, <1>2, <1>5, FindTasks
<1> QED BY <1>3, <1>4, <1>5

-----------------------------------------------------------------------------
\* The steps, one by one.
LEMMA CachedType == ASSUME Data, NEW d \in Item PROVE cached(d) \in SUBSET Obj
<1>1. /\ d.loc \in Loc
      /\ isTopLevel(d.loc) => d.cur = lhs(d.loc)
      /\ ~isTopLevel(d.loc) => d.cur \in Obj
  BY DEF Item
<1>2. isTopLevel(d.loc) => lhs(d.loc) \in Var BY <1>1, Definition DEF Data
<1> QED BY <1>1, <1>2 DEF Data, cached

\* What is left of a loop.
LEMMA RestOfLoop ==
    ASSUME Inv, NEW op, busy(op), NEW x
    PROVE  /\ ifAny(without(now, x)) \in Seq(Task)
           /\ \A t \in tasksIn(ifAny(without(now, x))) : t = without(now, x) /\ TaskKind(top.dpm.loc, t)
<1>1. now \in Task /\ now \in tasksIn(top.todo) /\ top = stack[1] /\ Len(stack) \in Nat \ {0}
  BY TopFrame DEF Inv
<1>2. TaskKind(top.dpm.loc, now) BY <1>1 DEF Inv, Kinds
<1>3. without(now, x).op = now.op BY <1>1, LoopGoesOn
<1>4. TaskKind(top.dpm.loc, without(now, x)) BY <1>2, <1>3 DEF TaskKind
<1> QED BY <1>1, <1>4, LoopGoesOn

\* An answer has come and the loop goes on.
LEMMA LoopAnswered ==
    ASSUME Inv, NEW op \in Finds, busy(op), NEW d \in now.set, NEW X \in SUBSET Obj,
           goOn(give(top, now.op, X), ifAny(without(now, d))), prog' = prog,
           visited \subseteq visited', d \in visited', dpmsAt \subseteq dpmsAt'
    PROVE  Stacked' /\ Kinds' /\ stack' # <<>>
<1>1. /\ top \in Frame /\ stack # <<>> /\ top.todo # <<>> /\ now \in Task
      /\ Len(stack) = 1 => op = "ignore" /\ now.set = {top.dpm}
  BY TopFrame DEF Inv
<1>2. /\ give(top, now.op, X) \in Frame
      /\ give(top, now.op, X).dpm = top.dpm /\ give(top, now.op, X).todo = top.todo
  BY <1>1, Gives
<1>3. /\ ifAny(without(now, d)) \in Seq(Task)
      /\ \A t \in tasksIn(ifAny(without(now, d))) : TaskKind(top.dpm.loc, t)
  BY RestOfLoop
<1>4. ASSUME Len(stack) = 1 PROVE ifAny(without(now, d)) = <<>> /\ top.dpm \in visited'
  <2>1. without(now, d).set = {} BY <1>1, <1>4, LoopGoesOn
  <2> QED BY <2>1, <1>1, <1>4 DEF ifAny
<1> QED BY <1>1, <1>2, <1>3, <1>4, GoOnInv

LEMMA FindCachedStep ==
    ASSUME Inv, NEW op \in Finds, busy(op), NEW d \in now.set, FindCached(d)
    PROVE  Inv'
<1>1. now \in Task /\ now.op = op BY TopFrame DEF Inv
<1>2. d \in Item BY <1>1, TaskSets
<1>3. cached(d) \in SUBSET Obj BY <1>2, CachedType DEF Inv
<1>4. /\ UNCHANGED <<answerVars, askedVars>> /\ prog' = prog /\ visited' = visited /\ dpmsAt' = dpmsAt
      /\ d \in visited /\ goOn(give(top, now.op, cached(d)), ifAny(without(now, d)))
  <2>1. UNCHANGED <<answerVars, askedVars>> BY DEF FindCached
  <2>2. now.op = "redo" => FALSE BY DEF FindCached, Known
  <2> QED BY <2>1, <2>2 DEF FindCached, Known, answerVars, askedVars
<1>5. Stacked' /\ Kinds' /\ stack' # <<>> BY <1>3, <1>4, LoopAnswered
<1> QED BY <1>4, <1>5, QuietStep DEF Inv

LEMMA StatementTasks ==
    ASSUME prog \in Programs, NEW d \in Item
    PROVE  /\ newFrame(d) \in Frame /\ newFrame(d).dpm = d /\ newFrame(d).pts = {} /\ newFrame(d).ptr = {}
           /\ \A t \in tasksIn(newFrame(d).todo) : t.op \in {"ignore", "statement", "update"}
<1> DEFINE F == find("ignore", {defOf(v) : v \in prog.resolves[d.loc]})
           G == <<task("statement", {d}), task("update", {d})>>
<1>1. d.loc \in Loc BY DEF Item
<1>2. \A v \in prog.resolves[d.loc] : defOf(v) \in Item BY <1>1, DefinitionOf
<1>3. "ignore" \in Finds BY DEF Finds
<1>4. F \in Seq(Task) /\ \A t \in tasksIn(F) : t.op = "ignore"
  <2>1. {defOf(v) : v \in prog.resolves[d.loc]} \in SUBSET Item BY <1>2
  <2> QED BY <2>1, <1>3, FindTasks DEF task
<1>5. G \in Seq(Task) /\ \A t \in tasksIn(G) : t.op \in {"statement", "update"}
  <2>1. task("statement", {d}) \in Task /\ task("update", {d}) \in Task BY TaskTypes
  <2>2. /\ G \in Seq(Task) /\ Len(G) = 2 /\ G[1] = task("statement", {d}) /\ G[2] = task("update", {d}) BY <2>1
  <2>3. tasksIn(G) = {task("statement", {d}), task("update", {d})} BY <2>2 DEF tasksIn
  <2> QED BY <2>2, <2>3 DEF task
<1>6. statement(d) = F \o G BY DEF statement
<1> HIDE DEF F, G
<1>7. F \o G \in Seq(Task) /\ \A t \in tasksIn(F \o G) : t.op \in {"ignore", "statement", "update"}
  BY <1>4, <1>5, ConcatTasks
<1> QED BY <1>6, <1>7 DEF newFrame, Frame

\* A new frame on top of one that waits for it.
LEMMA PushKeeps ==
    ASSUME Inv, NEW op \in Finds, busy(op), NEW d \in now.set, prog' = prog,
           stack' = <<newFrame(d)>> \o stack,
           visited \subseteq visited', dpmsAt \subseteq dpmsAt', d \in dpmsAt'
    PROVE  Stacked' /\ Kinds' /\ stack' # <<>>
<1>1. /\ top \in Frame /\ top = stack[1] /\ stack # <<>> /\ Len(stack) \in Nat \ {0}
      /\ top.todo # <<>> /\ now \in Task /\ now.op = op
  BY TopFrame DEF Inv
<1>2. now \in Waiting /\ d \in Item /\ now = Head(top.todo) BY <1>1, TaskSets DEF now
<1>3. /\ newFrame(d) \in Frame /\ newFrame(d).dpm = d
      /\ \A t \in tasksIn(newFrame(d).todo) : t.op \in {"ignore", "statement", "update"}
  BY <1>2, StatementTasks DEF Inv, Data
<1>4. /\ stack' \in Seq(Frame) /\ Len(stack') = Len(stack) + 1 /\ stack'[1] = newFrame(d)
      /\ \A i \in 1..Len(stack) : stack'[i + 1] = stack[i]
  BY <1>3, PushSeq DEF Inv, Stacked
<1>5. \A i \in 2..(Len(stack) + 1) : i - 1 \in 1..Len(stack) /\ stack'[i] = stack[i - 1]
  <2>1. ASSUME NEW i \in 2..(Len(stack) + 1) PROVE i - 1 \in 1..Len(stack) /\ stack'[i] = stack[i - 1]
    <3>1. i - 1 \in 1..Len(stack) /\ (i - 1) + 1 = i BY <1>1
    <3> QED BY <3>1, <1>4
  <2> QED BY <2>1
<1>6. Waits'
  <2>1. ASSUME NEW i \in 2..(Len(stack) + 1)
        PROVE  /\ stack'[i].todo # <<>> /\ Head(stack'[i].todo) \in Waiting
               /\ stack'[i - 1].dpm \in Head(stack'[i].todo).set \intersect dpmsAt'
    <3>1. CASE i = 2 BY <3>1, <1>1, <1>2, <1>3, <1>4, <1>5
    <3>2. CASE i # 2
      <4>1. i - 1 \in 2..Len(stack) /\ i - 1 \in 2..(Len(stack) + 1) BY <3>2, <1>1
      <4>2. stack'[i] = stack[i - 1] /\ stack'[i - 1] = stack[(i - 1) - 1] BY <4>1, <1>5
      <4> QED BY <4>1, <4>2 DEF Inv, Stacked, Waits
    <3> QED BY <3>1, <3>2
  <2> QED BY <2>1, <1>4, SameProgram DEF Waits
<1>7. Asked'
  <2>1. stack'[Len(stack')] = stack[Len(stack)] BY <1>1, <1>4
  <2> QED BY <2>1, <1>1, SameProgram DEF Asked, Inv, Stacked
<1>8. Kinds'
  <2>1. \A l, t : TaskKind(l, t)' = TaskKind(l, t) BY SameProgram DEF TaskKind
  <2>2. ASSUME NEW i \in 1..(Len(stack) + 1), NEW t \in tasksIn(stack'[i].todo)
        PROVE  TaskKind(stack'[i].dpm.loc, t)
    <3>1. CASE i = 1 BY <3>1, <1>3, <1>4, <2>2 DEF TaskKind
    <3>2. CASE i # 1
      <4>1. i - 1 \in 1..Len(stack) /\ stack'[i] = stack[i - 1] BY <3>2, <1>1, <1>5
      <4> QED BY <4>1, <2>2 DEF Inv, Kinds
    <3> QED BY <3>1, <3>2
  <2> QED BY <2>1, <2>2, <1>4 DEF Kinds
<1>9. stack' # <<>> BY <1>1, <1>4
<1> QED BY <1>4, <1>6, <1>7, <1>8, <1>9, SameProgram DEF Stacked

LEMMA FindNewStep ==
    ASSUME Inv, NEW op \in Finds, busy(op), NEW d \in now.set, FindNew(d)
    PROVE  Inv'
<1>1. now \in Task /\ now.op = op BY TopFrame DEF Inv
<1>2. d \in Item BY <1>1, TaskSets
<1>3. cached(d) \in SUBSET Obj BY <1>2, CachedType DEF Inv
<1>4. /\ prog' = prog /\ passes' = passes /\ flows' = flows /\ connected' = connected /\ pts' = pts
      /\ adPts' = adPts /\ outOfBudgetDpms' = outOfBudgetDpms /\ asked' = asked
      /\ visited' = visited \union {d} /\ dpmsAt' = dpmsAt \union {d}
      /\ steps' = (IF outOfBudgetQuery THEN steps ELSE steps + 1)
      /\ outOfBudgetQuery' = overBudget
  BY DEF FindNew, answerVars, markbkVisited
<1>5. /\ visited \subseteq visited' /\ dpmsAt \subseteq dpmsAt' /\ d \in visited' /\ d \in dpmsAt' BY <1>4
<1>6. Stacked' /\ Kinds' /\ stack' # <<>>
  <2>1. CASE overBudget \/ d \in outOfBudgetDpms
    <3>1. goOn(give(top, now.op, cached(d)), ifAny(without(now, d))) BY <2>1 DEF FindNew
    <3> QED BY <3>1, <1>3, <1>4, <1>5, LoopAnswered
  <2>2. CASE ~(overBudget \/ d \in outOfBudgetDpms)
    <3>1. stack' = <<newFrame(d)>> \o stack BY <2>2 DEF FindNew
    <3> QED BY <3>1, <1>4, <1>5, PushKeeps
  <2> QED BY <2>1, <2>2
<1>7. prog.budget \in Nat BY ProgramFacts DEF Inv, Data, DDAProgram
<1>8. overBudget \in BOOLEAN BY DEF overBudget, Inv, Data
<1>9. /\ steps' \in 0..(prog'.budget + 1) /\ Budgeted'
  <2>1. steps \in 0..(prog.budget + 1) /\ (outOfBudgetQuery \/ steps <= prog.budget)
    BY DEF Inv, Data, Budgeted
  <2>2. prog'.budget = prog.budget BY <1>4
  <2>3. CASE outOfBudgetQuery
    <3>1. steps' = steps /\ outOfBudgetQuery' BY <2>3, <1>4 DEF overBudget
    <3> QED BY <3>1, <2>1, <2>2 DEF Budgeted
  <2>4. CASE ~outOfBudgetQuery
    <3>1. steps' = steps + 1 /\ (outOfBudgetQuery' <=> steps + 1 > prog.budget)
      BY <2>4, <1>4 DEF overBudget
    <3>2. steps + 1 \in 0..(prog.budget + 1) BY <2>1, <2>4, <1>7
    <3>3. outOfBudgetQuery' \/ steps' <= prog.budget BY <3>1, <3>2, <1>7
    <3> QED BY <3>1, <3>2, <3>3, <2>2 DEF Budgeted
  <2> QED BY <2>3, <2>4
<1>10. Data' BY <1>2, <1>4, <1>8, <1>9, SameProgram DEF Inv, Data
<1>11. EdgesKnown' /\ GivenUp' BY <1>4, <1>6 DEF Inv, EdgesKnown, GivenUp
<1> QED BY <1>6, <1>9, <1>10, <1>11 DEF Inv

\* The innermost frame takes a step of handleSingleStatement.
LEMMA QuietGoOn ==
    ASSUME Inv, NEW op, op # "ignore", busy(op), NEW f \in Frame, f.dpm = top.dpm, f.todo = top.todo,
           NEW ts \in Seq(Task), goOn(f, ts), \A t \in tasksIn(ts) : TaskKind(top.dpm.loc, t),
           UNCHANGED <<answerVars, askedVars>>
    PROVE  Inv'
<1>1. /\ stack # <<>> /\ top.todo # <<>> /\ Len(stack) # 1 BY TopFrame DEF Inv
<1>2. prog' = prog /\ visited' = visited /\ dpmsAt' = dpmsAt BY DEF answerVars, askedVars
<1>3. Stacked' /\ Kinds' /\ stack' # <<>> BY <1>1, <1>2, GoOnInv
<1> QED BY <1>3, QuietStep DEF Inv

LEMMA HandleStatementStep == ASSUME Inv, HandleStatement PROVE Inv'
<1>1. busy("statement") /\ UNCHANGED <<answerVars, askedVars>> BY DEF HandleStatement
<1>2. top \in Frame /\ top.dpm \in Item BY <1>1, TopFrame DEF Inv
<1> DEFINE f == IF stmt(top.dpm.loc).kind = "addr" THEN give(top, "pts", stmt(top.dpm.loc).obj) ELSE top
<1>3. f \in Frame /\ f.dpm = top.dpm /\ f.todo = top.todo
  <2>1. stmt(top.dpm.loc).obj \in SUBSET Obj BY <1>2, ProgramFacts DEF Item, Stmt, Inv, Data
  <2> QED BY <2>1, <1>2, Gives
<1>4. tasksOf(top.dpm) \in Seq(Task) /\ \A t \in tasksIn(tasksOf(top.dpm)) : TaskKind(top.dpm.loc, t)
  BY <1>2, TasksOf, InvGraph DEF TaskKind, task
<1>5. goOn(f, tasksOf(top.dpm)) BY DEF HandleStatement
<1> HIDE DEF f
<1> QED BY <1>1, <1>3, <1>4, <1>5, QuietGoOn

LEMMA ThroughPointerStep == ASSUME Inv, ThroughPointer PROVE Inv'
<1>1. /\ busy("through") /\ UNCHANGED <<answerVars, askedVars>> /\ goOn(top, ifAny(task("objects", top.ptr)))
  BY DEF ThroughPointer
<1>2. /\ top \in Frame /\ now \in tasksIn(top.todo) /\ now.op = "through" /\ top = stack[1]
      /\ Len(stack) \in Nat \ {0}
  BY <1>1, TopFrame DEF Inv
<1>3. stmt(top.dpm.loc).kind \in {"load", "store"} BY <1>2 DEF Inv, Kinds, TaskKind
<1>4. top.ptr \in SUBSET Obj BY <1>2 DEF Frame
<1>5. task("objects", top.ptr) \in Task BY <1>4, TaskTypes
<1>6. /\ ifAny(task("objects", top.ptr)) \in Seq(Task)
      /\ tasksIn(ifAny(task("objects", top.ptr))) \subseteq {task("objects", top.ptr)}
  BY <1>5, OneTask
<1>7. TaskKind(top.dpm.loc, task("objects", top.ptr)) BY <1>3 DEF TaskKind, task
<1> QED BY <1>1, <1>2, <1>6, <1>7, QuietGoOn

LEMMA ThroughObjectStep == ASSUME Inv, ThroughObject PROVE Inv'
<1>1. busy("objects") /\ UNCHANGED <<answerVars, askedVars>> BY DEF ThroughObject
<1>2. PICK o \in now.set : goOn(top, tasksFor(o) \o ifAny(without(now, o))) BY DEF ThroughObject
<1>3. /\ top \in Frame /\ now \in Task /\ now \in tasksIn(top.todo) /\ now.op = "objects" /\ top = stack[1]
      /\ Len(stack) \in Nat \ {0}
  BY <1>1, TopFrame DEF Inv
<1>4. stmt(top.dpm.loc).kind \in {"load", "store"} BY <1>3 DEF Inv, Kinds, TaskKind
<1>5. o \in Obj BY <1>3, TaskSets
<1>6. tasksFor(o) \in Seq(Task) /\ \A t \in tasksIn(tasksFor(o)) : TaskKind(top.dpm.loc, t)
  BY <1>3, <1>4, <1>5, TasksFor, InvGraph DEF TaskKind, task
<1>7. /\ ifAny(without(now, o)) \in Seq(Task)
      /\ \A t \in tasksIn(ifAny(without(now, o))) : TaskKind(top.dpm.loc, t)
  BY <1>1, RestOfLoop
<1>8. /\ tasksFor(o) \o ifAny(without(now, o)) \in Seq(Task)
      /\ \A t \in tasksIn(tasksFor(o) \o ifAny(without(now, o))) : TaskKind(top.dpm.loc, t)
  BY <1>6, <1>7, ConcatTasks
<1> QED BY <1>1, <1>2, <1>3, <1>8, QuietGoOn

LEMMA AfterWriteStep == ASSUME Inv, AfterWrite PROVE Inv'
<1> DEFINE ts == IF isStrongUpdate(top.ptr) THEN <<>>
                 ELSE find("pts", indirectInto(top.dpm.loc, top.dpm.cur))
<1>1. busy("written") /\ UNCHANGED <<answerVars, askedVars>> /\ goOn(top, ts) BY DEF AfterWrite
<1>2. /\ top \in Frame /\ top.dpm \in Item /\ now \in tasksIn(top.todo) /\ now.op = "written" /\ top = stack[1]
      /\ Len(stack) \in Nat \ {0}
  BY <1>1, TopFrame DEF Inv
<1>3. stmt(top.dpm.loc).kind = "store" BY <1>2 DEF Inv, Kinds, TaskKind
<1>4. top.dpm.loc \in Loc /\ top.dpm.cur \in Obj BY <1>2, <1>3 DEF Item, isTopLevel
<1>5. indirectInto(top.dpm.loc, top.dpm.cur) \in SUBSET Item BY <1>4, IndirectItems, InvGraph
<1>6. "pts" \in Finds BY DEF Finds
<1>7. ts \in Seq(Task) /\ \A t \in tasksIn(ts) : TaskKind(top.dpm.loc, t)
  <2>1. <<>> \in Seq(Task) /\ Len(<<>>) = 0 OBVIOUS
  <2>2. tasksIn(<<>>) = {} BY <2>1 DEF tasksIn
  <2> QED BY <2>1, <2>2, <1>5, <1>6, FindTasks DEF TaskKind, task
<1> HIDE DEF ts
<1> QED BY <1>1, <1>2, <1>7, QuietGoOn

LEMMA UnionOfBoth ==
    ASSUME NEW A, NEW B
    PROVE  /\ UNION {c.passes : c \in A \union B} = (UNION {c.passes : c \in A}) \union UNION {c.passes : c \in B}
           /\ UNION {c.flows : c \in A \union B} = (UNION {c.flows : c \in A}) \union UNION {c.flows : c \in B}
<1>1. UNION {c.passes : c \in A \union B} = (UNION {c.passes : c \in A}) \union UNION {c.passes : c \in B}
  OBVIOUS
<1>2. UNION {c.flows : c \in A \union B} = (UNION {c.flows : c \in A}) \union UNION {c.flows : c \in B}
  OBVIOUS
<1> QED BY <1>1, <1>2

\* New edges of connected calls.
LEMMA ConnectKeeps ==
    ASSUME Inv, NEW C \in SUBSET prog.svfg.calls, Connect(C), prog' = prog
    PROVE  /\ connected' \subseteq prog'.svfg.calls /\ EdgesKnown'
           /\ passes' \subseteq Loc \X Loc /\ flows' \subseteq Flow
<1>1. prog.svfg \in Program BY ProgramFacts DEF Inv, Data
<1>2. prog.svfg.calls \subseteq Call BY <1>1 DEF Program
<1>3. UNION {c.passes : c \in C} \subseteq Loc \X Loc /\ UNION {c.flows : c \in C} \subseteq Flow
  BY <1>2 DEF Call
<1>4. /\ connected' = connected \union C
      /\ passes' = passes \union UNION {c.passes : c \in C}
      /\ flows' = flows \union UNION {c.flows : c \in C}
  BY DEF Connect
<1>5. /\ UNION {c.passes : c \in connected'} = (UNION {c.passes : c \in connected}) \union UNION {c.passes : c \in C}
      /\ UNION {c.flows : c \in connected'} = (UNION {c.flows : c \in connected}) \union UNION {c.flows : c \in C}
  BY <1>4, UnionOfBoth
<1>6. EdgesKnown' BY <1>4, <1>5 DEF EdgesKnown, Inv
<1> QED BY <1>3, <1>4, <1>6 DEF Inv, Data

LEMMA CacheKeeps ==
    ASSUME Data, NEW d \in Item, NEW S \in SUBSET Obj, Cache(d, S)
    PROVE  pts' \in [Var -> SUBSET Obj] /\ adPts' \in [Loc -> [Obj -> SUBSET Obj]]
<1>1. d.loc \in Loc /\ (~isTopLevel(d.loc) => d.cur \in Obj) BY DEF Item
<1>2. CASE isTopLevel(d.loc)
  <2>1. pts' = [pts EXCEPT ![d.cur] = @ \union S] /\ adPts' = adPts BY <1>2 DEF Cache
  <2> QED BY <2>1 DEF Data
<1>3. CASE ~isTopLevel(d.loc)
  <2>1. adPts' = [adPts EXCEPT ![d.loc][d.cur] = @ \union S] /\ pts' = pts BY <1>3 DEF Cache
  <2> QED BY <2>1, <1>1, <1>3 DEF Data
<1> QED BY <1>2, <1>3

LEMMA Heads ==
    ASSUME Data, NEW C \in SUBSET prog.svfg.calls
    PROVE  heads(C) \subseteq Loc
<1>1. prog.svfg.calls \subseteq Call BY ProgramFacts DEF Data, Program
<1>2. UNION {c.passes : c \in C} \subseteq Loc \X Loc /\ UNION {c.flows : c \in C} \subseteq Flow
  BY <1>1 DEF Call
<1> QED BY <1>2 DEF heads, Flow

LEMMA KindFree ==
    ASSUME NEW op \in {"edges", "affected"}, NEW S, task(op, S) \in Task, NEW l
    PROVE  /\ <<task(op, S)>> \in Seq(Task) /\ ifAny(task(op, S)) \in Seq(Task)
           /\ \A t \in tasksIn(<<task(op, S)>>) : TaskKind(l, t)
           /\ \A t \in tasksIn(ifAny(task(op, S))) : TaskKind(l, t)
<1> DEFINE u == task(op, S)
<1>1. TaskKind(l, u) BY DEF TaskKind, task
<1>2. u \in Task OBVIOUS
<1> HIDE DEF u
<1>3. /\ <<u>> \in Seq(Task) /\ tasksIn(<<u>>) = {u}
      /\ ifAny(u) \in Seq(Task) /\ tasksIn(ifAny(u)) \subseteq {u}
  BY <1>2, OneTask
<1>4. /\ \A t \in tasksIn(<<u>>) : TaskKind(l, t)
      /\ \A t \in tasksIn(ifAny(u)) : TaskKind(l, t)
  BY <1>1, <1>3
<1> QED BY <1>3, <1>4 DEF u

LEMMA UpdateCacheStep == ASSUME Inv, UpdateCache PROVE Inv'
<1> DEFINE d == top.dpm
           grown == ~(top.pts \subseteq cached(d))
           C == IF grown THEN newCalls(d.cur, cached(d) \union top.pts) ELSE {}
           R == {revise(l, Var \union Obj) : l \in heads(C)}
           ts == IF grown THEN ifAny(task("edges", R)) \o <<task("affected", {d})>> ELSE <<>>
<1>1. /\ busy("update") /\ Cache(d, top.pts) /\ Connect(C) /\ goOn(top, ts)
      /\ UNCHANGED <<prog, whole, askedVars>>
  BY DEF UpdateCache
<1>2. top \in Frame /\ d \in Item /\ stack # <<>> /\ top.todo # <<>> /\ Len(stack) # 1
  BY <1>1, TopFrame DEF Inv
<1>3. top.pts \in SUBSET Obj BY <1>2 DEF Frame
<1>4. C \in SUBSET prog.svfg.calls BY DEF newCalls
<1>5. /\ prog' = prog /\ visited' = visited /\ dpmsAt' = dpmsAt /\ outOfBudgetDpms' = outOfBudgetDpms
      /\ outOfBudgetQuery' = outOfBudgetQuery /\ steps' = steps /\ asked' = asked
  BY <1>1 DEF askedVars
<1> HIDE DEF C
<1>6. ts \in Seq(Task) /\ \A t \in tasksIn(ts) : TaskKind(top.dpm.loc, t)
  <2>1. R \in SUBSET Revision BY <1>4, Heads DEF Inv, revise, Revision
  <2> HIDE DEF R
  <2>2. task("edges", R) \in Task /\ task("affected", {d}) \in Task BY <2>1, <1>2, TaskTypes
  <2>3. /\ ifAny(task("edges", R)) \in Seq(Task)
        /\ \A t \in tasksIn(ifAny(task("edges", R))) : TaskKind(top.dpm.loc, t)
    BY <2>2, KindFree
  <2>4. /\ <<task("affected", {d})>> \in Seq(Task)
        /\ \A t \in tasksIn(<<task("affected", {d})>>) : TaskKind(top.dpm.loc, t)
    BY <2>2, KindFree
  <2>5. <<>> \in Seq(Task) /\ Len(<<>>) = 0 OBVIOUS
  <2>6. tasksIn(<<>>) = {} BY <2>5 DEF tasksIn
  <2> DEFINE F == ifAny(task("edges", R))
             G == <<task("affected", {d})>>
  <2>7. /\ F \in Seq(Task) /\ G \in Seq(Task)
        /\ \A t \in tasksIn(F) \union tasksIn(G) : TaskKind(top.dpm.loc, t)
    BY <2>3, <2>4
  <2>8. ts = IF grown THEN F \o G ELSE <<>> OBVIOUS
  <2> HIDE DEF F, G
  <2>9. F \o G \in Seq(Task) /\ \A t \in tasksIn(F \o G) : TaskKind(top.dpm.loc, t) BY <2>7, ConcatTasks
  <2> QED BY <2>5, <2>6, <2>8, <2>9
<1> HIDE DEF ts
<1>7. Stacked' /\ Kinds' /\ stack' # <<>> BY <1>1, <1>2, <1>5, <1>6, GoOnInv
<1>8. /\ connected' \subseteq prog'.svfg.calls /\ EdgesKnown'
      /\ passes' \subseteq Loc \X Loc /\ flows' \subseteq Flow
  BY <1>1, <1>4, <1>5, ConnectKeeps
<1>9. pts' \in [Var -> SUBSET Obj] /\ adPts' \in [Loc -> [Obj -> SUBSET Obj]]
  BY <1>1, <1>2, <1>3, CacheKeeps DEF Inv
<1>10. Data' BY <1>5, <1>8, <1>9, SameProgram DEF Inv, Data
<1>11. Budgeted' /\ GivenUp' BY <1>5, <1>7 DEF Inv, Budgeted, GivenUp
<1> QED BY <1>7, <1>8, <1>10, <1>11 DEF Inv

LEMMA AffectedStep == ASSUME Inv, Affected PROVE Inv'
<1>1. /\ busy("affected") /\ UNCHANGED <<answerVars, askedVars>>
      /\ goOn(top, ifAny(task("edges", affected(top.dpm))))
  BY DEF Affected
<1>2. top \in Frame /\ top.dpm \in Item BY <1>1, TopFrame DEF Inv
<1>3. top.dpm.cur \in Var \union Obj BY <1>2 DEF Item
<1>4. affected(top.dpm) \in SUBSET Revision
  <2>1. /\ \A e \in passes : e[2] \in Loc
        /\ \A f \in flows : f.to \in Loc
    BY DEF Inv, Data, Flow
  <2> QED BY <2>1, <1>3 DEF affected, revise, Revision
<1>5. task("edges", affected(top.dpm)) \in Task BY <1>4, TaskTypes
<1>6. /\ ifAny(task("edges", affected(top.dpm))) \in Seq(Task)
      /\ \A t \in tasksIn(ifAny(task("edges", affected(top.dpm)))) : TaskKind(top.dpm.loc, t)
  BY <1>5, KindFree
<1> QED BY <1>1, <1>2, <1>6, QuietGoOn

LEMMA ReComputeForEdgeStep == ASSUME Inv, ReComputeForEdge PROVE Inv'
<1>1. busy("edges") /\ UNCHANGED <<answerVars, askedVars>> BY DEF ReComputeForEdge
<1>2. PICK e \in now.set :
        goOn(top, find("redo", {d \in dpmsAt : d.loc = e.loc /\ d.cur \in e.of}) \o ifAny(without(now, e)))
  BY DEF ReComputeForEdge
<1>3. top \in Frame BY <1>1, TopFrame DEF Inv
<1> DEFINE D == {d \in dpmsAt : d.loc = e.loc /\ d.cur \in e.of}
<1>4. D \in SUBSET Item /\ "redo" \in Finds BY DEF Inv, Data, Finds
<1> HIDE DEF D
<1>5. find("redo", D) \in Seq(Task) /\ \A t \in tasksIn(find("redo", D)) : TaskKind(top.dpm.loc, t)
  BY <1>4, FindTasks DEF TaskKind, task
<1>6. /\ ifAny(without(now, e)) \in Seq(Task)
      /\ \A t \in tasksIn(ifAny(without(now, e))) : TaskKind(top.dpm.loc, t)
  BY <1>1, RestOfLoop
<1> DEFINE ts == find("redo", D) \o ifAny(without(now, e))
<1>7. ts \in Seq(Task) /\ \A t \in tasksIn(ts) : TaskKind(top.dpm.loc, t) BY <1>5, <1>6, ConcatTasks
<1>8. goOn(top, ts) BY <1>2 DEF D
<1> HIDE DEF ts
<1> QED BY <1>1, <1>3, <1>7, <1>8, QuietGoOn

\* A frame is left and the one below goes on: what the stack is then.
LEMMA Returned ==
    ASSUME Inv, Return
    PROVE  LET below == stack[2]
               t == Head(below.todo)
               g == [give(below, t.op, cached(top.dpm)) EXCEPT !.todo = ifAny(without(t, top.dpm)) \o Tail(@)]
           IN  /\ Len(stack) \in Nat /\ Len(stack) > 1 /\ top = stack[1] /\ top \in Frame /\ below \in Frame
               /\ stack' \in Seq(Frame) /\ Len(stack') = Len(stack) - 1 /\ stack'[1] = g
               /\ \A i \in 2..(Len(stack) - 1) : stack'[i] = stack[i + 1]
               /\ t \in Waiting /\ t \in Task /\ t \in tasksIn(below.todo) /\ below.todo # <<>>
               /\ top.dpm \in t.set \intersect dpmsAt
               /\ g \in Frame /\ g.dpm = below.dpm
               /\ g.pts = give(below, t.op, cached(top.dpm)).pts
               /\ g.ptr = give(below, t.op, cached(top.dpm)).ptr
               /\ g.todo = ifAny(without(t, top.dpm)) \o Tail(below.todo)
               /\ cached(top.dpm) \in SUBSET Obj
<1> DEFINE below == stack[2]
           t == Head(below.todo)
           f == give(below, t.op, cached(top.dpm))
           g == [f EXCEPT !.todo = ifAny(without(t, top.dpm)) \o Tail(@)]
<1>1. Len(stack) > 1 /\ stack' = <<g>> \o Tail(Tail(stack)) BY DEF Return
<1>2. stack \in Seq(Frame) BY DEF Inv, Stacked
<1>3. stack # <<>> /\ Len(stack) \in Nat /\ Len(stack) > 1 BY <1>1, <1>2
<1>4. /\ Tail(stack) \in Seq(Frame) /\ Len(Tail(stack)) = Len(stack) - 1 /\ top = stack[1] /\ top \in Frame
      /\ \A i \in 1..(Len(stack) - 1) : Tail(stack)[i] = stack[i + 1]
  BY <1>2, <1>3, PopSeq DEF top
<1>5. below \in Frame
  <2>1. 2 \in 1..Len(stack) BY <1>3
  <2> QED BY <2>1, <1>2
<1>6. /\ below.todo # <<>> /\ t \in Waiting /\ top.dpm \in t.set \intersect dpmsAt
  <2>1. 2 \in 2..Len(stack) BY <1>3
  <2>2. /\ stack[2].todo # <<>> /\ Head(stack[2].todo) \in Waiting
        /\ stack[2 - 1].dpm \in Head(stack[2].todo).set \intersect dpmsAt
    BY <2>1 DEF Inv, Stacked, Waits
  <2> QED BY <2>2, <1>4
<1>7. below.todo \in Seq(Task) BY <1>5 DEF Frame
<1>8. t \in Task /\ t \in tasksIn(below.todo) /\ Tail(below.todo) \in Seq(Task) BY <1>6, <1>7, TailTasks
<1>9. top.dpm \in Item /\ cached(top.dpm) \in SUBSET Obj
  <2>1. top.dpm \in Item BY <1>4 DEF Frame
  <2> QED BY <2>1, CachedType DEF Inv
<1> HIDE DEF t, below
<1>10. f \in Frame /\ f.dpm = below.dpm /\ f.todo = below.todo BY <1>5, <1>9, Gives
<1> HIDE DEF f
<1>11. ifAny(without(t, top.dpm)) \in Seq(Task) BY <1>8, LoopGoesOn
<1>12. ifAny(without(t, top.dpm)) \o Tail(f.todo) \in Seq(Task) BY <1>8, <1>10, <1>11, ConcatTasks
<1>13. /\ g \in Frame /\ g.dpm = f.dpm /\ g.pts = f.pts /\ g.ptr = f.ptr
       /\ g.todo = ifAny(without(t, top.dpm)) \o Tail(f.todo)
  BY <1>10, <1>12 DEF Frame
<1> HIDE DEF g
<1>14. Tail(stack) # <<>> BY <1>3, <1>4
<1>15. /\ stack' \in Seq(Frame) /\ Len(stack') = Len(stack) - 1 /\ stack'[1] = g
       /\ \A i \in 2..(Len(stack) - 1) : stack'[i] = Tail(stack)[i]
  BY <1>1, <1>4, <1>13, <1>14, ReplaceHead
<1>16. \A i \in 2..(Len(stack) - 1) : stack'[i] = stack[i + 1] BY <1>3, <1>4, <1>15
<1> QED BY <1>3, <1>4, <1>5, <1>6, <1>8, <1>9, <1>10, <1>13, <1>15, <1>16 DEF g, f, t, below

LEMMA ReturnStep == ASSUME Inv, Return PROVE Inv'
<1> DEFINE below == stack[2]
           t == Head(below.todo)
           g == [give(below, t.op, cached(top.dpm)) EXCEPT !.todo = ifAny(without(t, top.dpm)) \o Tail(@)]
<1>1. /\ Len(stack) \in Nat /\ Len(stack) > 1 /\ top = stack[1] /\ below \in Frame
      /\ stack' \in Seq(Frame) /\ Len(stack') = Len(stack) - 1 /\ stack'[1] = g
      /\ \A i \in 2..(Len(stack) - 1) : stack'[i] = stack[i + 1]
      /\ t \in Task /\ t \in tasksIn(below.todo) /\ below.todo # <<>>
      /\ top.dpm \in t.set \intersect dpmsAt
      /\ g.dpm = below.dpm /\ g.todo = ifAny(without(t, top.dpm)) \o Tail(below.todo)
  BY Returned
<1> HIDE DEF g
<1>2. UNCHANGED <<answerVars, askedVars>> /\ prog' = prog /\ visited' = visited /\ dpmsAt' = dpmsAt
  BY DEF Return, answerVars, askedVars
<1>3. Waits'
  <2>1. ASSUME NEW i \in 2..(Len(stack) - 1)
        PROVE  /\ stack'[i].todo # <<>> /\ Head(stack'[i].todo) \in Waiting
               /\ stack'[i - 1].dpm \in Head(stack'[i].todo).set \intersect dpmsAt
    <3>1. /\ stack[i + 1].todo # <<>> /\ Head(stack[i + 1].todo) \in Waiting
          /\ stack[i].dpm \in Head(stack[i + 1].todo).set \intersect dpmsAt
      <4>1. i + 1 \in 2..Len(stack) /\ (i + 1) - 1 = i BY <1>1
      <4> QED BY <4>1 DEF Inv, Stacked, Waits
    <3>2. stack'[i - 1].dpm = stack[i].dpm
      <4>1. CASE i = 2 BY <4>1, <1>1
      <4>2. CASE i # 2
        <5>1. i - 1 \in 2..(Len(stack) - 1) /\ (i - 1) + 1 = i BY <4>2, <1>1
        <5> QED BY <5>1, <1>1
      <4> QED BY <4>1, <4>2
    <3> QED BY <3>1, <3>2, <1>1
  <2> QED BY <2>1, <1>1, <1>2, SameProgram DEF Waits
<1>4. Asked'
  <2>1. CASE Len(stack) = 2
    <3>1. /\ isTopLevel(below.dpm.loc) /\ below.todo = <<task("ignore", {below.dpm})>>
      <4>1. stack # <<>> BY <2>1
      <4>2. stack[Len(stack)] = stack[2] BY <2>1
      <4>3. below.todo # <<>> BY <1>1
      <4> QED BY <4>1, <4>2, <4>3 DEF Inv, Stacked, Asked
    <3>2. t = task("ignore", {below.dpm}) BY <3>1
    <3>3. top.dpm = below.dpm /\ top.dpm \in visited BY <3>2, <1>1 DEF task, Inv, Data
    <3>4. without(t, top.dpm).set = {}
      <4>1. without(t, top.dpm).set = t.set \ {top.dpm} BY <1>1, LoopGoesOn
      <4> QED BY <4>1, <3>2, <3>3 DEF task
    <3>5. g.todo = <<>>
      <4>1. \A x : Tail(<<x>>) = <<>> OBVIOUS
      <4>2. <<>> \o <<>> = <<>> OBVIOUS
      <4>3. ifAny(without(t, top.dpm)) = <<>> BY <3>4 DEF ifAny
      <4> QED BY <4>1, <4>2, <4>3, <3>1, <1>1
    <3>6. Len(stack') = 1 BY <2>1, <1>1
    <3> QED BY <3>1, <3>3, <3>5, <3>6, <1>1, <1>2, SameProgram DEF Asked
  <2>2. CASE Len(stack) # 2
    <3>1. Len(stack) - 1 \in 2..(Len(stack) - 1) /\ (Len(stack) - 1) + 1 = Len(stack) BY <2>2, <1>1
    <3>2. stack'[Len(stack')] = stack[Len(stack)] BY <3>1, <1>1
    <3>3. stack # <<>> BY <1>1
    <3> QED BY <3>2, <3>3, <1>2, SameProgram DEF Asked, Inv, Stacked
  <2> QED BY <2>1, <2>2
<1>5. Kinds'
  <2>1. \A l, x : TaskKind(l, x)' = TaskKind(l, x) BY <1>2, SameProgram DEF TaskKind
  <2>2. \A x \in tasksIn(below.todo) : TaskKind(below.dpm.loc, x)
    <3>1. 2 \in 1..Len(stack) BY <1>1
    <3> QED BY <3>1 DEF Inv, Kinds
  <2>3. \A x \in tasksIn(g.todo) : TaskKind(below.dpm.loc, x)
    <3>1. below.todo \in Seq(Task) BY <1>1 DEF Frame
    <3>2. Tail(below.todo) \in Seq(Task) /\ tasksIn(Tail(below.todo)) \subseteq tasksIn(below.todo)
      BY <3>1, <1>1, TailTasks
    <3>3. /\ without(t, top.dpm).op = t.op
          /\ ifAny(without(t, top.dpm)) \in Seq(Task)
          /\ tasksIn(ifAny(without(t, top.dpm))) \subseteq {without(t, top.dpm)}
      BY <1>1, LoopGoesOn
    <3>4. TaskKind(below.dpm.loc, without(t, top.dpm)) BY <3>3, <2>2, <1>1 DEF TaskKind
    <3> DEFINE F == ifAny(without(t, top.dpm))
    <3>5. F \in Seq(Task) /\ \A x \in tasksIn(F) : TaskKind(below.dpm.loc, x) BY <3>3, <3>4
    <3>6. g.todo = F \o Tail(below.todo) BY <1>1
    <3> HIDE DEF F, t, below
    <3>7. tasksIn(F \o Tail(below.todo)) \subseteq tasksIn(F) \union tasksIn(Tail(below.todo))
      BY <3>2, <3>5, ConcatTasks
    <3> QED BY <3>2, <3>5, <3>6, <3>7, <2>2
  <2>4. ASSUME NEW i \in 1..(Len(stack) - 1), NEW x \in tasksIn(stack'[i].todo)
        PROVE  TaskKind(stack'[i].dpm.loc, x)
    <3>1. CASE i = 1 BY <3>1, <2>3, <2>4, <1>1
    <3>2. CASE i # 1
      <4>1. stack'[i] = stack[i + 1] /\ i + 1 \in 1..Len(stack) BY <3>2, <1>1
      <4> QED BY <4>1, <2>4 DEF Inv, Kinds
    <3> QED BY <3>1, <3>2
  <2> QED BY <2>1, <2>4, <1>1 DEF Kinds
<1>6. stack' # <<>> BY <1>1
<1>7. Stacked' BY <1>1, <1>2, <1>3, <1>4, SameProgram DEF Stacked
<1> QED BY <1>2, <1>5, <1>6, <1>7, QuietStep DEF Inv

LEMMA QueryStep == ASSUME Inv, NEW v \in prog.candidates, Query(v) PROVE Inv'
<1> DEFINE d == defOf(v)
           g == [dpm |-> d, pts |-> {}, ptr |-> {}, todo |-> find("ignore", {d})]
<1>1. /\ prog' = prog /\ passes' = passes /\ flows' = flows /\ connected' = connected /\ pts' = pts
      /\ adPts' = adPts /\ outOfBudgetDpms' = outOfBudgetDpms /\ asked' = asked \union {v}
      /\ visited' = (IF outOfBudgetQuery THEN visited \ (dpmsAt \ outOfBudgetDpms) ELSE visited)
      /\ dpmsAt' = {} /\ outOfBudgetQuery' = FALSE /\ steps' = 0 /\ stack' = <<g>>
  BY DEF Query, answerVars
<1>2. d \in Item /\ isTopLevel(d.loc) BY DefinitionOf DEF Inv, Data
<1>3. v \in Var /\ prog.budget \in Nat BY ProgramFacts DEF Inv, Data, DDAProgram
<1>4. find("ignore", {d}) = <<task("ignore", {d})>>
  <2>1. task("ignore", {d}).set # {} BY DEF task
  <2> QED BY <2>1 DEF find, ifAny
<1>5. <<task("ignore", {d})>> \in Seq(Task) /\ tasksIn(<<task("ignore", {d})>>) = {task("ignore", {d})}
  <2>1. task("ignore", {d}) \in Task BY <1>2, TaskTypes DEF Finds
  <2> QED BY <2>1, OneTask
<1>6. g \in Frame /\ g.dpm = d /\ g.todo = <<task("ignore", {d})>>
      /\ \A t \in tasksIn(g.todo) : TaskKind(d.loc, t)
  <2>1. g \in Frame BY <1>2, <1>4, <1>5 DEF Frame
  <2>2. TaskKind(d.loc, task("ignore", {d})) BY DEF TaskKind, task
  <2> QED BY <2>1, <2>2, <1>4, <1>5
<1> HIDE DEF g
<1>7. stack' \in Seq(Frame) /\ Len(stack') = 1 /\ stack'[1] = g /\ stack' # <<>>
  BY <1>1, <1>6
<1>8. Stacked'
  <2>1. Waits' BY <1>7 DEF Waits
  <2>2. Asked' BY <1>1, <1>2, <1>6, <1>7, SameProgram DEF Asked
  <2> QED BY <2>1, <2>2, <1>1, <1>7, SameProgram DEF Stacked
<1>9. Kinds'
  <2>1. \A l, t : TaskKind(l, t)' = TaskKind(l, t) BY <1>1, SameProgram DEF TaskKind
  <2>2. \A i \in 1..1 : \A t \in tasksIn(stack'[i].todo) : TaskKind(stack'[i].dpm.loc, t)
    BY <1>6, <1>7
  <2> QED BY <2>1, <2>2, <1>7 DEF Kinds
<1>10. Data'
  <2>1. Item' = Item /\ prog'.budget = prog.budget BY <1>1, SameProgram
  <2>2. /\ visited' \subseteq Item /\ dpmsAt' \subseteq visited' /\ asked' \subseteq Var
        /\ outOfBudgetDpms' \subseteq visited'
    BY <1>1, <1>3 DEF Inv, Data
  <2>3. steps' \in 0..(prog.budget + 1)
    <3>1. steps' = 0 BY <1>1
    <3> QED BY <3>1, <1>3
  <2>5. outOfBudgetQuery' \in BOOLEAN BY <1>1
  <2>4. /\ prog' \in Programs /\ passes' \subseteq Loc \X Loc /\ flows' \subseteq Flow
        /\ connected' \subseteq prog'.svfg.calls
        /\ pts' \in [Var -> SUBSET Obj] /\ adPts' \in [Loc -> [Obj -> SUBSET Obj]]
    BY <1>1 DEF Inv, Data
  <2> QED BY <2>1, <2>2, <2>3, <2>4, <2>5 DEF Data
<1>11. EdgesKnown' /\ Budgeted' /\ GivenUp' BY <1>1, <1>3, <1>7 DEF Inv, EdgesKnown, Budgeted, GivenUp
<1> QED BY <1>8, <1>9, <1>10, <1>11 DEF Inv

LEMMA AnswerStep == ASSUME Inv, Answer PROVE Inv'
<1> DEFINE d == top.dpm
           T == IF outOfBudgetQuery THEN prog.ander[d.cur] ELSE {}
           C == IF T \subseteq pts[d.cur] THEN {} ELSE newCalls(d.cur, pts[d.cur] \union T)
<1>1. /\ Len(stack) = 1 /\ top.todo = <<>> /\ stack' = <<>>
      /\ pts' = [pts EXCEPT ![d.cur] = @ \union T] /\ Connect(C)
      /\ outOfBudgetDpms' = outOfBudgetDpms \union (IF outOfBudgetQuery THEN {d} ELSE {})
      /\ prog' = prog /\ adPts' = adPts /\ visited' = visited /\ dpmsAt' = dpmsAt
      /\ outOfBudgetQuery' = outOfBudgetQuery /\ steps' = steps /\ asked' = asked
  BY DEF Answer
<1>2. stack \in Seq(Frame) /\ stack # <<>>
  <2>1. stack \in Seq(Frame) BY DEF Inv, Stacked
  <2>2. Len(stack) = 1 BY <1>1
  <2>3. Len(<<>>) = 0 OBVIOUS
  <2>4. stack # <<>> BY <2>2, <2>3
  <2> QED BY <2>1, <2>4
<1>3. top = stack[1] /\ top \in Frame /\ d \in Item
  <2>1. top = stack[1] /\ top \in Frame BY <1>2, PopSeq DEF top
  <2> QED BY <2>1 DEF Frame
<1>4. isTopLevel(d.loc) /\ d \in visited
  <2>1. stack[Len(stack)] = top BY <1>1, <1>3
  <2>2. top.todo # <<task("ignore", {d})>> BY <1>1
  <2> QED BY <2>1, <2>2, <1>2 DEF Inv, Stacked, Asked
<1>5. d.cur \in Var
  <2>1. d.loc \in Loc /\ d.cur = lhs(d.loc) BY <1>3, <1>4 DEF Item
  <2>2. lhs(d.loc) \in Var BY <2>1, <1>4, Definition DEF Inv, Data
  <2> QED BY <2>1, <2>2
<1>6. T \in SUBSET Obj
  <2>1. prog.ander \in [Var -> SUBSET Obj] BY ProgramFacts DEF Inv, Data, DDAProgram
  <2> QED BY <2>1, <1>5
<1>7. C \in SUBSET prog.svfg.calls BY DEF newCalls
<1> HIDE DEF C, T
<1>8. /\ connected' \subseteq prog'.svfg.calls /\ EdgesKnown'
      /\ passes' \subseteq Loc \X Loc /\ flows' \subseteq Flow
  BY <1>1, <1>7, ConnectKeeps
<1>9. pts' \in [Var -> SUBSET Obj] BY <1>1, <1>6 DEF Inv, Data
<1>10. outOfBudgetDpms' \subseteq visited BY <1>1, <1>4 DEF Inv, Data
<1>11. Data' BY <1>1, <1>8, <1>9, <1>10, SameProgram DEF Inv, Data
<1>12. Len(stack') = 0 /\ stack' \in Seq(Frame) BY <1>1
<1>13. Stacked' /\ Kinds'
  <2>1. Waits' /\ Asked' /\ Kinds' BY <1>1, <1>12 DEF Waits, Asked, Kinds
  <2> QED BY <2>1, <1>1, <1>12, SameProgram DEF Stacked
<1>14. Budgeted' /\ GivenUp' BY <1>1 DEF Inv, Budgeted, GivenUp
<1> QED BY <1>8, <1>11, <1>13, <1>14 DEF Inv

LEMMA Initially == Init => Inv
<1> SUFFICES ASSUME Init PROVE Inv OBVIOUS
<1>1. /\ prog \in Programs /\ passes = prog.svfg.passes /\ flows = prog.svfg.flows /\ connected = {}
      /\ pts = [v \in Var |-> {}] /\ adPts = [l \in Loc |-> [o \in Obj |-> {}]]
      /\ visited = {} /\ dpmsAt = {} /\ outOfBudgetDpms = {}
      /\ outOfBudgetQuery = FALSE /\ steps = 0 /\ stack = <<>> /\ asked = {}
  BY DEF Init
<1>2. prog.svfg \in Program /\ prog.budget \in Nat BY <1>1, ProgramFacts DEF DDAProgram
<1>3. passes \subseteq Loc \X Loc /\ flows \subseteq Flow BY <1>1, <1>2 DEF Program
<1>4. Data
  <2>1. pts \in [Var -> SUBSET Obj] /\ adPts \in [Loc -> [Obj -> SUBSET Obj]] BY <1>1
  <2>2. steps \in 0..(prog.budget + 1)
    <3>1. steps = 0 BY <1>1
    <3> QED BY <3>1, <1>2
  <2>4. outOfBudgetQuery \in BOOLEAN BY <1>1
  <2>3. visited \subseteq Item /\ dpmsAt \subseteq visited /\ outOfBudgetDpms \subseteq visited
        /\ asked \subseteq Var /\ connected \subseteq prog.svfg.calls /\ prog \in Programs
    BY <1>1
  <2> QED BY <2>1, <2>2, <2>3, <2>4, <1>3 DEF Data
<1>5. Stacked /\ Kinds
  <2>1. stack \in Seq(Frame) /\ Len(stack) = 0 BY <1>1
  <2> QED BY <1>1, <2>1 DEF Stacked, Waits, Asked, Kinds
<1>6. EdgesKnown BY <1>1 DEF EdgesKnown
<1>7. Budgeted /\ GivenUp BY <1>1, <1>2 DEF Budgeted, GivenUp
<1> QED BY <1>4, <1>5, <1>6, <1>7 DEF Inv

LEMMA Unchanged == ASSUME Inv, UNCHANGED vars PROVE Inv'
<1>1. UNCHANGED <<answerVars, askedVars>> /\ stack' = stack BY DEF vars
<1>2. /\ prog' = prog /\ passes' = passes /\ flows' = flows /\ connected' = connected /\ pts' = pts
      /\ adPts' = adPts /\ visited' = visited /\ dpmsAt' = dpmsAt /\ outOfBudgetDpms' = outOfBudgetDpms
      /\ outOfBudgetQuery' = outOfBudgetQuery /\ steps' = steps /\ asked' = asked
  BY <1>1 DEF answerVars, askedVars
<1>3. Data' BY <1>2, SameProgram DEF Inv, Data
<1>4. Stacked' BY <1>1, <1>2, SameProgram DEF Inv, Stacked, Waits, Asked
<1>5. Kinds'
  <2>1. \A l, t : TaskKind(l, t)' = TaskKind(l, t) BY <1>2, SameProgram DEF TaskKind
  <2> QED BY <2>1, <1>1 DEF Inv, Kinds
<1>6. EdgesKnown' /\ Budgeted' /\ GivenUp' BY <1>1, <1>2 DEF Inv, EdgesKnown, Budgeted, GivenUp
<1> QED BY <1>3, <1>4, <1>5, <1>6 DEF Inv

LEMMA Inductive == Inv /\ [Next]_vars => Inv'
<1> SUFFICES ASSUME Inv, [Next]_vars PROVE Inv' OBVIOUS
<1>1. CASE findPT
  <2>1. PICK op \in Finds : busy(op) /\ \E d \in now.set : FindCached(d) \/ FindNew(d) BY <1>1 DEF findPT
  <2> QED BY <2>1, FindCachedStep, FindNewStep
<1>2. CASE HandleStatement BY <1>2, HandleStatementStep
<1>3. CASE ThroughPointer BY <1>3, ThroughPointerStep
<1>4. CASE ThroughObject BY <1>4, ThroughObjectStep
<1>5. CASE AfterWrite BY <1>5, AfterWriteStep
<1>6. CASE UpdateCache BY <1>6, UpdateCacheStep
<1>7. CASE Affected BY <1>7, AffectedStep
<1>8. CASE ReComputeForEdge BY <1>8, ReComputeForEdgeStep
<1>9. CASE Return BY <1>9, ReturnStep
<1>10. CASE Answer BY <1>10, AnswerStep
<1>11. CASE \E v \in prog.candidates : Query(v) BY <1>11, QueryStep
<1>12. CASE UNCHANGED vars BY <1>12, Unchanged
<1> QED BY <1>1, <1>2, <1>3, <1>4, <1>5, <1>6, <1>7, <1>8, <1>9, <1>10, <1>11, <1>12 DEF Next, Work

LEMMA Invariance == Spec => []Inv
BY Initially, Inductive, PTL DEF Spec

\* The variables keep their types, every frame waits for the one above it, and
\* what reComputeForEdges clears has been marked (clearbkVisited).
THEOREM TypeCorrect == Spec => []TypeOK
<1>1. Inv => TypeOK BY InvTypeOK DEF Inv
<1> QED BY <1>1, Invariance, PTL

-----------------------------------------------------------------------------
\* The calls a solution connects, and the equations with them.
Called(S) == {c \in prog.svfg.calls : c.fun \in S.pts[c.fp]}
flowsOf(p, C) == p.svfg.flows \union UNION {c.flows : c \in C}
passesOf(p, C) == p.svfg.passes \union UNION {c.passes : c \in C}

-----------------------------------------------------------------------------
\* What the equations give a pointer, an object at a store, and an edge.
LEMMA DefinedByAddr ==
    ASSUME NEW p, NEW C, NEW S, NEW l, p.svfg.stmt[l].kind = "addr"
    PROVE  FS(p, C)!Defined(S, l) = p.svfg.stmt[l].obj
BY Zenon DEF FS!Defined, FS!stmt

LEMMA DefinedByCopy ==
    ASSUME NEW p, NEW C, NEW S, NEW l, p.svfg.stmt[l].kind = "copy"
    PROVE  FS(p, C)!Defined(S, l) = UNION {S.pts[v] : v \in p.svfg.stmt[l].src}
<1>1. p.svfg.stmt[l].kind # "addr" OBVIOUS
<1> QED BY <1>1, Zenon DEF FS!Defined, FS!stmt, FS!AnyPts

LEMMA DefinedByLoad ==
    ASSUME NEW p, NEW C, NEW S, NEW l, p.svfg.stmt[l].kind = "load"
    PROVE  FS(p, C)!Defined(S, l)
             = UNION {S.inPts[l][o] : o \in (UNION {S.pts[v] : v \in p.svfg.stmt[l].src}) \ p.svfg.const}
<1>1. p.svfg.stmt[l].kind # "addr" /\ p.svfg.stmt[l].kind # "copy" OBVIOUS
<1> QED BY <1>1, Zenon DEF FS!Defined, FS!stmt, FS!AnyPts

LEMMA DefinedByReceive ==
    ASSUME NEW p, NEW C, NEW S, NEW l, p.svfg.stmt[l].kind = "receive"
    PROVE  FS(p, C)!Defined(S, l)
             = UNION {UNION {S.pts[v] : v \in p.svfg.stmt[m].src} : m \in {k \in Loc : <<k, l>> \in passesOf(p, C)}}
<1>1. p.svfg.stmt[l].kind # "addr" /\ p.svfg.stmt[l].kind # "copy" /\ p.svfg.stmt[l].kind # "load" OBVIOUS
<1> QED BY <1>1, Zenon DEF FS!Defined, FS!stmt, FS!AnyPts, passesOf

LEMMA WrittenByStore ==
    ASSUME NEW p, NEW C, NEW S, NEW l, NEW o, p.svfg.stmt[l].kind = "store"
    PROVE  LET P == UNION {S.pts[v] : v \in p.svfg.stmt[l].dst}
           IN  /\ o \in P \ p.svfg.const =>
                    (UNION {S.pts[v] : v \in p.svfg.stmt[l].src}) \subseteq FS(p, C)!Written(S, l, o)
               /\ P # {} /\ ~(P = {o} /\ o \notin p.svfg.weak) => S.inPts[l][o] \subseteq FS(p, C)!Written(S, l, o)
BY Zenon DEF FS!Written, FS!stmt, FS!AnyPts

LEMMA CarriedBy ==
    ASSUME NEW p, NEW C, NEW S, NEW f
    PROVE  FS(p, C)!Carried(S, f) = (IF p.svfg.stmt[f.from].kind = "store" THEN S.outPts[f.from][f.obj]
                                     ELSE S.inPts[f.from][f.obj])
BY Zenon DEF FS!Carried, FS!stmt

LEMMA Solved ==
    ASSUME NEW p, NEW S, Closed(S, p)
    PROVE  LET C == {c \in p.svfg.calls : c.fun \in S.pts[c.fp]} IN
           /\ \A v \in Var : \A l \in Loc : v \in Defs(p.svfg.stmt[l]) => FS(p, C)!Defined(S, l) \subseteq S.pts[v]
           /\ \A l \in Loc : \A o \in Obj : FS(p, C)!Written(S, l, o) \subseteq S.outPts[l][o]
           /\ \A l \in Loc : \A o \in Obj : \A f \in flowsOf(p, C) :
                f.to = l /\ f.obj = o => FS(p, C)!Carried(S, f) \subseteq S.inPts[l][o]
<1> DEFINE C == {c \in p.svfg.calls : c.fun \in S.pts[c.fp]}
           E == FS(p, C)!Equations(S)
<1>1. /\ \A v \in Var : E.pts[v] \subseteq S.pts[v]
      /\ \A l \in Loc : \A o \in Obj : /\ E.inPts[l][o] \subseteq S.inPts[l][o]
                                       /\ E.outPts[l][o] \subseteq S.outPts[l][o]
  BY Zenon DEF Closed
<1> HIDE DEF C
<1>2. E = [pts |-> [v \in Var |-> UNION {FS(p, C)!Defined(S, l) : l \in {k \in Loc : v \in Defs(p.svfg.stmt[k])}}],
           inPts |-> [l \in Loc |-> [o \in Obj |->
                        UNION {FS(p, C)!Carried(S, f) : f \in {g \in flowsOf(p, C) : g.to = l /\ g.obj = o}}]],
           outPts |-> [l \in Loc |-> [o \in Obj |-> FS(p, C)!Written(S, l, o)]]]
  BY Zenon DEF FS!Equations, FS!stmt, flowsOf, FS!Defs, Defs
<1> HIDE DEF E
<1>3. ASSUME NEW v \in Var, NEW l \in Loc, v \in Defs(p.svfg.stmt[l])
      PROVE  FS(p, C)!Defined(S, l) \subseteq S.pts[v]
  <2>1. E.pts[v] = UNION {FS(p, C)!Defined(S, k) : k \in {k \in Loc : v \in Defs(p.svfg.stmt[k])}} BY <1>2
  <2> QED BY <2>1, <1>1, <1>3
<1>4. ASSUME NEW l \in Loc, NEW o \in Obj PROVE FS(p, C)!Written(S, l, o) \subseteq S.outPts[l][o]
  <2>1. E.outPts[l][o] = FS(p, C)!Written(S, l, o) BY <1>2
  <2> QED BY <2>1, <1>1
<1>5. ASSUME NEW l \in Loc, NEW o \in Obj, NEW f \in flowsOf(p, C), f.to = l, f.obj = o
      PROVE  FS(p, C)!Carried(S, f) \subseteq S.inPts[l][o]
  <2>1. E.inPts[l][o] = UNION {FS(p, C)!Carried(S, g) : g \in {g \in flowsOf(p, C) : g.to = l /\ g.obj = o}}
    BY <1>2
  <2> QED BY <2>1, <1>1, <1>5
<1> QED BY <1>3, <1>4, <1>5, Zenon DEF C

-----------------------------------------------------------------------------
\* What follows along the edges the analysis walks back.
pointer(l) == IF stmt(l).kind = "load" THEN Only(stmt(l).src) ELSE Only(stmt(l).dst)
Solution(S) == Graph /\ Closed(S, prog) /\ connected \subseteq Called(S)

LEMMA EdgesOfSolution ==
    ASSUME NEW S, Solution(S)
    PROVE  passes \subseteq passesOf(prog, Called(S)) /\ flows \subseteq flowsOf(prog, Called(S))
BY DEF Solution, Graph, EdgesKnown, passesOf, flowsOf

LEMMA Operands ==
    ASSUME Graph, NEW l \in Loc
    PROVE  /\ stmt(l).kind \in {"addr", "copy", "load", "receive"} =>
                stmt(l).dst = {lhs(l)} /\ lhs(l) \in Defs(stmt(l)) /\ lhs(l) \in Var
           /\ stmt(l).kind = "pass" => stmt(l).src = {lhs(l)} /\ lhs(l) \in Var
           /\ stmt(l).kind \in {"load", "store"} =>
                pointer(l) \in Uses(stmt(l)) /\ Only(stmt(l).src) \in Uses(stmt(l)) /\ stmt(l).src = {Only(stmt(l).src)}
           /\ stmt(l).kind = "load" => stmt(l).src = {pointer(l)}
           /\ stmt(l).kind = "store" => stmt(l).dst = {pointer(l)}
<1>1. prog \in Programs BY DEF Graph
<1>2. /\ stmt(l).kind \in {"addr", "copy", "load", "receive"} => Single(stmt(l).dst)
      /\ stmt(l).kind \in {"load", "pass", "store"} => Single(stmt(l).src)
      /\ stmt(l).kind = "store" => Single(stmt(l).dst)
  BY <1>1, ProgramFacts DEF WellFormed, stmt
<1>3. stmt(l) \in Stmt BY <1>1, ProgramFacts
<1>4. ASSUME stmt(l).kind \in {"addr", "copy", "load", "receive"}
      PROVE  stmt(l).dst = {lhs(l)} /\ lhs(l) \in Defs(stmt(l)) /\ lhs(l) \in Var
  <2>1. stmt(l).dst = {Only(stmt(l).dst)} BY <1>2, <1>4, OnlyOne
  <2>2. lhs(l) = Only(stmt(l).dst) BY <1>4 DEF lhs
  <2> QED BY <2>1, <2>2, <1>3, <1>4 DEF Stmt, Defs
<1>5. ASSUME stmt(l).kind = "pass" PROVE stmt(l).src = {lhs(l)} /\ lhs(l) \in Var
  <2>1. stmt(l).src = {Only(stmt(l).src)} BY <1>2, <1>5, OnlyOne
  <2>2. lhs(l) = Only(stmt(l).src) BY <1>5 DEF lhs
  <2> QED BY <2>1, <2>2, <1>3 DEF Stmt
<1>6. ASSUME stmt(l).kind = "load"
      PROVE  /\ pointer(l) \in Uses(stmt(l)) /\ Only(stmt(l).src) \in Uses(stmt(l))
             /\ stmt(l).src = {Only(stmt(l).src)} /\ stmt(l).src = {pointer(l)}
  <2>1. stmt(l).src = {Only(stmt(l).src)} BY <1>2, <1>6, OnlyOne
  <2>2. pointer(l) = Only(stmt(l).src) BY <1>6 DEF pointer
  <2> QED BY <2>1, <2>2, <1>6 DEF Uses
<1>7. ASSUME stmt(l).kind = "store"
      PROVE  /\ pointer(l) \in Uses(stmt(l)) /\ Only(stmt(l).src) \in Uses(stmt(l))
             /\ stmt(l).src = {Only(stmt(l).src)} /\ stmt(l).dst = {pointer(l)}
  <2>1. stmt(l).src = {Only(stmt(l).src)} /\ stmt(l).dst = {Only(stmt(l).dst)} BY <1>2, <1>7, OnlyOne
  <2>2. pointer(l) = Only(stmt(l).dst) BY <1>7 DEF pointer
  <2> QED BY <2>1, <2>2, <1>7 DEF Uses
<1> QED BY <1>4, <1>5, <1>6, <1>7

LEMMA OfTopLevel ==
    ASSUME NEW S, NEW d \in Item, isTopLevel(d.loc)
    PROVE  of(S, d) = S.pts[lhs(d.loc)] /\ d.cur = lhs(d.loc)
BY DEF of, Item

LEMMA OfDefinition ==
    ASSUME Graph, NEW S, NEW l \in Loc, NEW v \in prog.resolves[l] \union Uses(stmt(l))
    PROVE  of(S, defOf(v)) = S.pts[v]
<1>1. isTopLevel(defOf(v).loc) /\ defOf(v).cur = v BY DefinitionOf DEF Graph
<1> QED BY <1>1 DEF of

LEMMA FlowBound ==
    ASSUME NEW S, Solution(S), NEW f \in flows
    PROVE  of(S, item(f.obj, f.from)) \subseteq S.inPts[f.to][f.obj]
<1>1. f \in Flow /\ stmt(f.from).kind \in {"store", "mssa"} BY EdgeShapes DEF Solution
<1>2. f.to \in Loc /\ f.obj \in Obj BY <1>1 DEF Flow
<1>3. f \in flowsOf(prog, Called(S)) BY EdgesOfSolution
<1>4. FS(prog, Called(S))!Carried(S, f) \subseteq S.inPts[f.to][f.obj]
  <2>1. Closed(S, prog) BY DEF Solution
  <2> QED BY <2>1, <1>2, <1>3, Solved DEF Called
<1>5. FS(prog, Called(S))!Carried(S, f) = (IF stmt(f.from).kind = "store" THEN S.outPts[f.from][f.obj]
                                         ELSE S.inPts[f.from][f.obj])
  BY CarriedBy DEF stmt
<1>6. item(f.obj, f.from).loc = f.from /\ item(f.obj, f.from).cur = f.obj BY DEF item
<1>7. ~isTopLevel(f.from) BY <1>1 DEF isTopLevel
<1>8. of(S, item(f.obj, f.from)) = (IF stmt(f.from).kind = "store" THEN S.outPts[f.from][f.obj]
                                    ELSE S.inPts[f.from][f.obj])
  BY <1>6, <1>7, Zenon DEF of
<1> QED BY <1>4, <1>5, <1>8

LEMMA IndirectBound ==
    ASSUME NEW S, Solution(S), NEW l \in Loc, NEW o \in Obj, NEW d \in indirectInto(l, o)
    PROVE  of(S, d) \subseteq S.inPts[l][o] /\ o \notin prog.svfg.const
<1>1. PICK f \in flows : f.to = l /\ f.obj = o /\ d = item(o, f.from) BY DEF indirectInto
<1>2. o \notin prog.svfg.const BY DEF indirectInto
<1> QED BY <1>1, <1>2, FlowBound

LEMMA DefinedBound ==
    ASSUME NEW S, Solution(S), NEW l \in Loc, stmt(l).kind \in {"addr", "copy", "load", "receive"}
    PROVE  FS(prog, Called(S))!Defined(S, l) \subseteq S.pts[lhs(l)]
<1>1. lhs(l) \in Defs(prog.svfg.stmt[l]) /\ lhs(l) \in Var BY Operands DEF Solution, stmt
<1>2. Closed(S, prog) BY DEF Solution
<1> QED BY <1>1, <1>2, Solved DEF Called

LEMMA AddrBound ==
    ASSUME NEW S, Solution(S), NEW l \in Loc, stmt(l).kind = "addr"
    PROVE  stmt(l).obj \subseteq S.pts[lhs(l)]
<1>1. FS(prog, Called(S))!Defined(S, l) = stmt(l).obj BY DefinedByAddr DEF stmt
<1> QED BY <1>1, DefinedBound

LEMMA CopyBound ==
    ASSUME NEW S, Solution(S), NEW l \in Loc, stmt(l).kind = "copy", NEW v \in stmt(l).src
    PROVE  S.pts[v] \subseteq S.pts[lhs(l)]
<1>1. FS(prog, Called(S))!Defined(S, l) = UNION {S.pts[w] : w \in stmt(l).src} BY DefinedByCopy DEF stmt
<1>2. FS(prog, Called(S))!Defined(S, l) \subseteq S.pts[lhs(l)] BY DefinedBound
<1>3. S.pts[v] \subseteq UNION {S.pts[w] : w \in stmt(l).src} OBVIOUS
<1> QED BY <1>1, <1>2, <1>3

LEMMA LoadBound ==
    ASSUME NEW S, Solution(S), NEW l \in Loc, stmt(l).kind = "load",
           NEW o \in S.pts[pointer(l)], o \notin prog.svfg.const
    PROVE  S.inPts[l][o] \subseteq S.pts[lhs(l)]
<1> DEFINE P == UNION {S.pts[w] : w \in stmt(l).src}
<1>1. FS(prog, Called(S))!Defined(S, l) = UNION {S.inPts[l][x] : x \in P \ prog.svfg.const}
  BY DefinedByLoad DEF stmt
<1>2. FS(prog, Called(S))!Defined(S, l) \subseteq S.pts[lhs(l)] BY DefinedBound
<1>3. stmt(l).src = {pointer(l)} BY Operands DEF Solution
<1>4. o \in P \ prog.svfg.const BY <1>3
<1> HIDE DEF P
<1>5. S.inPts[l][o] \subseteq UNION {S.inPts[l][x] : x \in P \ prog.svfg.const} BY <1>4
<1> QED BY <1>1, <1>2, <1>5

LEMMA ReceiveBound ==
    ASSUME NEW S, Solution(S), NEW l \in Loc, NEW m \in Loc, <<m, l>> \in passes
    PROVE  stmt(l).kind = "receive" /\ stmt(m).kind = "pass" /\ S.pts[lhs(m)] \subseteq S.pts[lhs(l)]
<1>1. stmt(m).kind = "pass" /\ stmt(l).kind = "receive"
  <2>1. stmt(<<m, l>>[1]).kind = "pass" /\ stmt(<<m, l>>[2]).kind = "receive" BY EdgeShapes DEF Solution
  <2> QED BY <2>1
<1> DEFINE D == {k \in Loc : <<k, l>> \in passesOf(prog, Called(S))}
           from(k) == UNION {S.pts[w] : w \in stmt(k).src}
<1>2. FS(prog, Called(S))!Defined(S, l) = UNION {from(k) : k \in D} BY <1>1, DefinedByReceive DEF stmt
<1>3. FS(prog, Called(S))!Defined(S, l) \subseteq S.pts[lhs(l)] BY <1>1, DefinedBound
<1>4. m \in D BY EdgesOfSolution
<1>5. S.pts[lhs(m)] \subseteq from(m)
  <2>1. stmt(m).src = {lhs(m)} BY <1>1, Operands DEF Solution
  <2> QED BY <2>1
<1> HIDE DEF D, from
<1>6. from(m) \subseteq UNION {from(k) : k \in D} BY <1>4
<1> QED BY <1>1, <1>2, <1>3, <1>5, <1>6

LEMMA DirectBound ==
    ASSUME NEW S, Solution(S), NEW l \in Loc, stmt(l).kind \in {"copy", "pass", "receive"},
           NEW d \in directInto(l)
    PROVE  of(S, d) \subseteq S.pts[lhs(l)]
<1>1. PICK m \in Loc : d = item(lhs(m), m)
                       /\ (Defs(stmt(m)) \intersect Uses(stmt(l)) # {} \/ <<m, l>> \in passes)
  BY DEF directInto
<1>2. prog \in Programs BY DEF Solution, Graph
<1>3. isTopLevel(m) => of(S, d) = S.pts[lhs(m)] BY <1>1 DEF of, item
<1>4. CASE <<m, l>> \in passes
  <2>1. stmt(m).kind = "pass" /\ S.pts[lhs(m)] \subseteq S.pts[lhs(l)] BY <1>4, ReceiveBound
  <2>2. isTopLevel(m) BY <2>1 DEF isTopLevel
  <2> QED BY <2>1, <2>2, <1>3
<1>5. CASE Defs(stmt(m)) \intersect Uses(stmt(l)) # {}
  <2>1. PICK v : v \in Defs(stmt(m)) /\ v \in Uses(stmt(l)) BY <1>5
  <2>2. lhs(m) = v /\ isTopLevel(m) BY <2>1, <1>2, Definition
  <2>3. v \in stmt(l).src BY <2>1 DEF Uses
  <2>4. CASE stmt(l).kind = "copy" BY <2>2, <2>3, <2>4, <1>3, CopyBound
  <2>5. CASE stmt(l).kind = "pass"
    <3>1. stmt(l).src = {lhs(l)} BY <2>5, Operands DEF Solution
    <3> QED BY <3>1, <2>2, <2>3, <1>3
  <2>6. CASE stmt(l).kind = "receive"
    <3>1. stmt(l).src = {} BY <2>6, <1>2, ProgramFacts
    <3> QED BY <3>1, <2>3
  <2> QED BY <2>4, <2>5, <2>6
<1> QED BY <1>1, <1>4, <1>5

LEMMA StoreBound ==
    ASSUME NEW S, Solution(S), NEW l \in Loc, stmt(l).kind = "store", NEW o \in Obj
    PROVE  /\ o \in S.pts[pointer(l)] /\ o \notin prog.svfg.const =>
                S.pts[Only(stmt(l).src)] \subseteq S.outPts[l][o]
           /\ S.pts[pointer(l)] # {} /\ ~(S.pts[pointer(l)] = {o} /\ o \notin prog.svfg.weak) =>
                S.inPts[l][o] \subseteq S.outPts[l][o]
<1> DEFINE P == UNION {S.pts[w] : w \in stmt(l).dst}
           Q == UNION {S.pts[w] : w \in stmt(l).src}
<1>1. /\ o \in P \ prog.svfg.const => Q \subseteq FS(prog, Called(S))!Written(S, l, o)
      /\ P # {} /\ ~(P = {o} /\ o \notin prog.svfg.weak) =>
           S.inPts[l][o] \subseteq FS(prog, Called(S))!Written(S, l, o)
  BY WrittenByStore DEF stmt
<1>2. FS(prog, Called(S))!Written(S, l, o) \subseteq S.outPts[l][o]
  <2>1. Closed(S, prog) BY DEF Solution
  <2> QED BY <2>1, Solved DEF Called
<1>3. stmt(l).dst = {pointer(l)} /\ stmt(l).src = {Only(stmt(l).src)} BY Operands DEF Solution
<1>4. P = S.pts[pointer(l)] /\ Q = S.pts[Only(stmt(l).src)] BY <1>3
<1> HIDE DEF P, Q
<1> QED BY <1>1, <1>2, <1>4

-----------------------------------------------------------------------------
\* A frame keeps within a solution: what it has gathered so far, and what it
\* is going to ask for.
TaskWithin(S, f, t) ==
    /\ t.op = "pts" => \A d \in t.set : of(S, d) \subseteq of(S, f.dpm)
    /\ t.op = "ptr" => \A d \in t.set : of(S, d) \subseteq S.pts[pointer(f.dpm.loc)]
    /\ t.op \in {"objects", "written"} => t.set \subseteq f.ptr
    /\ t.op = "written" => f.dpm.cur \in t.set
FrameWithin(S, f) ==
    /\ f.pts \subseteq of(S, f.dpm) /\ f.ptr \subseteq S.pts[pointer(f.dpm.loc)]
    /\ \A t \in tasksIn(f.todo) : TaskWithin(S, f, t)
FramesWithin(S) == \A i \in 1..Len(stack) : FrameWithin(S, stack[i])
Within(S) == CachesWithin(S) /\ Solution(S) /\ FramesWithin(S)

LEMMA FindWithin ==
    ASSUME NEW S, NEW f, NEW op \in {"pts", "ptr"}, NEW D,
           op = "pts" => \A d \in D : of(S, d) \subseteq of(S, f.dpm),
           op = "ptr" => \A d \in D : of(S, d) \subseteq S.pts[pointer(f.dpm.loc)]
    PROVE  TaskWithin(S, f, task(op, D))
<1>1. task(op, D).op = op /\ task(op, D).set = D BY DEF task
<1> QED BY <1>1 DEF TaskWithin

LEMMA TasksOfWithin ==
    ASSUME NEW S, Solution(S), NEW f, f.dpm \in Item, NEW t \in tasksIn(tasksOf(f.dpm))
    PROVE  TaskWithin(S, f, t)
<1> DEFINE d == f.dpm
           s == stmt(d.loc)
<1>1. d \in Item /\ d.loc \in Loc BY DEF Item
<1>2. Graph BY DEF Solution
<1>3. \/ t = task("pts", directInto(d.loc)) /\ s.kind \in {"copy", "pass", "receive"}
      \/ t = task("pts", indirectInto(d.loc, d.cur)) /\ s.kind = "mssa"
      \/ t = task("ptr", {defOf(Only(s.src))}) /\ s.kind = "load"
      \/ t = task("ptr", {defOf(Only(s.dst))}) /\ s.kind = "store"
      \/ t = task("through", {d}) /\ s.kind \in {"load", "store"}
  BY <1>1, <1>2, TasksOf
<1>4. CASE t = task("pts", directInto(d.loc)) /\ s.kind \in {"copy", "pass", "receive"}
  <2>1. of(S, d) = S.pts[lhs(d.loc)] BY <1>1, <1>4, OfTopLevel DEF isTopLevel
  <2>2. \A e \in directInto(d.loc) : of(S, e) \subseteq of(S, d) BY <1>1, <1>4, <2>1, DirectBound
  <2> QED BY <1>4, <2>2, FindWithin
<1>5. CASE t = task("pts", indirectInto(d.loc, d.cur)) /\ s.kind = "mssa"
  <2>1. d.cur \in Obj BY <1>1, <1>5 DEF Item, isTopLevel
  <2>2. of(S, d) = S.inPts[d.loc][d.cur] BY <1>5 DEF of, isTopLevel
  <2>3. \A e \in indirectInto(d.loc, d.cur) : of(S, e) \subseteq of(S, d) BY <1>1, <2>1, <2>2, IndirectBound
  <2> QED BY <1>5, <2>3, FindWithin
<1>6. CASE t = task("ptr", {defOf(Only(s.src))}) /\ s.kind = "load"
  <2>1. Only(s.src) \in Uses(s) /\ pointer(d.loc) = Only(s.src) BY <1>1, <1>2, <1>6, Operands DEF pointer
  <2>2. of(S, defOf(Only(s.src))) = S.pts[pointer(d.loc)] BY <1>1, <1>2, <2>1, OfDefinition
  <2> QED BY <1>6, <2>2, FindWithin
<1>7. CASE t = task("ptr", {defOf(Only(s.dst))}) /\ s.kind = "store"
  <2>1. Only(s.dst) \in Uses(s) /\ pointer(d.loc) = Only(s.dst) BY <1>1, <1>2, <1>7, Operands DEF pointer
  <2>2. of(S, defOf(Only(s.dst))) = S.pts[pointer(d.loc)] BY <1>1, <1>2, <2>1, OfDefinition
  <2> QED BY <1>7, <2>2, FindWithin
<1>8. CASE t = task("through", {d})
  <2>1. t.op = "through" BY <1>8 DEF task
  <2> QED BY <2>1 DEF TaskWithin
<1> QED BY <1>3, <1>4, <1>5, <1>6, <1>7, <1>8

LEMMA TasksForWithin ==
    ASSUME NEW S, Solution(S), top \in Frame, stmt(top.dpm.loc).kind \in {"load", "store"},
           NEW o \in top.ptr, top.ptr \subseteq S.pts[pointer(top.dpm.loc)], NEW t \in tasksIn(tasksFor(o))
    PROVE  TaskWithin(S, top, t)
<1> DEFINE d == top.dpm
           s == stmt(d.loc)
<1>1. d \in Item /\ d.loc \in Loc /\ o \in Obj /\ o \in S.pts[pointer(d.loc)] BY DEF Frame, Item
<1>2. Graph BY DEF Solution
<1>3. \/ t = task("pts", indirectInto(d.loc, o)) /\ s.kind = "load"
      \/ t = task("pts", {defOf(Only(s.src))}) /\ s.kind = "store" /\ o = d.cur
      \/ t = task("written", {o}) /\ s.kind = "store" /\ o = d.cur
      \/ t = task("pts", indirectInto(d.loc, d.cur)) /\ s.kind = "store" /\ o # d.cur
  BY <1>1, <1>2, TasksFor
<1>4. s.kind = "store" => /\ d.cur \in Obj /\ d.cur \notin prog.svfg.const
                          /\ of(S, d) = S.outPts[d.loc][d.cur]
  BY <1>1 DEF Item, isTopLevel, of
<1>5. CASE t = task("pts", indirectInto(d.loc, o)) /\ s.kind = "load"
  <2>1. of(S, d) = S.pts[lhs(d.loc)] BY <1>1, <1>5, OfTopLevel DEF isTopLevel
  <2>2. ASSUME NEW e \in indirectInto(d.loc, o) PROVE of(S, e) \subseteq of(S, d)
    <3>1. of(S, e) \subseteq S.inPts[d.loc][o] /\ o \notin prog.svfg.const BY <1>1, IndirectBound
    <3>2. S.inPts[d.loc][o] \subseteq S.pts[lhs(d.loc)] BY <3>1, <1>1, <1>5, LoadBound
    <3> QED BY <3>1, <3>2, <2>1
  <2> QED BY <1>5, <2>2, FindWithin
<1>6. CASE t = task("pts", {defOf(Only(s.src))}) /\ s.kind = "store" /\ o = d.cur
  <2>1. Only(s.src) \in Uses(s) BY <1>1, <1>2, <1>6, Operands
  <2>2. of(S, defOf(Only(s.src))) = S.pts[Only(s.src)] BY <1>1, <1>2, <2>1, OfDefinition
  <2>3. S.pts[Only(s.src)] \subseteq of(S, d) BY <1>1, <1>4, <1>6, StoreBound
  <2> QED BY <1>6, <2>2, <2>3, FindWithin
<1>7. CASE t = task("written", {o}) /\ s.kind = "store" /\ o = d.cur
  <2>1. t.op = "written" /\ t.set = {o} BY <1>7 DEF task
  <2> QED BY <2>1, <1>7 DEF TaskWithin
<1>8. CASE t = task("pts", indirectInto(d.loc, d.cur)) /\ s.kind = "store" /\ o # d.cur
  <2>1. S.pts[pointer(d.loc)] # {} /\ S.pts[pointer(d.loc)] # {d.cur} BY <1>1, <1>8
  <2>2. S.inPts[d.loc][d.cur] \subseteq of(S, d) BY <2>1, <1>1, <1>4, <1>8, StoreBound
  <2>3. \A e \in indirectInto(d.loc, d.cur) : of(S, e) \subseteq of(S, d)
    BY <2>2, <1>1, <1>4, <1>8, IndirectBound
  <2> QED BY <1>8, <2>3, FindWithin
<1> QED BY <1>3, <1>5, <1>6, <1>7, <1>8

-----------------------------------------------------------------------------
\* What a solution says does not change while the graph is analysed.
LEMMA SameSolution ==
    ASSUME prog' = prog, NEW S
    PROVE  /\ \A d : of(S, d)' = of(S, d)
           /\ \A l : pointer(l)' = pointer(l)
           /\ Called(S)' = Called(S)
<1>1. \A l : stmt(l)' = stmt(l) /\ isTopLevel(l)' = isTopLevel(l) BY SameProgram
<1>2. \A d : of(S, d)' = of(S, d) BY <1>1 DEF of
<1>3. \A l : pointer(l)' = pointer(l) BY <1>1 DEF pointer
<1> QED BY <1>2, <1>3 DEF Called

LEMMA SameWithin ==
    ASSUME prog' = prog, NEW S
    PROVE  /\ \A f, t : TaskWithin(S, f, t)' = TaskWithin(S, f, t)
           /\ \A f : FrameWithin(S, f)' = FrameWithin(S, f)
<1>1. ASSUME NEW f, NEW t PROVE TaskWithin(S, f, t)' = TaskWithin(S, f, t)
  <2>1. of(S, f.dpm)' = of(S, f.dpm) /\ pointer(f.dpm.loc)' = pointer(f.dpm.loc) BY SameSolution
  <2>2. \A d \in t.set : of(S, d)' = of(S, d) BY SameSolution
  <2> QED BY <2>1, <2>2 DEF TaskWithin
<1> QED BY <1>1, SameSolution DEF FrameWithin

LEMMA SolutionStays ==
    ASSUME Inv, Inv', NEW S, Solution(S), prog' = prog, connected' \subseteq Called(S)
    PROVE  Solution(S)'
<1>1. Graph' BY InvGraph DEF Inv, Data, Graph
<1>2. Closed(S, prog)'
  <2>1. Closed(S, prog) BY DEF Solution
  <2> QED BY <2>1
<1>3. connected' \subseteq Called(S)' BY SameSolution
<1> QED BY <1>1, <1>2, <1>3 DEF Solution

LEMMA CachedWithin ==
    ASSUME Data, NEW S, CachesWithin(S), NEW d \in Item
    PROVE  cached(d) \subseteq of(S, d)
<1>1. CASE isTopLevel(d.loc)
  <2>1. d.cur \in Var
    <3>1. d.loc \in Loc /\ d.cur = lhs(d.loc) BY <1>1 DEF Item
    <3> QED BY <3>1, <1>1, Definition DEF Data
  <2>2. pts[d.cur] \subseteq S.pts[d.cur] BY <2>1 DEF CachesWithin
  <2> QED BY <2>2, <1>1 DEF cached, of
<1>2. CASE ~isTopLevel(d.loc)
  <2>1. d.loc \in Loc /\ d.cur \in Obj BY <1>2 DEF Item
  <2>2. adPts[d.loc][d.cur] \subseteq of(S, item(d.cur, d.loc)) BY <2>1, <1>2 DEF CachesWithin
  <2>3. of(S, item(d.cur, d.loc)) = of(S, d)
    <3>1. item(d.cur, d.loc).cur = d.cur /\ item(d.cur, d.loc).loc = d.loc BY DEF item
    <3> QED BY <3>1 DEF of
  <2> QED BY <2>2, <2>3, <1>2 DEF cached
<1> QED BY <1>1, <1>2

\* An answer handed to a frame that asked for it.
LEMMA GivenWithin ==
    ASSUME NEW S, NEW f \in Frame, FrameWithin(S, f), NEW t, TaskWithin(S, f, t), NEW d \in t.set,
           NEW X \in SUBSET Obj, X \subseteq of(S, d)
    PROVE  /\ give(f, t.op, X).pts \subseteq of(S, f.dpm)
           /\ give(f, t.op, X).ptr \subseteq S.pts[pointer(f.dpm.loc)]
           /\ f.ptr \subseteq give(f, t.op, X).ptr
<1>1. /\ give(f, t.op, X).pts = (IF t.op = "pts" THEN f.pts \union X ELSE f.pts)
      /\ give(f, t.op, X).ptr = (IF t.op = "ptr" THEN f.ptr \union X ELSE f.ptr)
  BY GivesPts, GivesPtr
<1>2. f.pts \subseteq of(S, f.dpm) /\ f.ptr \subseteq S.pts[pointer(f.dpm.loc)] BY DEF FrameWithin
<1>3. /\ t.op = "pts" => of(S, d) \subseteq of(S, f.dpm)
      /\ t.op = "ptr" => of(S, d) \subseteq S.pts[pointer(f.dpm.loc)]
  BY DEF TaskWithin
<1>4. give(f, t.op, X).pts \subseteq of(S, f.dpm)
  <2>1. CASE t.op = "pts" BY <2>1, <1>1, <1>2, <1>3
  <2>2. CASE t.op # "pts" BY <2>2, <1>1, <1>2
  <2> QED BY <2>1, <2>2
<1>5. give(f, t.op, X).ptr \subseteq S.pts[pointer(f.dpm.loc)] /\ f.ptr \subseteq give(f, t.op, X).ptr
  <2>1. CASE t.op = "ptr" BY <2>1, <1>1, <1>2, <1>3
  <2>2. CASE t.op # "ptr" BY <2>2, <1>1, <1>2
  <2> QED BY <2>1, <2>2
<1> QED BY <1>4, <1>5

LEMMA RestWithin ==
    ASSUME NEW S, NEW f, NEW t \in Task, TaskWithin(S, f, t), NEW x, t.op # "written",
           NEW u \in tasksIn(ifAny(without(t, x)))
    PROVE  TaskWithin(S, f, u)
<1>1. u = without(t, x) /\ u.op = t.op /\ u.set \subseteq t.set BY LoopGoesOn
<1> QED BY <1>1 DEF TaskWithin

\* The tasks of a frame that has gathered more.
LEMMA MoreWithin ==
    ASSUME NEW S, NEW f, NEW g, g.dpm = f.dpm, f.ptr \subseteq g.ptr, NEW t, TaskWithin(S, f, t)
    PROVE  TaskWithin(S, g, t)
BY DEF TaskWithin

LEMMA GoOnWithin ==
    ASSUME Inv, NEW S, Within(S), prog' = prog, stack # <<>>, top.todo # <<>>,
           NEW f \in Frame, f.dpm = top.dpm, f.todo = top.todo, top.ptr \subseteq f.ptr,
           f.pts \subseteq of(S, f.dpm), f.ptr \subseteq S.pts[pointer(f.dpm.loc)],
           NEW ts \in Seq(Task), goOn(f, ts), \A t \in tasksIn(ts) : TaskWithin(S, f, t)
    PROVE  FramesWithin(S)'
<1>1. /\ Len(stack') = Len(stack) /\ top = stack[1] /\ Len(stack) \in Nat \ {0}
      /\ stack'[1].dpm = f.dpm /\ stack'[1].pts = f.pts /\ stack'[1].ptr = f.ptr
      /\ tasksIn(stack'[1].todo) \subseteq tasksIn(ts) \union tasksIn(top.todo)
      /\ \A i \in 2..Len(stack) : stack'[i] = stack[i]
  BY GoOnStack DEF Inv
<1>2. \A i \in 1..Len(stack) : FrameWithin(S, stack[i]) BY DEF Within, FramesWithin
<1>3. \A t \in tasksIn(top.todo) : TaskWithin(S, top, t)
  <2>1. FrameWithin(S, top) BY <1>1, <1>2
  <2> QED BY <2>1 DEF FrameWithin
<1>4. \A t \in tasksIn(top.todo) : TaskWithin(S, f, t) BY <1>3, MoreWithin
<1>5. FrameWithin(S, stack'[1])
  <2>1. ASSUME NEW t \in tasksIn(stack'[1].todo) PROVE TaskWithin(S, stack'[1], t)
    <3>1. TaskWithin(S, f, t) BY <1>1, <1>4
    <3> QED BY <3>1, <1>1, MoreWithin
  <2> QED BY <2>1, <1>1 DEF FrameWithin
<1>6. ASSUME NEW i \in 1..Len(stack) PROVE FrameWithin(S, stack'[i])
  BY <1>1, <1>2, <1>5
<1> QED BY <1>1, <1>6, SameWithin DEF FramesWithin

-----------------------------------------------------------------------------
\* The steps, one by one: first those that leave the caches alone.
LEMMA QuietWithin ==
    ASSUME Inv, Inv', NEW S, Within(S), UNCHANGED answerVars, FramesWithin(S)'
    PROVE  Within(S)'
<1>1. prog' = prog /\ connected' = connected /\ pts' = pts /\ adPts' = adPts BY DEF answerVars
<1>2. \A d : of(S, d)' = of(S, d) BY <1>1, SameSolution
<1>3. \A l : isTopLevel(l)' = isTopLevel(l) BY <1>1, SameProgram
<1>4. CachesWithin(S)' BY <1>1, <1>2, <1>3 DEF Within, CachesWithin
<1>5. Solution(S)'
  <2>1. Solution(S) /\ connected' \subseteq Called(S) BY <1>1 DEF Within, Solution
  <2> QED BY <2>1, <1>1, SolutionStays
<1> QED BY <1>4, <1>5 DEF Within

LEMMA QuietGoOnWithin ==
    ASSUME Inv, Inv', NEW S, Within(S), NEW op, busy(op), UNCHANGED answerVars,
           NEW f \in Frame, f.dpm = top.dpm, f.todo = top.todo, top.ptr \subseteq f.ptr,
           f.pts \subseteq of(S, f.dpm), f.ptr \subseteq S.pts[pointer(f.dpm.loc)],
           NEW ts \in Seq(Task), goOn(f, ts), \A t \in tasksIn(ts) : TaskWithin(S, f, t)
    PROVE  Within(S)'
<1>1. stack # <<>> /\ top.todo # <<>> BY TopFrame DEF Inv
<1>2. prog' = prog BY DEF answerVars
<1>3. FramesWithin(S)' BY <1>1, <1>2, GoOnWithin
<1> QED BY <1>3, QuietWithin

LEMMA TopWithin ==
    ASSUME Inv, NEW S, Within(S), NEW op, busy(op)
    PROVE  /\ top \in Frame /\ top.dpm \in Item /\ FrameWithin(S, top)
           /\ top.pts \subseteq of(S, top.dpm) /\ top.ptr \subseteq S.pts[pointer(top.dpm.loc)]
           /\ now \in Task /\ now.op = op /\ TaskWithin(S, top, now) /\ TaskKind(top.dpm.loc, now)
           /\ Solution(S)
<1>1. /\ top \in Frame /\ top.dpm \in Item /\ top = stack[1] /\ Len(stack) \in Nat \ {0}
      /\ now \in Task /\ now.op = op /\ now \in tasksIn(top.todo)
  BY TopFrame DEF Inv
<1>2. FrameWithin(S, top) /\ TaskKind(top.dpm.loc, now)
  <2>1. 1 \in 1..Len(stack) BY <1>1
  <2> QED BY <2>1, <1>1 DEF Within, FramesWithin, Inv, Kinds
<1> QED BY <1>1, <1>2 DEF FrameWithin, Within

LEMMA AnsweredWithin ==
    ASSUME Inv, Inv', NEW S, Within(S), NEW op \in Finds, busy(op), NEW d \in now.set, UNCHANGED answerVars,
           goOn(give(top, now.op, cached(d)), ifAny(without(now, d)))
    PROVE  Within(S)'
<1>1. /\ top \in Frame /\ FrameWithin(S, top) /\ now \in Task /\ now.op = op /\ TaskWithin(S, top, now)
  BY TopWithin
<1>2. d \in Item BY <1>1, TaskSets
<1>3. cached(d) \in SUBSET Obj /\ cached(d) \subseteq of(S, d)
  BY <1>2, CachedType, CachedWithin DEF Inv, Within
<1> DEFINE f == give(top, now.op, cached(d))
<1>4. f \in Frame /\ f.dpm = top.dpm /\ f.todo = top.todo BY <1>1, <1>3, Gives
<1>5. /\ f.pts \subseteq of(S, top.dpm) /\ f.ptr \subseteq S.pts[pointer(top.dpm.loc)] /\ top.ptr \subseteq f.ptr
  BY <1>1, <1>3, GivenWithin
<1>6. ifAny(without(now, d)) \in Seq(Task) BY <1>1, LoopGoesOn
<1>7. ASSUME NEW u \in tasksIn(ifAny(without(now, d))) PROVE TaskWithin(S, f, u)
  <2>1. now.op # "written" BY <1>1 DEF Finds
  <2>2. TaskWithin(S, top, u) BY <2>1, <1>1, RestWithin
  <2> QED BY <2>2, <1>4, <1>5, MoreWithin
<1> HIDE DEF f
<1>8. goOn(f, ifAny(without(now, d))) BY DEF f
<1> QED BY <1>4, <1>5, <1>6, <1>7, <1>8, QuietGoOnWithin

LEMMA FindCachedWithin ==
    ASSUME Inv, Inv', NEW S, Within(S), NEW op \in Finds, busy(op), NEW d \in now.set, FindCached(d)
    PROVE  Within(S)'
<1>1. UNCHANGED answerVars /\ goOn(give(top, now.op, cached(d)), ifAny(without(now, d))) BY DEF FindCached
<1> QED BY <1>1, AnsweredWithin

LEMMA FindNewWithin ==
    ASSUME Inv, Inv', NEW S, Within(S), NEW op \in Finds, busy(op), NEW d \in now.set, FindNew(d)
    PROVE  Within(S)'
<1>1. UNCHANGED answerVars /\ prog' = prog BY DEF FindNew, answerVars
<1>2. CASE overBudget \/ d \in outOfBudgetDpms
  <2>1. goOn(give(top, now.op, cached(d)), ifAny(without(now, d))) BY <1>2 DEF FindNew
  <2> QED BY <2>1, <1>1, AnsweredWithin
<1>3. CASE ~(overBudget \/ d \in outOfBudgetDpms)
  <2>1. stack' = <<newFrame(d)>> \o stack BY <1>3 DEF FindNew
  <2>2. d \in Item
    <3>1. now \in Task /\ now.op = op BY TopWithin
    <3> QED BY <3>1, TaskSets
  <2>3. /\ newFrame(d) \in Frame /\ newFrame(d).pts = {} /\ newFrame(d).ptr = {}
        /\ \A t \in tasksIn(newFrame(d).todo) : t.op \in {"ignore", "statement", "update"}
    BY <2>2, StatementTasks DEF Inv, Data
  <2>4. FrameWithin(S, newFrame(d)) BY <2>3 DEF FrameWithin, TaskWithin
  <2>5. stack \in Seq(Frame) BY DEF Inv, Stacked
  <2>6. /\ Len(stack') = Len(stack) + 1 /\ stack'[1] = newFrame(d) /\ Len(stack) \in Nat
        /\ \A i \in 1..Len(stack) : stack'[i + 1] = stack[i]
    BY <2>1, <2>3, <2>5, PushSeq
  <2>7. ASSUME NEW i \in 1..(Len(stack) + 1) PROVE FrameWithin(S, stack'[i])
    <3>1. CASE i = 1 BY <3>1, <2>4, <2>6
    <3>2. CASE i # 1
      <4>1. i - 1 \in 1..Len(stack) /\ (i - 1) + 1 = i BY <3>2, <2>6
      <4>2. stack'[i] = stack[i - 1] BY <4>1, <2>6
      <4> QED BY <4>1, <4>2 DEF Within, FramesWithin
    <3> QED BY <3>1, <3>2
  <2>8. FramesWithin(S)' BY <2>6, <2>7, <1>1, SameWithin DEF FramesWithin
  <2> QED BY <2>8, <1>1, QuietWithin
<1> QED BY <1>2, <1>3

LEMMA HandleStatementWithin == ASSUME Inv, Inv', NEW S, Within(S), HandleStatement PROVE Within(S)'
<1>1. busy("statement") /\ UNCHANGED answerVars BY DEF HandleStatement
<1>2. /\ top \in Frame /\ top.dpm \in Item /\ FrameWithin(S, top) /\ Solution(S)
      /\ top.pts \subseteq of(S, top.dpm) /\ top.ptr \subseteq S.pts[pointer(top.dpm.loc)]
  BY <1>1, TopWithin
<1> DEFINE f == IF stmt(top.dpm.loc).kind = "addr" THEN give(top, "pts", stmt(top.dpm.loc).obj) ELSE top
<1>3. /\ f \in Frame /\ f.dpm = top.dpm /\ f.todo = top.todo
      /\ f.pts \subseteq of(S, top.dpm) /\ f.ptr = top.ptr
  <2>1. CASE stmt(top.dpm.loc).kind = "addr"
    <3> DEFINE X == stmt(top.dpm.loc).obj
    <3>1. X \in SUBSET Obj BY <1>2, ProgramFacts DEF Item, Stmt, Inv, Data
    <3>2. X \subseteq of(S, top.dpm)
      <4>1. X \subseteq S.pts[lhs(top.dpm.loc)] BY <1>2, <2>1, AddrBound DEF Item
      <4>2. of(S, top.dpm) = S.pts[lhs(top.dpm.loc)] BY <1>2, <2>1, OfTopLevel DEF isTopLevel
      <4> QED BY <4>1, <4>2
    <3> HIDE DEF X
    <3>3. give(top, "pts", X) \in Frame /\ give(top, "pts", X).dpm = top.dpm /\ give(top, "pts", X).todo = top.todo
      BY <3>1, <1>2, Gives
    <3>4. give(top, "pts", X).pts = top.pts \union X BY <3>1, <1>2, GivesPts
    <3>5. give(top, "pts", X).ptr = top.ptr BY <3>1, <1>2, GivesPtr
    <3>6. f = give(top, "pts", X) BY <2>1 DEF X
    <3> QED BY <3>2, <3>3, <3>4, <3>5, <3>6, <1>2
  <2>2. CASE stmt(top.dpm.loc).kind # "addr" BY <2>2, <1>2
  <2> QED BY <2>1, <2>2
<1>4. goOn(f, tasksOf(top.dpm)) BY DEF HandleStatement
<1> HIDE DEF f
<1>5. tasksOf(top.dpm) \in Seq(Task) BY <1>2, TasksOf DEF Solution
<1>6. \A t \in tasksIn(tasksOf(top.dpm)) : TaskWithin(S, f, t) BY <1>2, <1>3, TasksOfWithin
<1> QED BY <1>1, <1>2, <1>3, <1>4, <1>5, <1>6, QuietGoOnWithin

\* A step in which the frame gathers nothing.
LEMMA NothingGathered ==
    ASSUME Inv, Inv', NEW S, Within(S), NEW op, busy(op), UNCHANGED answerVars,
           NEW ts \in Seq(Task), goOn(top, ts), \A t \in tasksIn(ts) : TaskWithin(S, top, t)
    PROVE  Within(S)'
<1>1. /\ top \in Frame /\ top.pts \subseteq of(S, top.dpm) /\ top.ptr \subseteq S.pts[pointer(top.dpm.loc)]
  BY TopWithin
<1> QED BY <1>1, QuietGoOnWithin

LEMMA ThroughPointerWithin == ASSUME Inv, Inv', NEW S, Within(S), ThroughPointer PROVE Within(S)'
<1>1. /\ busy("through") /\ UNCHANGED answerVars /\ goOn(top, ifAny(task("objects", top.ptr)))
  BY DEF ThroughPointer
<1>2. top.ptr \in SUBSET Obj BY <1>1, TopWithin DEF Frame
<1>3. task("objects", top.ptr) \in Task BY <1>2, TaskTypes
<1>4. TaskWithin(S, top, task("objects", top.ptr)) BY DEF TaskWithin, task
<1>5. /\ ifAny(task("objects", top.ptr)) \in Seq(Task)
      /\ tasksIn(ifAny(task("objects", top.ptr))) \subseteq {task("objects", top.ptr)}
  BY <1>3, OneTask
<1> QED BY <1>1, <1>4, <1>5, NothingGathered

LEMMA ThroughObjectWithin == ASSUME Inv, Inv', NEW S, Within(S), ThroughObject PROVE Within(S)'
<1>1. busy("objects") /\ UNCHANGED answerVars BY DEF ThroughObject
<1>2. PICK o \in now.set : goOn(top, tasksFor(o) \o ifAny(without(now, o))) BY DEF ThroughObject
<1>3. /\ top \in Frame /\ top.ptr \subseteq S.pts[pointer(top.dpm.loc)] /\ Solution(S)
      /\ now \in Task /\ now.op = "objects" /\ TaskWithin(S, top, now) /\ TaskKind(top.dpm.loc, now)
  BY <1>1, TopWithin
<1>4. o \in top.ptr /\ o \in Obj BY <1>3, TaskSets DEF TaskWithin
<1>5. stmt(top.dpm.loc).kind \in {"load", "store"} BY <1>3 DEF TaskKind
<1>6. tasksFor(o) \in Seq(Task) BY <1>3, <1>4, <1>5, TasksFor DEF Solution
<1>7. \A t \in tasksIn(tasksFor(o)) : TaskWithin(S, top, t) BY <1>3, <1>4, <1>5, TasksForWithin
<1>8. /\ ifAny(without(now, o)) \in Seq(Task)
      /\ \A t \in tasksIn(ifAny(without(now, o))) : TaskWithin(S, top, t)
  BY <1>3, LoopGoesOn, RestWithin
<1>9. /\ tasksFor(o) \o ifAny(without(now, o)) \in Seq(Task)
      /\ \A t \in tasksIn(tasksFor(o) \o ifAny(without(now, o))) : TaskWithin(S, top, t)
  BY <1>6, <1>7, <1>8, ConcatTasks
<1> QED BY <1>1, <1>2, <1>9, NothingGathered

\* A write taken for a strong one is one in every solution that has more.
LEMMA AfterWriteWithin == ASSUME Inv, Inv', NEW S, Within(S), AfterWrite PROVE Within(S)'
<1> DEFINE d == top.dpm
           I == indirectInto(d.loc, d.cur)
           ts == IF isStrongUpdate(top.ptr) THEN <<>> ELSE find("pts", I)
<1>1. busy("written") /\ UNCHANGED answerVars /\ goOn(top, ts) BY DEF AfterWrite
<1>2. /\ top \in Frame /\ d \in Item /\ top.ptr \subseteq S.pts[pointer(d.loc)] /\ Solution(S)
      /\ now.op = "written" /\ TaskWithin(S, top, now) /\ TaskKind(d.loc, now)
  BY <1>1, TopWithin
<1>3. stmt(d.loc).kind = "store" /\ d.cur \in top.ptr BY <1>2 DEF TaskKind, TaskWithin
<1>4. d.loc \in Loc /\ d.cur \in Obj /\ of(S, d) = S.outPts[d.loc][d.cur]
  BY <1>2, <1>3 DEF Item, isTopLevel, of
<1>5. ASSUME ~isStrongUpdate(top.ptr) PROVE \A e \in I : of(S, e) \subseteq of(S, d)
  <2>1. ~(S.pts[pointer(d.loc)] = {d.cur} /\ d.cur \notin prog.svfg.weak)
    <3>1. ASSUME S.pts[pointer(d.loc)] = {d.cur}, d.cur \notin prog.svfg.weak PROVE FALSE
      <4>1. top.ptr = {d.cur} BY <3>1, <1>2, <1>3
      <4> QED BY <4>1, <3>1, <1>5 DEF isStrongUpdate
    <3> QED BY <3>1
  <2>2. S.inPts[d.loc][d.cur] \subseteq of(S, d) BY <2>1, <1>2, <1>3, <1>4, StoreBound
  <2> QED BY <2>2, <1>2, <1>4, IndirectBound
<1>6. I \in SUBSET Item BY <1>2, <1>4, IndirectItems DEF Solution
<1> HIDE DEF I
<1>7. ts \in Seq(Task) /\ \A t \in tasksIn(ts) : TaskWithin(S, top, t)
  <2>1. CASE isStrongUpdate(top.ptr)
    <3>1. <<>> \in Seq(Task) /\ Len(<<>>) = 0 OBVIOUS
    <3> QED BY <3>1, <2>1 DEF tasksIn
  <2>2. CASE ~isStrongUpdate(top.ptr)
    <3>1. TaskWithin(S, top, task("pts", I)) BY <2>2, <1>5, FindWithin
    <3>2. "pts" \in Finds BY DEF Finds
    <3>3. find("pts", I) \in Seq(Task) /\ tasksIn(find("pts", I)) \subseteq {task("pts", I)}
      BY <3>2, <1>6, FindTasks
    <3> QED BY <2>2, <3>1, <3>3
  <2> QED BY <2>1, <2>2
<1> HIDE DEF ts
<1> QED BY <1>1, <1>7, NothingGathered

LEMMA AffectedWithin == ASSUME Inv, Inv', NEW S, Within(S), Affected PROVE Within(S)'
<1> DEFINE t == task("edges", affected(top.dpm))
<1>1. busy("affected") /\ UNCHANGED answerVars /\ goOn(top, ifAny(t)) BY DEF Affected
<1>2. t \in Task
  <2>1. top.dpm.cur \in Var \union Obj BY <1>1, TopWithin DEF Item
  <2>2. affected(top.dpm) \in SUBSET Revision
    <3>1. /\ \A e \in passes : e[2] \in Loc
          /\ \A f \in flows : f.to \in Loc
      BY DEF Inv, Data, Flow
    <3> QED BY <3>1, <2>1 DEF affected, revise, Revision
  <2> QED BY <2>2, TaskTypes
<1>3. TaskWithin(S, top, t) BY DEF TaskWithin, task
<1> HIDE DEF t
<1>4. ifAny(t) \in Seq(Task) /\ tasksIn(ifAny(t)) \subseteq {t} BY <1>2, OneTask
<1> QED BY <1>1, <1>3, <1>4, NothingGathered

LEMMA ReComputeForEdgeWithin == ASSUME Inv, Inv', NEW S, Within(S), ReComputeForEdge PROVE Within(S)'
<1>1. busy("edges") /\ UNCHANGED answerVars BY DEF ReComputeForEdge
<1>2. PICK e \in now.set :
        goOn(top, find("redo", {d \in dpmsAt : d.loc = e.loc /\ d.cur \in e.of}) \o ifAny(without(now, e)))
  BY DEF ReComputeForEdge
<1>3. now \in Task /\ now.op = "edges" /\ TaskWithin(S, top, now) BY <1>1, TopWithin
<1> DEFINE D == {d \in dpmsAt : d.loc = e.loc /\ d.cur \in e.of}
<1>4. D \in SUBSET Item /\ "redo" \in Finds BY DEF Inv, Data, Finds
<1> HIDE DEF D
<1>5. TaskWithin(S, top, task("redo", D)) BY DEF TaskWithin, task
<1>6. find("redo", D) \in Seq(Task) /\ \A t \in tasksIn(find("redo", D)) : TaskWithin(S, top, t)
  BY <1>4, <1>5, FindTasks
<1>7. /\ ifAny(without(now, e)) \in Seq(Task)
      /\ \A t \in tasksIn(ifAny(without(now, e))) : TaskWithin(S, top, t)
  BY <1>3, LoopGoesOn, RestWithin
<1> DEFINE ts == find("redo", D) \o ifAny(without(now, e))
<1>8. ts \in Seq(Task) /\ \A t \in tasksIn(ts) : TaskWithin(S, top, t) BY <1>6, <1>7, ConcatTasks
<1>9. goOn(top, ts) BY <1>2 DEF D
<1> HIDE DEF ts
<1> QED BY <1>1, <1>8, <1>9, NothingGathered

LEMMA ReturnWithin == ASSUME Inv, Inv', NEW S, Within(S), Return PROVE Within(S)'
<1> DEFINE below == stack[2]
           t == Head(below.todo)
           g == [give(below, t.op, cached(top.dpm)) EXCEPT !.todo = ifAny(without(t, top.dpm)) \o Tail(@)]
<1>1. /\ Len(stack) \in Nat /\ Len(stack) > 1 /\ top = stack[1] /\ top \in Frame /\ below \in Frame
      /\ Len(stack') = Len(stack) - 1 /\ stack'[1] = g
      /\ \A i \in 2..(Len(stack) - 1) : stack'[i] = stack[i + 1]
      /\ t \in Waiting /\ t \in Task /\ t \in tasksIn(below.todo) /\ below.todo # <<>>
      /\ top.dpm \in t.set
      /\ g \in Frame /\ g.dpm = below.dpm
      /\ g.pts = give(below, t.op, cached(top.dpm)).pts
      /\ g.ptr = give(below, t.op, cached(top.dpm)).ptr
      /\ g.todo = ifAny(without(t, top.dpm)) \o Tail(below.todo)
      /\ cached(top.dpm) \in SUBSET Obj
  BY Returned
<1> HIDE DEF g
<1>2. UNCHANGED answerVars /\ prog' = prog BY DEF Return, answerVars
<1>3. FrameWithin(S, below) /\ TaskWithin(S, below, t)
  <2>1. 2 \in 1..Len(stack) BY <1>1
  <2>2. FrameWithin(S, below) BY <2>1 DEF Within, FramesWithin
  <2> QED BY <2>2, <1>1 DEF FrameWithin
<1>4. cached(top.dpm) \subseteq of(S, top.dpm)
  <2>1. top.dpm \in Item BY <1>1 DEF Frame
  <2> QED BY <2>1, CachedWithin DEF Inv, Within
<1>5. /\ g.pts \subseteq of(S, below.dpm) /\ g.ptr \subseteq S.pts[pointer(below.dpm.loc)]
      /\ below.ptr \subseteq g.ptr
  <2>1. /\ give(below, t.op, cached(top.dpm)).pts \subseteq of(S, below.dpm)
        /\ give(below, t.op, cached(top.dpm)).ptr \subseteq S.pts[pointer(below.dpm.loc)]
        /\ below.ptr \subseteq give(below, t.op, cached(top.dpm)).ptr
    <3> DEFINE X == cached(top.dpm)
               d == top.dpm
    <3>1. below \in Frame /\ d \in t.set /\ X \in SUBSET Obj /\ X \subseteq of(S, d) BY <1>1, <1>4
    <3> HIDE DEF below, t, X, d
    <3>2. /\ give(below, t.op, X).pts \subseteq of(S, below.dpm)
          /\ give(below, t.op, X).ptr \subseteq S.pts[pointer(below.dpm.loc)]
          /\ below.ptr \subseteq give(below, t.op, X).ptr
      BY <3>1, <1>3, GivenWithin
    <3> QED BY <3>2 DEF X
  <2> HIDE DEF below, t
  <2> QED BY <2>1, <1>1
<1>6. \A u \in tasksIn(g.todo) : TaskWithin(S, g, u)
  <2>1. below.todo \in Seq(Task) BY <1>1 DEF Frame
  <2>2. Tail(below.todo) \in Seq(Task) /\ tasksIn(Tail(below.todo)) \subseteq tasksIn(below.todo)
    BY <2>1, <1>1, TailTasks
  <2> DEFINE F == ifAny(without(t, top.dpm))
  <2>3. t.op # "written" BY <1>1 DEF Waiting, Finds
  <2>4. F \in Seq(Task) /\ \A u \in tasksIn(F) : TaskWithin(S, below, u)
    BY <2>3, <1>1, <1>3, LoopGoesOn, RestWithin
  <2>5. \A u \in tasksIn(Tail(below.todo)) : TaskWithin(S, below, u) BY <2>2, <1>3 DEF FrameWithin
  <2>6. g.todo = F \o Tail(below.todo) BY <1>1
  <2> HIDE DEF F, t, below
  <2>7. tasksIn(F \o Tail(below.todo)) \subseteq tasksIn(F) \union tasksIn(Tail(below.todo))
    BY <2>2, <2>4, ConcatTasks
  <2>8. \A u \in tasksIn(g.todo) : TaskWithin(S, below, u) BY <2>4, <2>5, <2>6, <2>7
  <2> QED BY <2>8, <1>1, <1>5, MoreWithin
<1>7. FrameWithin(S, g) BY <1>1, <1>5, <1>6 DEF FrameWithin
<1>8. ASSUME NEW i \in 1..(Len(stack) - 1) PROVE FrameWithin(S, stack'[i])
  <2>1. CASE i = 1 BY <2>1, <1>1, <1>7
  <2>2. CASE i # 1
    <3>1. stack'[i] = stack[i + 1] /\ i + 1 \in 1..Len(stack) BY <2>2, <1>1
    <3> QED BY <3>1 DEF Within, FramesWithin
  <2> QED BY <2>1, <2>2
<1>9. FramesWithin(S)' BY <1>1, <1>2, <1>8, SameWithin DEF FramesWithin
<1> QED BY <1>2, <1>9, QuietWithin

-----------------------------------------------------------------------------
\* The steps that change a cache, and those that begin and end a query.
LEMMA NewCallsWithin ==
    ASSUME Data, NEW S, NEW d \in Item, NEW T, T \subseteq of(S, d)
    PROVE  newCalls(d.cur, T) \subseteq Called(S)
<1>1. ASSUME NEW c \in newCalls(d.cur, T) PROVE c \in Called(S)
  <2>1. c \in prog.svfg.calls /\ c.fp = d.cur /\ c.fun \in T BY DEF newCalls
  <2>2. c.fp \in Var
    <3>1. prog.svfg \in Program BY ProgramFacts DEF Data
    <3>2. prog.svfg.calls \subseteq Call BY <3>1 DEF Program
    <3> QED BY <2>1, <3>2 DEF Call
  <2>3. isTopLevel(d.loc)
    <3>1. ~isTopLevel(d.loc) => d.cur \in Obj BY DEF Item
    <3>2. Var \intersect Obj = {} BY DDAAssumption
    <3> QED BY <3>1, <3>2, <2>1, <2>2
  <2>4. of(S, d) = S.pts[d.cur] BY <2>3 DEF of
  <2> QED BY <2>1, <2>4 DEF Called
<1> QED BY <1>1

LEMMA UpdateCacheWithin == ASSUME Inv, Inv', NEW S, Within(S), UpdateCache PROVE Within(S)'
<1> DEFINE d == top.dpm
           grown == ~(top.pts \subseteq cached(d))
           C == IF grown THEN newCalls(d.cur, cached(d) \union top.pts) ELSE {}
           R == {revise(l, Var \union Obj) : l \in heads(C)}
           ts == IF grown THEN ifAny(task("edges", R)) \o <<task("affected", {d})>> ELSE <<>>
<1>1. /\ busy("update") /\ Cache(d, top.pts) /\ Connect(C) /\ goOn(top, ts) /\ prog' = prog
  BY DEF UpdateCache
<1>2. /\ top \in Frame /\ d \in Item /\ top.pts \subseteq of(S, d) /\ top.ptr \subseteq S.pts[pointer(d.loc)]
      /\ Solution(S)
  BY <1>1, TopWithin
<1>3. stack # <<>> /\ top.todo # <<>> BY <1>1, TopFrame DEF Inv
<1>4. C \subseteq Called(S) /\ C \in SUBSET prog.svfg.calls
  <2>1. cached(d) \subseteq of(S, d) BY <1>2, CachedWithin DEF Inv, Within
  <2>2. newCalls(d.cur, cached(d) \union top.pts) \subseteq Called(S) BY <2>1, <1>2, NewCallsWithin DEF Inv
  <2> QED BY <2>2 DEF newCalls
<1> HIDE DEF C
<1>5. Solution(S)'
  <2>1. connected' = connected \union C BY <1>1 DEF Connect
  <2>2. connected' \subseteq Called(S) BY <2>1, <1>2, <1>4 DEF Solution
  <2> QED BY <2>2, <1>1, <1>2, SolutionStays
<1>6. CachesWithin(S)'
  <2>1. /\ \A e : of(S, e)' = of(S, e)
        /\ \A l : isTopLevel(l)' = isTopLevel(l)
    BY <1>1, SameSolution, SameProgram
  <2>2. /\ \A v \in Var : pts[v] \subseteq S.pts[v]
        /\ \A l \in Loc : \A o \in Obj : ~isTopLevel(l) => adPts[l][o] \subseteq of(S, item(o, l))
    BY DEF Within, CachesWithin
  <2>3. pts \in [Var -> SUBSET Obj] /\ adPts \in [Loc -> [Obj -> SUBSET Obj]] BY DEF Inv, Data
  <2>4. CASE isTopLevel(d.loc)
    <3>1. pts' = [pts EXCEPT ![d.cur] = @ \union top.pts] /\ adPts' = adPts BY <2>4, <1>1 DEF Cache
    <3>2. of(S, d) = S.pts[d.cur] BY <2>4 DEF of
    <3>3. ASSUME NEW v \in Var PROVE pts'[v] \subseteq S.pts[v]
      <4>1. CASE v = d.cur
        <5>1. pts'[v] = pts[v] \union top.pts BY <4>1, <3>1, <2>3
        <5> QED BY <5>1, <4>1, <3>2, <2>2, <1>2
      <4>2. CASE v # d.cur BY <4>2, <3>1, <2>2, <2>3
      <4> QED BY <4>1, <4>2
    <3> QED BY <3>1, <3>3, <2>1, <2>2 DEF CachesWithin
  <2>5. CASE ~isTopLevel(d.loc)
    <3>1. adPts' = [adPts EXCEPT ![d.loc][d.cur] = @ \union top.pts] /\ pts' = pts BY <2>5, <1>1 DEF Cache
    <3>2. d.loc \in Loc /\ d.cur \in Obj BY <2>5, <1>2 DEF Item
    <3>3. of(S, item(d.cur, d.loc)) = of(S, d)
      <4>1. item(d.cur, d.loc).cur = d.cur /\ item(d.cur, d.loc).loc = d.loc BY DEF item
      <4> QED BY <4>1 DEF of
    <3>4. ASSUME NEW l \in Loc, NEW o \in Obj, ~isTopLevel(l) PROVE adPts'[l][o] \subseteq of(S, item(o, l))
      <4>1. CASE l = d.loc /\ o = d.cur
        <5>1. adPts'[l][o] = adPts[l][o] \union top.pts BY <4>1, <3>1, <3>2, <2>3
        <5>2. adPts[l][o] \subseteq of(S, item(o, l)) BY <3>4, <2>2
        <5>3. of(S, item(o, l)) = of(S, d) BY <4>1, <3>3
        <5> QED BY <5>1, <5>2, <5>3, <1>2
      <4>2. CASE ~(l = d.loc /\ o = d.cur)
        <5>1. adPts'[l][o] = adPts[l][o] BY <4>2, <3>1, <3>2, <2>3
        <5> QED BY <5>1, <3>4, <2>2
      <4> QED BY <4>1, <4>2
    <3> QED BY <3>1, <3>4, <2>1, <2>2 DEF CachesWithin
  <2> QED BY <2>4, <2>5
<1>7. ts \in Seq(Task) /\ \A t \in tasksIn(ts) : t.op \in {"edges", "affected"}
  <2>1. R \in SUBSET Revision BY <1>4, Heads DEF Inv, revise, Revision
  <2> HIDE DEF R
  <2>2. task("edges", R) \in Task /\ task("affected", {d}) \in Task BY <2>1, <1>2, TaskTypes
  <2>3. task("edges", R).op = "edges" /\ task("affected", {d}).op = "affected" BY DEF task
  <2> DEFINE F == ifAny(task("edges", R))
             G == <<task("affected", {d})>>
  <2>4. F \in Seq(Task) /\ tasksIn(F) \subseteq {task("edges", R)} BY <2>2, OneTask
  <2>5. G \in Seq(Task) /\ tasksIn(G) = {task("affected", {d})} BY <2>2, OneTask
  <2>6. ts = IF grown THEN F \o G ELSE <<>> OBVIOUS
  <2>7. <<>> \in Seq(Task) /\ Len(<<>>) = 0 OBVIOUS
  <2>8. tasksIn(<<>>) = {} BY <2>7 DEF tasksIn
  <2> HIDE DEF F, G
  <2>9. F \o G \in Seq(Task) /\ tasksIn(F \o G) \subseteq tasksIn(F) \union tasksIn(G) BY <2>4, <2>5, ConcatTasks
  <2>10. \A t \in tasksIn(F \o G) : t.op \in {"edges", "affected"} BY <2>3, <2>4, <2>5, <2>9
  <2> QED BY <2>6, <2>7, <2>8, <2>9, <2>10
<1> HIDE DEF ts
<1>8. \A t \in tasksIn(ts) : TaskWithin(S, top, t) BY <1>7 DEF TaskWithin
<1>9. FramesWithin(S)' BY <1>1, <1>2, <1>3, <1>7, <1>8, GoOnWithin
<1> QED BY <1>5, <1>6, <1>9 DEF Within

LEMMA QueryWithin ==
    ASSUME Inv, Inv', NEW S, Within(S), NEW v \in prog.candidates, Query(v)
    PROVE  Within(S)'
<1> DEFINE u == task("ignore", {defOf(v)})
           g == [dpm |-> defOf(v), pts |-> {}, ptr |-> {}, todo |-> find("ignore", {defOf(v)})]
<1>1. UNCHANGED answerVars /\ prog' = prog /\ stack' = <<g>> BY DEF Query, answerVars
<1>2. u \in Task
  <2>1. defOf(v) \in Item BY DefinitionOf DEF Inv, Data
  <2> QED BY <2>1, TaskTypes DEF Finds
<1>3. u.op = "ignore" BY DEF task
<1>4. g.pts = {} /\ g.ptr = {} /\ g.todo = ifAny(u) BY DEF find
<1> HIDE DEF u, g
<1>5. \A t \in tasksIn(g.todo) : TaskWithin(S, g, t)
  <2>1. tasksIn(g.todo) \subseteq {u} BY <1>2, <1>4, OneTask
  <2> QED BY <2>1, <1>3 DEF TaskWithin
<1>6. FrameWithin(S, g) BY <1>4, <1>5 DEF FrameWithin
<1>7. Len(stack') = 1 /\ stack'[1] = g BY <1>1
<1>8. \A i \in 1..Len(stack') : FrameWithin(S, stack'[i]) BY <1>6, <1>7
<1>9. FramesWithin(S)' BY <1>1, <1>8, SameWithin DEF FramesWithin
<1> QED BY <1>1, <1>9, QuietWithin

LEMMA AnswerWithin ==
    ASSUME Inv, Inv', NEW S, Within(S), Answer, outOfBudgetQuery => S.pts = prog.ander
    PROVE  Within(S)'
<1> DEFINE d == top.dpm
           T == IF outOfBudgetQuery THEN prog.ander[d.cur] ELSE {}
           C == IF T \subseteq pts[d.cur] THEN {} ELSE newCalls(d.cur, pts[d.cur] \union T)
<1>1. /\ Len(stack) = 1 /\ top.todo = <<>> /\ stack' = <<>>
      /\ pts' = [pts EXCEPT ![d.cur] = @ \union T] /\ Connect(C)
      /\ prog' = prog /\ adPts' = adPts
  BY DEF Answer
<1>2. stack \in Seq(Frame) /\ stack # <<>>
  <2>1. stack \in Seq(Frame) BY DEF Inv, Stacked
  <2>2. Len(<<>>) = 0 OBVIOUS
  <2>3. stack # <<>> BY <2>2, <1>1
  <2> QED BY <2>1, <2>3
<1>3. top = stack[1] /\ d \in Item
  <2>1. top = stack[1] /\ top \in Frame BY <1>2, PopSeq DEF top
  <2> QED BY <2>1 DEF Frame
<1>4. isTopLevel(d.loc)
  <2>1. stack[Len(stack)] = top BY <1>1, <1>3
  <2> QED BY <2>1, <1>2 DEF Inv, Stacked, Asked
<1>5. d.cur \in Var /\ of(S, d) = S.pts[d.cur]
  <2>1. d.loc \in Loc /\ d.cur = lhs(d.loc) BY <1>3, <1>4 DEF Item
  <2>2. lhs(d.loc) \in Var BY <2>1, <1>4, Definition DEF Inv, Data
  <2> QED BY <2>1, <2>2, <1>4 DEF of
<1>6. T \subseteq S.pts[d.cur]
  <2>1. CASE outOfBudgetQuery BY <2>1
  <2>2. CASE ~outOfBudgetQuery BY <2>2
  <2> QED BY <2>1, <2>2
<1>7. pts[d.cur] \subseteq S.pts[d.cur] BY <1>5 DEF Within, CachesWithin
<1>8. C \subseteq Called(S)
  <2> DEFINE X == pts[d.cur] \union T
  <2>1. X \subseteq of(S, d) BY <1>5, <1>6, <1>7
  <2> HIDE DEF X
  <2>2. newCalls(d.cur, X) \subseteq Called(S) BY <2>1, <1>3, NewCallsWithin DEF Inv
  <2>3. newCalls(d.cur, pts[d.cur] \union T) \subseteq Called(S) BY <2>2 DEF X
  <2> QED BY <2>3
<1> HIDE DEF C, T
<1>9. Solution(S)'
  <2>1. connected' = connected \union C BY <1>1 DEF Connect
  <2>2. Solution(S) BY DEF Within
  <2>3. connected' \subseteq Called(S) BY <2>1, <2>2, <1>8 DEF Solution
  <2> QED BY <2>2, <2>3, <1>1, SolutionStays
<1>10. CachesWithin(S)'
  <2>1. /\ \A e : of(S, e)' = of(S, e)
        /\ \A l : isTopLevel(l)' = isTopLevel(l)
    BY <1>1, SameSolution, SameProgram
  <2>2. /\ \A v \in Var : pts[v] \subseteq S.pts[v]
        /\ \A l \in Loc : \A o \in Obj : ~isTopLevel(l) => adPts[l][o] \subseteq of(S, item(o, l))
    BY DEF Within, CachesWithin
  <2>3. pts \in [Var -> SUBSET Obj] BY DEF Inv, Data
  <2>4. ASSUME NEW v \in Var PROVE pts'[v] \subseteq S.pts[v]
    <3>1. CASE v = d.cur
      <4>1. pts'[v] = pts[v] \union T BY <3>1, <1>1, <2>3
      <4> QED BY <4>1, <3>1, <1>6, <1>7
    <3>2. CASE v # d.cur BY <3>2, <1>1, <2>2, <2>3
    <3> QED BY <3>1, <3>2
  <2> QED BY <2>1, <2>2, <2>4, <1>1 DEF CachesWithin
<1>11. FramesWithin(S)'
  <2>1. Len(stack') = 0 BY <1>1
  <2> QED BY <2>1 DEF FramesWithin
<1> QED BY <1>9, <1>10, <1>11 DEF Within

LEMMA StepWithin ==
    ASSUME Inv, Inv', NEW S, Within(S), [Next]_vars, outOfBudgetQuery => S.pts = prog.ander
    PROVE  Within(S)'
<1>1. CASE findPT
  <2>1. PICK op \in Finds : busy(op) /\ \E d \in now.set : FindCached(d) \/ FindNew(d) BY <1>1 DEF findPT
  <2> QED BY <2>1, FindCachedWithin, FindNewWithin
<1>2. CASE HandleStatement BY <1>2, HandleStatementWithin
<1>3. CASE ThroughPointer BY <1>3, ThroughPointerWithin
<1>4. CASE ThroughObject BY <1>4, ThroughObjectWithin
<1>5. CASE AfterWrite BY <1>5, AfterWriteWithin
<1>6. CASE UpdateCache BY <1>6, UpdateCacheWithin
<1>7. CASE Affected BY <1>7, AffectedWithin
<1>8. CASE ReComputeForEdge BY <1>8, ReComputeForEdgeWithin
<1>9. CASE Return BY <1>9, ReturnWithin
<1>10. CASE Answer BY <1>10, AnswerWithin
<1>11. CASE \E v \in prog.candidates : Query(v) BY <1>11, QueryWithin
<1>12. CASE UNCHANGED vars
  <2>1. UNCHANGED answerVars /\ prog' = prog /\ stack' = stack BY <1>12 DEF vars, answerVars
  <2>2. \A i \in 1..Len(stack') : FrameWithin(S, stack'[i]) BY <2>1 DEF Within, FramesWithin
  <2>3. FramesWithin(S)' BY <2>1, <2>2, SameWithin DEF FramesWithin
  <2> QED BY <2>1, <2>3, QuietWithin
<1> QED BY <1>1, <1>2, <1>3, <1>4, <1>5, <1>6, <1>7, <1>8, <1>9, <1>10, <1>11, <1>12 DEF Next, Work

LEMMA WithinAtFirst == ASSUME Init, Inv, NEW S, Closed(S, prog) PROVE Within(S)
<1>1. /\ connected = {} /\ stack = <<>>
      /\ pts = [v \in Var |-> {}] /\ adPts = [l \in Loc |-> [o \in Obj |-> {}]]
  BY DEF Init
<1>2. CachesWithin(S) BY <1>1 DEF CachesWithin
<1>3. Solution(S) BY <1>1, InvGraph DEF Solution
<1>4. FramesWithin(S)
  <2>1. Len(stack) = 0 BY <1>1
  <2> QED BY <2>1 DEF FramesWithin
<1> QED BY <1>2, <1>3, <1>4 DEF Within

LEMMA SameGraph == ASSUME [Next]_vars PROVE prog' = prog /\ whole' = whole
<1>1. CASE findPT BY <1>1 DEF findPT, FindCached, FindNew, answerVars
<1>2. CASE UNCHANGED answerVars BY <1>2 DEF answerVars
<1>3. CASE HandleStatement BY <1>2, <1>3 DEF HandleStatement
<1>4. CASE ThroughPointer BY <1>2, <1>4 DEF ThroughPointer
<1>5. CASE ThroughObject BY <1>2, <1>5 DEF ThroughObject
<1>6. CASE AfterWrite BY <1>2, <1>6 DEF AfterWrite
<1>7. CASE UpdateCache BY <1>7 DEF UpdateCache
<1>8. CASE Affected BY <1>2, <1>8 DEF Affected
<1>9. CASE ReComputeForEdge BY <1>2, <1>9 DEF ReComputeForEdge
<1>10. CASE Return BY <1>2, <1>10 DEF Return
<1>11. CASE Answer BY <1>11 DEF Answer
<1>12. CASE \E v \in prog.candidates : Query(v) BY <1>2, <1>12 DEF Query
<1>13. CASE UNCHANGED vars BY <1>2, <1>13 DEF vars
<1> QED BY <1>1, <1>3, <1>4, <1>5, <1>6, <1>7, <1>8, <1>9, <1>10, <1>11, <1>12, <1>13 DEF Next, Work

\* A query that has been given up stays so, or leaves its item behind.
LEMMA BudgetStaysSpent == ASSUME Inv, [Next]_vars PROVE inBudget' => inBudget
<1>1. CASE findPT
  <2>1. PICK op \in Finds : busy(op) /\ \E d \in now.set : FindCached(d) \/ FindNew(d) BY <1>1 DEF findPT
  <2>2. PICK d \in now.set : FindCached(d) \/ FindNew(d) BY <2>1
  <2>3. CASE FindCached(d) BY <2>3 DEF FindCached, askedVars, inBudget
  <2>4. CASE FindNew(d) BY <2>4 DEF FindNew, overBudget, inBudget
  <2> QED BY <2>2, <2>3, <2>4
<1>2. CASE \E v \in prog.candidates : Query(v)
  <2>1. PICK v : Query(v) BY <1>2
  <2>2. stack = <<>> /\ outOfBudgetDpms' = outOfBudgetDpms BY <2>1 DEF Query
  <2>3. outOfBudgetQuery => outOfBudgetDpms # {} BY <2>2 DEF Inv, GivenUp
  <2> QED BY <2>2, <2>3 DEF inBudget
<1>3. CASE Answer BY <1>3 DEF Answer, inBudget
<1>4. CASE UNCHANGED askedVars BY <1>4 DEF askedVars, inBudget
<1>5. CASE HandleStatement BY <1>4, <1>5 DEF HandleStatement
<1>6. CASE ThroughPointer BY <1>4, <1>6 DEF ThroughPointer
<1>7. CASE ThroughObject BY <1>4, <1>7 DEF ThroughObject
<1>8. CASE AfterWrite BY <1>4, <1>8 DEF AfterWrite
<1>9. CASE UpdateCache BY <1>4, <1>9 DEF UpdateCache
<1>10. CASE Affected BY <1>4, <1>10 DEF Affected
<1>11. CASE ReComputeForEdge BY <1>4, <1>11 DEF ReComputeForEdge
<1>12. CASE Return BY <1>4, <1>12 DEF Return
<1>13. CASE UNCHANGED vars BY <1>4, <1>13 DEF vars
<1> QED BY <1>1, <1>2, <1>3, <1>5, <1>6, <1>7, <1>8, <1>9, <1>10, <1>11, <1>12, <1>13 DEF Next, Work

-----------------------------------------------------------------------------
(* What the whole-program analysis computes is a solution.  The equations   *)
(* map solutions to solutions and are monotone in the solution and in the   *)
(* calls that are connected.                                                *)
Sets == [Loc -> [Obj -> SUBSET Obj]]
Solutions == [pts : [Var -> SUBSET Obj], inPts : Sets, outPts : Sets]
Eqs(p, C, S) == FS(p, C)!Equations(S)
Leq(S, T) ==
    /\ \A v \in Var : S.pts[v] \subseteq T.pts[v]
    /\ \A l \in Loc : \A o \in Obj : /\ S.inPts[l][o] \subseteq T.inPts[l][o]
                                     /\ S.outPts[l][o] \subseteq T.outPts[l][o]
PtsIn(S, V) == UNION {S.pts[v] : v \in V}

LEMMA DefinedByOthers ==
    ASSUME NEW p, NEW C, NEW S, NEW l, p.svfg.stmt[l].kind \notin {"addr", "copy", "load", "receive"}
    PROVE  FS(p, C)!Defined(S, l) = {}
<1>1. /\ p.svfg.stmt[l].kind # "addr" /\ p.svfg.stmt[l].kind # "copy"
      /\ p.svfg.stmt[l].kind # "load" /\ p.svfg.stmt[l].kind # "receive"
  OBVIOUS
<1> QED BY <1>1, Zenon DEF FS!Defined, FS!stmt

LEMMA WrittenIs ==
    ASSUME NEW p, NEW C, NEW S, NEW l, NEW o
    PROVE  LET P == PtsIn(S, p.svfg.stmt[l].dst)
           IN  FS(p, C)!Written(S, l, o) =
                 IF p.svfg.stmt[l].kind # "store" \/ P = {} THEN {}
                 ELSE (IF o \in P \ p.svfg.const THEN PtsIn(S, p.svfg.stmt[l].src) ELSE {})
                      \union (IF P = {o} /\ o \notin p.svfg.weak THEN {} ELSE S.inPts[l][o])
BY Zenon DEF FS!Written, FS!stmt, FS!AnyPts, PtsIn

LEMMA EqsAre ==
    ASSUME NEW p, NEW C, NEW S
    PROVE  Eqs(p, C, S) =
             [pts |-> [v \in Var |-> UNION {FS(p, C)!Defined(S, l) : l \in {k \in Loc : v \in Defs(p.svfg.stmt[k])}}],
              inPts |-> [l \in Loc |-> [o \in Obj |->
                           UNION {FS(p, C)!Carried(S, f) : f \in {g \in flowsOf(p, C) : g.to = l /\ g.obj = o}}]],
              outPts |-> [l \in Loc |-> [o \in Obj |-> FS(p, C)!Written(S, l, o)]]]
BY Zenon DEF Eqs, FS!Equations, FS!stmt, flowsOf, FS!Defs, Defs

LEMMA EqsSets ==
    ASSUME NEW p, NEW C, NEW S
    PROVE  /\ \A v \in Var : Eqs(p, C, S).pts[v]
                = UNION {FS(p, C)!Defined(S, l) : l \in {k \in Loc : v \in Defs(p.svfg.stmt[k])}}
           /\ \A l \in Loc : \A o \in Obj :
                /\ Eqs(p, C, S).inPts[l][o]
                     = UNION {FS(p, C)!Carried(S, f) : f \in {g \in flowsOf(p, C) : g.to = l /\ g.obj = o}}
                /\ Eqs(p, C, S).outPts[l][o] = FS(p, C)!Written(S, l, o)
BY EqsAre

LEMMA StatementsOf ==
    ASSUME NEW p \in Programs, NEW l \in Loc
    PROVE  /\ p.svfg.stmt[l].src \in SUBSET Var /\ p.svfg.stmt[l].dst \in SUBSET Var
           /\ p.svfg.stmt[l].obj \in SUBSET Obj
<1>1. p.svfg \in Program BY DDAAssumption DEF DDAProgram
<1>2. p.svfg.stmt \in [Loc -> Stmt] BY <1>1 DEF Program
<1> QED BY <1>2 DEF Stmt

LEMMA EdgesOf ==
    ASSUME NEW p \in Programs, NEW C \in SUBSET p.svfg.calls, NEW D \in SUBSET p.svfg.calls, C \subseteq D
    PROVE  /\ passesOf(p, C) \subseteq passesOf(p, D) /\ passesOf(p, D) \subseteq Loc \X Loc
           /\ flowsOf(p, C) \subseteq flowsOf(p, D) /\ flowsOf(p, D) \subseteq Flow
<1>1. p.svfg \in Program BY DDAAssumption DEF DDAProgram
<1>2. /\ p.svfg.passes \subseteq Loc \X Loc /\ p.svfg.flows \subseteq Flow
      /\ p.svfg.calls \subseteq Call
  BY <1>1 DEF Program
<1>3. \A c \in D : c.passes \subseteq Loc \X Loc /\ c.flows \subseteq Flow
  BY <1>2 DEF Call
<1>4. (UNION {c.passes : c \in D}) \subseteq Loc \X Loc /\ (UNION {c.flows : c \in D}) \subseteq Flow
  BY <1>3
<1> QED BY <1>2, <1>4 DEF passesOf, flowsOf

LEMMA PtsInFacts ==
    ASSUME NEW S \in Solutions, NEW V \in SUBSET Var
    PROVE  /\ PtsIn(S, V) \subseteq Obj
           /\ \A T : Leq(S, T) => PtsIn(S, V) \subseteq PtsIn(T, V)
BY DEF PtsIn, Leq, Solutions

LEMMA MoreDefined ==
    ASSUME NEW p \in Programs, NEW C \in SUBSET p.svfg.calls, NEW D \in SUBSET p.svfg.calls, C \subseteq D,
           NEW S \in Solutions, NEW T \in Solutions, Leq(S, T), NEW l \in Loc
    PROVE  FS(p, C)!Defined(S, l) \subseteq FS(p, D)!Defined(T, l) /\ FS(p, C)!Defined(S, l) \subseteq Obj
<1> DEFINE s == p.svfg.stmt[l]
<1>1. /\ s.src \in SUBSET Var /\ s.obj \in SUBSET Obj
      /\ \A m \in Loc : p.svfg.stmt[m].src \in SUBSET Var
  BY StatementsOf
<1>2. PtsIn(S, s.src) \subseteq PtsIn(T, s.src) /\ PtsIn(S, s.src) \subseteq Obj
  BY <1>1, PtsInFacts
<1>3. \A m \in Loc : PtsIn(S, p.svfg.stmt[m].src) \subseteq PtsIn(T, p.svfg.stmt[m].src)
                     /\ PtsIn(S, p.svfg.stmt[m].src) \subseteq Obj
  BY <1>1, PtsInFacts
<1>4. \A o \in Obj : S.inPts[l][o] \subseteq T.inPts[l][o] /\ S.inPts[l][o] \subseteq Obj
  BY DEF Leq, Solutions, Sets
<1>5. CASE s.kind = "addr"
  BY <1>1, <1>5, DefinedByAddr
<1>6. CASE s.kind = "copy"
  BY <1>2, <1>6, DefinedByCopy DEF PtsIn
<1>7. CASE s.kind = "load"
  <2> DEFINE read(R) == UNION {R.inPts[l][o] : o \in PtsIn(R, s.src) \ p.svfg.const}
  <2>1. FS(p, C)!Defined(S, l) = read(S) /\ FS(p, D)!Defined(T, l) = read(T)
    BY <1>7, DefinedByLoad, Zenon DEF PtsIn
  <2>2. read(S) \subseteq read(T) /\ read(S) \subseteq Obj
    BY <1>2, <1>4
  <2> QED BY <2>1, <2>2
<1>8. CASE s.kind = "receive"
  <2> DEFINE given(R, B) == UNION {PtsIn(R, p.svfg.stmt[m].src) : m \in {k \in Loc : <<k, l>> \in passesOf(p, B)}}
  <2>1. FS(p, C)!Defined(S, l) = given(S, C) /\ FS(p, D)!Defined(T, l) = given(T, D)
    BY <1>8, DefinedByReceive, Zenon DEF PtsIn
  <2>2. passesOf(p, C) \subseteq passesOf(p, D)
    BY EdgesOf
  <2>3. given(S, C) \subseteq given(T, D) /\ given(S, C) \subseteq Obj
    BY <1>3, <2>2
  <2> QED BY <2>1, <2>3
<1>9. CASE s.kind \notin {"addr", "copy", "load", "receive"}
  BY <1>9, DefinedByOthers
<1> QED BY <1>5, <1>6, <1>7, <1>8, <1>9

LEMMA MoreWritten ==
    ASSUME NEW p \in Programs, NEW C, NEW D,
           NEW S \in Solutions, NEW T \in Solutions, Leq(S, T), NEW l \in Loc, NEW o \in Obj
    PROVE  FS(p, C)!Written(S, l, o) \subseteq FS(p, D)!Written(T, l, o) /\ FS(p, C)!Written(S, l, o) \subseteq Obj
<1> DEFINE s == p.svfg.stmt[l]
           P == PtsIn(S, s.dst)
           Q == PtsIn(T, s.dst)
<1>1. s.src \in SUBSET Var /\ s.dst \in SUBSET Var
  BY StatementsOf
<1>2. /\ P \subseteq Q /\ PtsIn(S, s.src) \subseteq Obj /\ PtsIn(S, s.src) \subseteq PtsIn(T, s.src)
      /\ S.inPts[l][o] \subseteq T.inPts[l][o] /\ S.inPts[l][o] \subseteq Obj
  <2>1. S.inPts[l][o] \subseteq T.inPts[l][o] /\ S.inPts[l][o] \subseteq Obj
    BY DEF Leq, Solutions, Sets
  <2> QED BY <1>1, <2>1, PtsInFacts
<1>3. PICK W : W = FS(p, C)!Written(S, l, o)
  OBVIOUS
<1>4. PICK X : X = FS(p, D)!Written(T, l, o)
  OBVIOUS
<1>5. /\ W = IF s.kind # "store" \/ P = {} THEN {}
             ELSE (IF o \in P \ p.svfg.const THEN PtsIn(S, s.src) ELSE {})
                  \union (IF P = {o} /\ o \notin p.svfg.weak THEN {} ELSE S.inPts[l][o])
      /\ X = IF s.kind # "store" \/ Q = {} THEN {}
             ELSE (IF o \in Q \ p.svfg.const THEN PtsIn(T, s.src) ELSE {})
                  \union (IF Q = {o} /\ o \notin p.svfg.weak THEN {} ELSE T.inPts[l][o])
  BY <1>3, <1>4, WrittenIs, Zenon
<1> HIDE DEF P, Q
<1>6. W \subseteq X /\ W \subseteq Obj
  BY <1>2, <1>5
<1> QED BY <1>3, <1>4, <1>6

LEMMA MoreCarried ==
    ASSUME NEW p \in Programs, NEW C \in SUBSET p.svfg.calls, NEW D,
           NEW S \in Solutions, NEW T \in Solutions, Leq(S, T), NEW f \in flowsOf(p, C)
    PROVE  FS(p, C)!Carried(S, f) \subseteq FS(p, D)!Carried(T, f) /\ FS(p, C)!Carried(S, f) \subseteq Obj
<1>1. f.from \in Loc /\ f.obj \in Obj
  BY EdgesOf DEF Flow
<1>2. /\ S.inPts[f.from][f.obj] \subseteq T.inPts[f.from][f.obj] /\ S.inPts[f.from][f.obj] \subseteq Obj
      /\ S.outPts[f.from][f.obj] \subseteq T.outPts[f.from][f.obj] /\ S.outPts[f.from][f.obj] \subseteq Obj
  BY <1>1 DEF Leq, Solutions, Sets
<1> QED BY <1>2, CarriedBy

LEMMA EqsAreSolutions ==
    ASSUME NEW p \in Programs, NEW C \in SUBSET p.svfg.calls, NEW S \in Solutions
    PROVE  Eqs(p, C, S) \in Solutions
<1>1. Leq(S, S)
  BY DEF Leq
<1>2. \A l \in Loc : FS(p, C)!Defined(S, l) \subseteq Obj
  BY <1>1, MoreDefined
<1>3. \A f \in flowsOf(p, C) : FS(p, C)!Carried(S, f) \subseteq Obj
  BY <1>1, MoreCarried
<1>4. \A l \in Loc : \A o \in Obj : FS(p, C)!Written(S, l, o) \subseteq Obj
  BY <1>1, MoreWritten
<1>5. [v \in Var |-> UNION {FS(p, C)!Defined(S, l) : l \in {k \in Loc : v \in Defs(p.svfg.stmt[k])}}]
        \in [Var -> SUBSET Obj]
  BY <1>2
<1>6. [l \in Loc |-> [o \in Obj |->
         UNION {FS(p, C)!Carried(S, f) : f \in {g \in flowsOf(p, C) : g.to = l /\ g.obj = o}}]] \in Sets
  BY <1>3 DEF Sets
<1>7. [l \in Loc |-> [o \in Obj |-> FS(p, C)!Written(S, l, o)]] \in Sets
  BY <1>4 DEF Sets
<1> QED BY <1>5, <1>6, <1>7, EqsAre DEF Solutions

LEMMA EqsMonotone ==
    ASSUME NEW p \in Programs, NEW C \in SUBSET p.svfg.calls, NEW D \in SUBSET p.svfg.calls, C \subseteq D,
           NEW S \in Solutions, NEW T \in Solutions, Leq(S, T)
    PROVE  Leq(Eqs(p, C, S), Eqs(p, D, T))
<1>1. \A l \in Loc : FS(p, C)!Defined(S, l) \subseteq FS(p, D)!Defined(T, l)
  BY MoreDefined
<1>2. \A f \in flowsOf(p, C) : FS(p, C)!Carried(S, f) \subseteq FS(p, D)!Carried(T, f) /\ f \in flowsOf(p, D)
  BY MoreCarried, EdgesOf
<1>3. \A l \in Loc : \A o \in Obj : FS(p, C)!Written(S, l, o) \subseteq FS(p, D)!Written(T, l, o)
  BY MoreWritten
<1>4. ASSUME NEW v \in Var PROVE Eqs(p, C, S).pts[v] \subseteq Eqs(p, D, T).pts[v]
  BY <1>1, EqsSets
<1>5. ASSUME NEW l \in Loc, NEW o \in Obj
      PROVE  /\ Eqs(p, C, S).inPts[l][o] \subseteq Eqs(p, D, T).inPts[l][o]
             /\ Eqs(p, C, S).outPts[l][o] \subseteq Eqs(p, D, T).outPts[l][o]
  BY <1>2, <1>3, EqsSets
<1> QED BY <1>4, <1>5 DEF Leq

LEMMA LeqBothWays ==
    ASSUME NEW S \in Solutions, NEW T \in Solutions, Leq(S, T), Leq(T, S)
    PROVE  S = T
<1>1. /\ S.pts \in [Var -> SUBSET Obj] /\ T.pts \in [Var -> SUBSET Obj]
      /\ S.inPts \in Sets /\ T.inPts \in Sets /\ S.outPts \in Sets /\ T.outPts \in Sets
  BY DEF Solutions
<1>2. S.pts = T.pts
  <2>1. \A v \in Var : S.pts[v] = T.pts[v]
    BY DEF Leq
  <2> QED BY <1>1, <2>1
<1>3. \A A \in Sets : \A B \in Sets : (\A l \in Loc : \A o \in Obj : A[l][o] = B[l][o]) => A = B
  <2> SUFFICES ASSUME NEW A \in Sets, NEW B \in Sets, \A l \in Loc : \A o \in Obj : A[l][o] = B[l][o]
               PROVE  A = B
    OBVIOUS
  <2>1. ASSUME NEW l \in Loc PROVE A[l] = B[l]
    <3>1. A[l] \in [Obj -> SUBSET Obj] /\ B[l] \in [Obj -> SUBSET Obj]
      BY DEF Sets
    <3> QED BY <3>1
  <2> QED BY <2>1 DEF Sets
<1>4. S.inPts = T.inPts /\ S.outPts = T.outPts
  <2>1. \A l \in Loc : \A o \in Obj : S.inPts[l][o] = T.inPts[l][o] /\ S.outPts[l][o] = T.outPts[l][o]
    BY DEF Leq
  <2> QED BY <1>1, <1>3, <2>1
<1> QED BY <1>2, <1>4 DEF Solutions

\* A solution as one set of facts, of which there are finitely many.
PtsFact == {0} \X (Var \X Obj)
InFact == {1} \X (Loc \X (Obj \X Obj))
OutFact == {2} \X (Loc \X (Obj \X Obj))
Facts(S) == {u \in PtsFact : u[2][2] \in S.pts[u[2][1]]}
            \union {u \in InFact : u[2][2][2] \in S.inPts[u[2][1]][u[2][2][1]]}
            \union {u \in OutFact : u[2][2][2] \in S.outPts[u[2][1]][u[2][2][1]]}

LEMMA FactsFinite == IsFiniteSet(PtsFact \union InFact \union OutFact)
<1>1. IsFiniteSet(Var \X Obj) /\ IsFiniteSet(Obj \X Obj)
  BY SVFGAssumption, FS_Product DEF SVFGAssumption
<1>2. IsFiniteSet(Loc \X (Obj \X Obj))
  BY <1>1, SVFGAssumption, FS_Product DEF SVFGAssumption
<1>3. IsFiniteSet({0}) /\ IsFiniteSet({1}) /\ IsFiniteSet({2})
  BY FS_Singleton
<1>4. IsFiniteSet(PtsFact) /\ IsFiniteSet(InFact) /\ IsFiniteSet(OutFact)
  BY <1>1, <1>2, <1>3, FS_Product DEF PtsFact, InFact, OutFact
<1>5. IsFiniteSet(PtsFact \union InFact)
  BY <1>4, FS_Union
<1> QED BY <1>4, <1>5, FS_Union

LEMMA FactsGrow ==
    ASSUME NEW S \in Solutions, NEW T \in Solutions, Leq(S, T), T # S
    PROVE  Facts(S) \subseteq Facts(T) /\ Facts(S) # Facts(T)
<1>1. Facts(S) \subseteq Facts(T)
  <2>1. \A u \in PtsFact : u[2][1] \in Var
    BY DEF PtsFact
  <2>2. \A u \in InFact \union OutFact : u[2][1] \in Loc /\ u[2][2][1] \in Obj
    BY DEF InFact, OutFact
  <2> QED BY <2>1, <2>2 DEF Facts, Leq
<1>2. ASSUME Facts(S) = Facts(T) PROVE Leq(T, S)
  <2>1. ASSUME NEW v \in Var, NEW x \in T.pts[v] PROVE x \in S.pts[v]
    <3>1. PICK u : u = <<0, <<v, x>>>>
      OBVIOUS
    <3>2. x \in Obj
      BY DEF Solutions
    <3>3. u \in PtsFact /\ u[2][1] = v /\ u[2][2] = x /\ u \notin InFact /\ u \notin OutFact
      BY <3>1, <3>2 DEF PtsFact, InFact, OutFact
    <3>4. u \in Facts(T)
      BY <3>3 DEF Facts
    <3>5. u \in Facts(S)
      BY <1>2, <3>4
    <3> QED BY <3>3, <3>5 DEF Facts
  <2>2. ASSUME NEW l \in Loc, NEW o \in Obj, NEW x \in T.inPts[l][o] PROVE x \in S.inPts[l][o]
    <3>1. PICK u : u = <<1, <<l, <<o, x>>>>>>
      OBVIOUS
    <3>2. x \in Obj
      BY DEF Solutions, Sets
    <3>3. u \in InFact /\ u[2][1] = l /\ u[2][2][1] = o /\ u[2][2][2] = x /\ u \notin PtsFact /\ u \notin OutFact
      BY <3>1, <3>2 DEF PtsFact, InFact, OutFact
    <3>4. u \in Facts(T)
      BY <3>3 DEF Facts
    <3>5. u \in Facts(S)
      BY <1>2, <3>4
    <3> QED BY <3>3, <3>5 DEF Facts
  <2>3. ASSUME NEW l \in Loc, NEW o \in Obj, NEW x \in T.outPts[l][o] PROVE x \in S.outPts[l][o]
    <3>1. PICK u : u = <<2, <<l, <<o, x>>>>>>
      OBVIOUS
    <3>2. x \in Obj
      BY DEF Solutions, Sets
    <3>3. u \in OutFact /\ u[2][1] = l /\ u[2][2][1] = o /\ u[2][2][2] = x /\ u \notin PtsFact /\ u \notin InFact
      BY <3>1, <3>2 DEF PtsFact, InFact, OutFact
    <3>4. u \in Facts(T)
      BY <3>3 DEF Facts
    <3>5. u \in Facts(S)
      BY <1>2, <3>4
    <3> QED BY <3>3, <3>5 DEF Facts
  <2> QED BY <2>1, <2>2, <2>3 DEF Leq
<1> QED BY <1>1, <1>2, LeqBothWays

NoFacts == [pts |-> [v \in Var |-> {}], inPts |-> NoSets, outPts |-> NoSets]

\* Starting from nothing, repeating the equations ends with a solution of them,
\* and below every other.
LEMMA LeastSolutionRight ==
    ASSUME NEW p \in Programs, NEW C \in SUBSET p.svfg.calls
    PROVE  LET L == FS(p, C)!LeastSolution
           IN  /\ L \in Solutions /\ Eqs(p, C, L) = L
               /\ \A T \in Solutions : Leq(Eqs(p, C, T), T) => Leq(L, T)
<1> DEFINE L == FS(p, C)!LeastSolution
           E(S) == Eqs(p, C, S)
           F == [S \in Solutions |-> E(S)]
           U == PtsFact \union InFact \union OutFact
           size == [S \in Solutions |-> Facts(S)]
           Eq(g) == g = [S \in Solutions |-> IF E(S) = S THEN S ELSE g[E(S)]]
           Up(S) == Leq(S, E(S))
<1>0. PICK N : N = NoFacts
  OBVIOUS
<1>1. F \in [Solutions -> Solutions] /\ \A S \in Solutions : F[S] = E(S)
  BY EqsAreSolutions
<1>2. size \in [Solutions -> SUBSET U] /\ \A S \in Solutions : size[S] = Facts(S)
  BY DEF Facts
<1>3. PICK g : Iterates(Solutions, F, g)
  <2> HIDE DEF F
  <2> QED BY <1>1, GrowExists
<1>4. \A h : [S \in Solutions |-> IF F[S] = S THEN S ELSE h[F[S]]]
               = [S \in Solutions |-> IF E(S) = S THEN S ELSE h[E(S)]]
  OBVIOUS
<1>5. Eq(g)
  <2>1. g = [S \in Solutions |-> IF F[S] = S THEN S ELSE g[F[S]]]
    BY <1>3 DEF Iterates
  <2> QED BY <1>4, <2>1
<1>6. L = (CHOOSE h : Eq(h))[N]
  BY <1>0, Zenon DEF FS!LeastSolution, FS!Solution, FS!DFPts, FS!Nothing, Solutions, Sets, NoFacts, NoSets, Eqs
<1> HIDE DEF Eq, L
<1>7. PICK h : L = h[N] /\ Eq(h)
  <2>1. Eq(CHOOSE h : Eq(h))
    BY <1>5
  <2> QED BY <1>6, <2>1
<1>8. Iterates(Solutions, F, h)
  BY <1>4, <1>7 DEF Iterates, Eq
<1>9. N \in Solutions /\ \A T \in Solutions : Leq(N, T)
  BY <1>0 DEF NoFacts, NoSets, Solutions, Sets, Leq
<1>10. \A S \in Solutions : Up(S) => F[S] \in Solutions /\ Up(F[S])
  BY <1>1, EqsMonotone
<1>11. \A S \in Solutions : Up(S) /\ F[S] # S => size[S] \subseteq size[F[S]] /\ size[S] # size[F[S]]
  BY <1>1, <1>2, FactsGrow
<1>12. Up(N)
  BY <1>9, EqsAreSolutions
<1>13. ASSUME NEW T \in Solutions, Leq(E(T), T)
       PROVE  L \in Solutions /\ E(L) = L /\ Leq(L, T)
  <2> DEFINE K == {S \in Solutions : Up(S) /\ Leq(S, T)}
  <2>1. ClosedUnder(F, K)
    <3> SUFFICES ASSUME NEW S \in K PROVE F[S] \in K
      BY DEF ClosedUnder
    <3>1. Leq(E(S), E(T)) /\ Leq(E(T), T)
      BY <1>13, EqsMonotone
    <3>2. Leq(E(S), T)
      BY <3>1 DEF Leq
    <3> QED BY <1>1, <1>10, <3>2
  <2>2. N \in K /\ K \in SUBSET Solutions
    BY <1>9, <1>12
  <2>3. \A S \in K : F[S] # S => size[S] \subseteq size[F[S]] /\ size[S] # size[F[S]]
    BY <1>11
  <2>4. h[N] \in K /\ F[h[N]] = h[N]
    <3> HIDE DEF F, K, U, size, Up
    <3>1. IsFiniteSet(U)
      BY FactsFinite DEF U
    <3> QED BY <1>1, <1>2, <1>8, <2>1, <2>2, <2>3, <3>1, GrowEnds
  <2> QED BY <1>1, <1>7, <2>4
<1>14. \E T \in Solutions : Leq(E(T), T)
  <2> DEFINE T == [pts |-> [v \in Var |-> Obj], inPts |-> [l \in Loc |-> [o \in Obj |-> Obj]],
                   outPts |-> [l \in Loc |-> [o \in Obj |-> Obj]]]
  <2>1. T \in Solutions /\ E(T) \in Solutions
    BY EqsAreSolutions DEF Solutions, Sets
  <2>2. Leq(E(T), T)
    <3>1. PICK X \in Solutions : X = E(T)
      BY <2>1
    <3>2. Leq(X, T)
      BY DEF Leq, Solutions, Sets
    <3> QED BY <3>1, <3>2
  <2> QED BY <2>1, <2>2
<1>15. L \in Solutions /\ E(L) = L /\ \A T \in Solutions : Leq(E(T), T) => Leq(L, T)
  BY <1>13, <1>14
<1> QED BY <1>15, Zenon DEF L

-----------------------------------------------------------------------------
\* With more calls the least solution is larger, and so are the calls it has.
calledBy(p, C) == {c \in p.svfg.calls : c.fun \in FS(p, C)!LeastSolution.pts[c.fp]}

LEMMA CalledMonotone ==
    ASSUME NEW p \in Programs, NEW C \in SUBSET p.svfg.calls, NEW D \in SUBSET p.svfg.calls, C \subseteq D
    PROVE  calledBy(p, C) \subseteq calledBy(p, D)
<1>1. PICK S : S = FS(p, C)!LeastSolution
  OBVIOUS
<1>2. PICK T : T = FS(p, D)!LeastSolution
  OBVIOUS
<1>3. S \in Solutions /\ \A R \in Solutions : Leq(Eqs(p, C, R), R) => Leq(S, R)
  BY <1>1, LeastSolutionRight, Zenon
<1>4. T \in Solutions /\ Eqs(p, D, T) = T
  BY <1>2, LeastSolutionRight, Zenon
<1>5. Leq(Eqs(p, C, T), T)
  <2>1. Leq(T, T)
    BY DEF Leq
  <2>2. Leq(Eqs(p, C, T), Eqs(p, D, T))
    BY <1>4, <2>1, EqsMonotone
  <2> QED BY <1>4, <2>2
<1>6. \A v \in Var : S.pts[v] \subseteq T.pts[v]
  BY <1>3, <1>4, <1>5 DEF Leq
<1>7. \A c \in p.svfg.calls : c.fp \in Var
  BY DDAAssumption DEF DDAProgram, Program, Call
<1>8. /\ calledBy(p, C) = {c \in p.svfg.calls : c.fun \in S.pts[c.fp]}
      /\ calledBy(p, D) = {c \in p.svfg.calls : c.fun \in T.pts[c.fp]}
  BY <1>1, <1>2, Zenon DEF calledBy
<1> QED BY <1>6, <1>7, <1>8

LEMMA CallsFinite == ASSUME NEW p \in Programs PROVE IsFiniteSet(p.svfg.calls)
<1>1. IsFiniteSet(Loc \X Loc) /\ IsFiniteSet(Loc \X (Obj \X Loc)) /\ IsFiniteSet(Var \X Obj)
  <2>1. IsFiniteSet(Obj \X Loc)
    BY SVFGAssumption, FS_Product DEF SVFGAssumption
  <2> QED BY <2>1, SVFGAssumption, FS_Product DEF SVFGAssumption
<1>2. IsFiniteSet(Flow)
  <2> DEFINE f == [t \in Loc \X (Obj \X Loc) |-> [from |-> t[1], obj |-> t[2][1], to |-> t[2][2]]]
  <2>1. f \in [Loc \X (Obj \X Loc) -> Flow]
    BY DEF Flow
  <2>2. ASSUME NEW e \in Flow PROVE \E t \in Loc \X (Obj \X Loc) : f[t] = e
    <3>1. e = [from |-> e.from, obj |-> e.obj, to |-> e.to] /\ e.from \in Loc /\ e.obj \in Obj /\ e.to \in Loc
      BY DEF Flow
    <3>2. PICK t \in Loc \X (Obj \X Loc) : t = <<e.from, <<e.obj, e.to>>>>
      BY <3>1
    <3> QED BY <3>1, <3>2
  <2>3. f \in Surjection(Loc \X (Obj \X Loc), Flow)
    <3> HIDE DEF f
    <3> QED BY <2>1, <2>2 DEF Surjection
  <2> QED BY <1>1, <2>3, FS_Surjection
<1>3. IsFiniteSet((Var \X Obj) \X ((SUBSET (Loc \X Loc)) \X (SUBSET Flow)))
  <2>1. IsFiniteSet(SUBSET (Loc \X Loc)) /\ IsFiniteSet(SUBSET Flow)
    BY <1>1, <1>2, FS_SUBSET
  <2>2. IsFiniteSet((SUBSET (Loc \X Loc)) \X (SUBSET Flow))
    BY <2>1, FS_Product
  <2> QED BY <1>1, <2>2, FS_Product
<1>4. IsFiniteSet(Call)
  <2> DEFINE D == (Var \X Obj) \X ((SUBSET (Loc \X Loc)) \X (SUBSET Flow))
             f == [t \in D |-> [fp |-> t[1][1], fun |-> t[1][2], passes |-> t[2][1], flows |-> t[2][2]]]
  <2>1. f \in [D -> Call]
    BY DEF Call
  <2>2. ASSUME NEW c \in Call PROVE \E t \in D : f[t] = c
    <3>1. /\ c = [fp |-> c.fp, fun |-> c.fun, passes |-> c.passes, flows |-> c.flows]
          /\ c.fp \in Var /\ c.fun \in Obj /\ c.passes \in SUBSET (Loc \X Loc) /\ c.flows \in SUBSET Flow
      BY DEF Call
    <3>2. PICK t \in D : t = <<<<c.fp, c.fun>>, <<c.passes, c.flows>>>>
      BY <3>1
    <3> QED BY <3>1, <3>2
  <2>3. f \in Surjection(D, Call)
    <3> HIDE DEF f, D
    <3> QED BY <2>1, <2>2 DEF Surjection
  <2> QED BY <1>3, <2>3, FS_Surjection
<1>5. p.svfg.calls \subseteq Call
  BY DDAAssumption DEF DDAProgram, Program
<1> QED BY <1>4, <1>5, FS_Subset

\* With the calls of a closed T, or fewer, the least solution is below T.
LEMMA BelowClosed ==
    ASSUME NEW p \in Programs, NEW T \in Solutions, Closed(T, p),
           NEW C \in SUBSET p.svfg.calls, C \subseteq {c \in p.svfg.calls : c.fun \in T.pts[c.fp]}
    PROVE  /\ Leq(FS(p, C)!LeastSolution, T)
           /\ calledBy(p, C) \subseteq {c \in p.svfg.calls : c.fun \in T.pts[c.fp]}
<1>1. PICK D \in SUBSET p.svfg.calls : D = {c \in p.svfg.calls : c.fun \in T.pts[c.fp]}
  OBVIOUS
<1>2. PICK S : S = FS(p, C)!LeastSolution
  OBVIOUS
<1>3. \A R \in Solutions : Leq(Eqs(p, C, R), R) => Leq(S, R)
  BY <1>2, LeastSolutionRight, Zenon
<1>4. PICK E : E = Eqs(p, D, T)
  OBVIOUS
<1>5. Leq(E, T)
  <2>1. E = FS(p, {c \in p.svfg.calls : c.fun \in T.pts[c.fp]})!Equations(T)
    BY <1>1, <1>4, Zenon DEF Eqs
  <2>2. /\ \A v \in Var : E.pts[v] \subseteq T.pts[v]
        /\ \A l \in Loc : \A o \in Obj : /\ E.inPts[l][o] \subseteq T.inPts[l][o]
                                         /\ E.outPts[l][o] \subseteq T.outPts[l][o]
    BY <2>1, Zenon DEF Closed
  <2> QED BY <2>2 DEF Leq
<1>6. Leq(Eqs(p, C, T), E)
  <2>1. Leq(T, T)
    BY DEF Leq
  <2> QED BY <1>1, <1>4, <2>1, EqsMonotone
<1>7. Leq(Eqs(p, C, T), T)
  BY <1>5, <1>6 DEF Leq
<1>8. Leq(S, T)
  BY <1>3, <1>7
<1>9. calledBy(p, C) = {c \in p.svfg.calls : c.fun \in S.pts[c.fp]}
  BY <1>2, Zenon DEF calledBy
<1>10. \A c \in p.svfg.calls : c.fp \in Var
  BY DDAAssumption DEF DDAProgram, Program, Call
<1> QED BY <1>2, <1>8, <1>9, <1>10 DEF Leq

\* What the whole-program analysis is said to find is right: it satisfies its
\* own equations, with exactly the calls its pointers have, and is the least
\* that is closed under them.
THEOREM WholeProgramIsLeast ==
    ASSUME NEW p \in Programs
    PROVE  /\ Closed(WholeProgram(p), p) /\ WholeProgram(p) \in Solutions
           /\ \A T \in Solutions : Closed(T, p) => Leq(WholeProgram(p), T)
<1> DEFINE D == SUBSET p.svfg.calls
           F == [C \in D |-> calledBy(p, C)]
           size == [C \in D |-> C]
           Eq(g) == g = [C \in D |-> IF calledBy(p, C) = C THEN C ELSE g[calledBy(p, C)]]
           K == {C \in D : C \subseteq F[C]}
<1>1. F \in [D -> D] /\ \A C \in D : F[C] = calledBy(p, C)
  BY DEF calledBy
<1>2. PICK g : Iterates(D, F, g)
  <2> HIDE DEF F
  <2> QED BY <1>1, GrowExists
<1>3. \A h : [C \in D |-> IF F[C] = C THEN C ELSE h[F[C]]]
               = [C \in D |-> IF calledBy(p, C) = C THEN C ELSE h[calledBy(p, C)]]
  OBVIOUS
<1>4. Eq(g)
  <2>1. g = [C \in D |-> IF F[C] = C THEN C ELSE g[F[C]]]
    BY <1>2 DEF Iterates
  <2> QED BY <1>3, <2>1
<1>5. WholeProgram(p) = FS(p, (CHOOSE h : Eq(h))[{}])!LeastSolution
  BY Zenon DEF WholeProgram, calledBy
<1> HIDE DEF Eq
<1>6. PICK h : WholeProgram(p) = FS(p, h[{}])!LeastSolution /\ Eq(h)
  <2>1. Eq(CHOOSE h : Eq(h))
    BY <1>4
  <2> QED BY <1>5, <2>1
<1>7. Iterates(D, F, h)
  BY <1>3, <1>6 DEF Iterates, Eq
<1>8. ClosedUnder(F, K)
  <2> SUFFICES ASSUME NEW C \in K PROVE F[C] \in K
    BY DEF ClosedUnder
  <2>1. calledBy(p, C) \subseteq calledBy(p, calledBy(p, C))
    BY <1>1, CalledMonotone
  <2> QED BY <1>1, <2>1
<1>9. {} \in K /\ K \in SUBSET D
  OBVIOUS
<1>10. /\ size \in [D -> SUBSET p.svfg.calls]
       /\ \A C \in K : F[C] # C => size[C] \subseteq size[F[C]] /\ size[C] # size[F[C]]
  BY <1>1
<1>11. h[{}] \in K /\ F[h[{}]] = h[{}]
  <2> HIDE DEF F, K, size
  <2> QED BY <1>1, <1>7, <1>8, <1>9, <1>10, CallsFinite, GrowEnds
<1>12. PICK C \in D : C = h[{}] /\ calledBy(p, C) = C
  BY <1>1, <1>9, <1>11
<1>13. PICK S : S = FS(p, C)!LeastSolution /\ WholeProgram(p) = S
  BY <1>6, <1>12
<1>14. S \in Solutions /\ Eqs(p, C, S) = S
  BY <1>13, LeastSolutionRight, Zenon
<1>15. {c \in p.svfg.calls : c.fun \in S.pts[c.fp]} = C
  BY <1>12, <1>13, Zenon DEF calledBy
<1>16. FS(p, {c \in p.svfg.calls : c.fun \in S.pts[c.fp]})!Equations(S) = S
  BY <1>14, <1>15, Zenon DEF Eqs
<1>17. Closed(S, p)
  <2>1. PICK E : E = FS(p, {c \in p.svfg.calls : c.fun \in S.pts[c.fp]})!Equations(S) /\ E = S
    BY <1>16
  <2>2. /\ \A v \in Var : E.pts[v] \subseteq S.pts[v]
        /\ \A l \in Loc : \A o \in Obj : /\ E.inPts[l][o] \subseteq S.inPts[l][o]
                                         /\ E.outPts[l][o] \subseteq S.outPts[l][o]
    BY <2>1
  <2> QED BY <2>1, <2>2, Zenon DEF Closed
<1>18. ASSUME NEW T \in Solutions, Closed(T, p) PROVE Leq(S, T)
  <2> DEFINE called == {c \in p.svfg.calls : c.fun \in T.pts[c.fp]}
             B == {A \in K : A \subseteq called}
  <2>1. ClosedUnder(F, B)
    <3> SUFFICES ASSUME NEW A \in B PROVE F[A] \in B
      BY DEF ClosedUnder
    <3>1. F[A] \in K
      BY <1>8 DEF ClosedUnder
    <3>2. F[A] \subseteq called
      BY <1>1, <1>18, BelowClosed
    <3> QED BY <3>1, <3>2
  <2>2. {} \in B /\ B \in SUBSET D
    BY <1>9
  <2>3. \A A \in B : F[A] # A => size[A] \subseteq size[F[A]] /\ size[A] # size[F[A]]
    BY <1>10
  <2>4. h[{}] \in B
    <3> HIDE DEF F, K, B, size
    <3> QED BY <1>1, <1>7, <1>10, <2>1, <2>2, <2>3, CallsFinite, GrowEnds
  <2> QED BY <1>12, <1>13, <1>18, <2>4, BelowClosed
<1> QED BY <1>13, <1>14, <1>17, <1>18

-----------------------------------------------------------------------------
\* While no query has been given up, the caches stay within every solution of
\* the whole-program equations, whatever is asked and in whatever order.
THEOREM WithinEverySolution ==
    ASSUME NEW p \in Programs, NEW S, Closed(S, p)
    PROVE  Spec /\ prog = p => [](inBudget => CachesWithin(S))
<1> DEFINE Bounded == Inv /\ prog = p /\ (inBudget => Within(S))
<1>1. Init /\ prog = p => Bounded BY Initially, WithinAtFirst
<1>2. Bounded /\ [Next]_vars => Bounded'
  <2> SUFFICES ASSUME Bounded, [Next]_vars PROVE Bounded' OBVIOUS
  <2>1. Inv' BY Inductive
  <2>2. prog' = p
    <3>1. prog' = prog BY SameGraph
    <3> QED BY <3>1
  <2>3. ASSUME inBudget' PROVE Within(S)'
    <3>1. inBudget BY <2>3, BudgetStaysSpent
    <3>2. ~outOfBudgetQuery BY <3>1 DEF inBudget
    <3> QED BY <2>1, <3>1, <3>2, StepWithin
  <2> QED BY <2>1, <2>2, <2>3
<1>3. Bounded => (inBudget => CachesWithin(S)) BY DEF Within
<1> HIDE DEF Bounded
<1> QED BY <1>1, <1>2, <1>3, PTL DEF Spec

\* When Andersen's sets are such a solution, they bound the caches at all
\* times, after a query was given up and answered by them as well.
THEOREM NeverBeyondAndersen ==
    ASSUME NEW p \in Programs, NEW S, Closed(S, p), S.pts = p.ander
    PROVE  Spec /\ prog = p => []CachesWithin(S)
<1> DEFINE Bounded == Inv /\ prog = p /\ Within(S)
<1>1. Init /\ prog = p => Bounded BY Initially, WithinAtFirst
<1>2. Bounded /\ [Next]_vars => Bounded'
  <2> SUFFICES ASSUME Bounded, [Next]_vars PROVE Bounded' OBVIOUS
  <2>1. Inv' BY Inductive
  <2>2. prog' = p
    <3>1. prog' = prog BY SameGraph
    <3> QED BY <3>1
  <2> QED BY <2>1, <2>2, StepWithin
<1>3. Bounded => CachesWithin(S) BY DEF Within
<1> HIDE DEF Bounded
<1> QED BY <1>1, <1>2, <1>3, PTL DEF Spec

\* Nothing is cached that the whole-program analysis does not have.
THEOREM NothingIsInvented == Spec => []NothingInvented
<1> DEFINE Bounded == Inv /\ (inBudget => Within(whole))
<1>1. Init => Bounded
  <2> SUFFICES ASSUME Init PROVE Bounded OBVIOUS
  <2>1. prog \in Programs /\ whole = WholeProgram(prog) BY DEF Init
  <2>2. Closed(whole, prog) BY <2>1, WholeProgramIsLeast
  <2>3. Inv BY Initially
  <2> QED BY <2>2, <2>3, WithinAtFirst
<1>2. Bounded /\ [Next]_vars => Bounded'
  <2> SUFFICES ASSUME Bounded, [Next]_vars PROVE Bounded' OBVIOUS
  <2>1. Inv' BY Inductive
  <2>2. whole' = whole BY SameGraph
  <2>3. ASSUME inBudget' PROVE Within(whole)'
    <3>1. inBudget BY <2>3, BudgetStaysSpent
    <3>2. ~outOfBudgetQuery BY <3>1 DEF inBudget
    <3>3. PICK S : S = whole OBVIOUS
    <3>4. Within(S) BY <3>1, <3>3
    <3>5. Within(S)' BY <2>1, <3>2, <3>4, StepWithin
    <3> QED BY <3>3, <3>5, <2>2
  <2> QED BY <2>1, <2>3
<1>3. Bounded => NothingInvented BY DEF Within, NothingInvented
<1> HIDE DEF Bounded
<1> QED BY <1>1, <1>2, <1>3, PTL DEF Spec
=============================================================================
