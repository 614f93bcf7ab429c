------------------------ MODULE FlowSensitive_proofs ------------------------
(***************************************************************************)
(* Proofs about FlowSensitive, for every set of programs: the variables    *)
(* keep their types, a node that is not due has handed on everything it    *)
(* knows, a strong update lets nothing through, and what the analysis ends *)
(* with is the least solution of the equations of all nodes.               *)
(*                                                                         *)
(* And about FlowSensitiveSCD, which runs after it: the constraint graph   *)
(* is solved when its analysis ends, but for what strong updates emptied;  *)
(* where versions express the flow it finds no more than the sparse        *)
(* analysis, and where objects stay inside a function no less.             *)
(***************************************************************************)
EXTENDS FlowSensitiveSCD, Iteration_proofs

\* Edges join the kinds of nodes they may join, also those added for calls.
GraphShape ==
    /\ \A e \in passes : stmt(e[1]).kind = "pass" /\ stmt(e[2]).kind = "receive"
    /\ \A f \in flows : stmt(f.from).kind \in {"store", "mssa"}

\* An object that is not flagged has nothing in its IN set that the node has
\* not taken over.
FlagsRight ==
    \A l \in Loc : \A o \in Obj \ inUpdated[l] :
      /\ stmt(l).kind = "load" => inPts[l][o] \subseteq PtsOf(stmt(l).dst)
      /\ stmt(l).kind = "store" => inPts[l][o] \subseteq outPts[l][o]
      /\ stmt(l).kind = "mssa" => inPts[l][o] = {}

\* A store's OUT sets are always in the IN sets after it.
StoresDelivered ==
    \A f \in flows : stmt(f.from).kind = "store" =>
        outPts[f.from][f.obj] \subseteq inPts[f.to][f.obj]

\* A store whose pointer has no targets has said nothing.
BlockedSilent ==
    \A l \in Loc : stmt(l).kind = "store" /\ blocked(l) => \A o \in Obj : outPts[l][o] = {}

\* Once the work list has run empty, and once no callee is new.
AtRest == /\ phase \in {"updateCallGraph", "done"} => worklist = {}
          /\ phase = "done" => newCalls = {}

Inv == /\ TypeOK /\ GraphShape /\ AtRest /\ FlagsRight /\ StoresDelivered
       /\ BlockedSilent /\ StrongUpdateKills /\ NoNewsLost

LEMMA PtsOfType == ASSUME pts \in [Var -> SUBSET Obj], NEW V \in SUBSET Var
                   PROVE  PtsOf(V) \subseteq Obj
BY DEF PtsOf

\* What every step that processes a node keeps of the typing.
LEMMA StmtType ==
    ASSUME TypeOK, NEW l \in Loc
    PROVE  /\ stmt(l) \in Stmt
           /\ stmt(l).src \in SUBSET Var /\ stmt(l).dst \in SUBSET Var /\ stmt(l).obj \in SUBSET Obj
           /\ Uses(stmt(l)) \in SUBSET Var /\ Defs(stmt(l)) \in SUBSET Var
<1>1. prog \in Program
  BY ProgramsAssumption DEF TypeOK
<1>2. stmt(l) \in Stmt
  BY <1>1 DEF stmt, Program
<1> QED BY <1>2 DEF Stmt, Uses, Defs

\* Operands of a node of a well-formed program.
LEMMA Operands ==
    ASSUME TypeOK, NEW l \in Loc
    PROVE  /\ stmt(l).kind \in {"addr", "copy", "load", "receive"} => \E v \in Var : stmt(l).dst = {v}
           /\ stmt(l).kind \in {"load", "pass", "store"} => \E v \in Var : stmt(l).src = {v}
           /\ stmt(l).kind = "store" => \E v \in Var : stmt(l).dst = {v}
<1>1. WellFormed(prog)
  BY ProgramsAssumption DEF TypeOK
<1> QED BY <1>1, StmtType DEF WellFormed, Single, stmt
-----------------------------------------------------------------------------
\* What every processNode does: sets only grow, the graph stays, and only the
\* node itself leaves the work list.
Grows ==
    /\ \A v \in Var : pts[v] \subseteq pts'[v]
    /\ \A l \in Loc : \A o \in Obj : inPts[l][o] \subseteq inPts'[l][o] /\ outPts[l][o] \subseteq outPts'[l][o]
Still == prog' = prog /\ passes' = passes /\ flows' = flows
\* Nothing node l reads has changed.
SameFor(l) == (\A v \in Uses(stmt(l)) : pts'[v] = pts[v]) /\ inPts'[l] = inPts[l]
\* The node l is on the work list, or the pointer it uses is being received.
Pushed(l) == l \in worklist \/ \E m \in worklist : stmt(m).kind = "receive" /\ l \in DirectSuccs(m)

LEMMA StmtStill == ASSUME Still
                   PROVE  /\ \A l \in Loc : stmt(l)' = stmt(l)
                          /\ \A l \in Loc : DirectSuccs(l)' = DirectSuccs(l)
BY DEF Still, stmt, DirectSuccs

\* A node that was done with stays so if nothing it reads changes.
LEMMA StaysDone ==
    ASSUME TypeOK, GraphShape, Still, Grows, NEW l \in Loc, SameFor(l), DoneWith(l)
    PROVE  DoneWith(l)'
<1> DEFINE s == stmt(l)
<1>1. stmt(l)' = s /\ \A m \in Loc : stmt(m)' = stmt(m)
  BY StmtStill
<1>2. s \in Stmt /\ s.src \in SUBSET Var /\ s.dst \in SUBSET Var
  BY StmtType
<1>3. s.kind # "store" => PtsOf(s.src)' = PtsOf(s.src)
  BY <1>1, <1>2 DEF SameFor, Uses, PtsOf
<1>4. s.kind = "store" => PtsOf(s.src)' = PtsOf(s.src) /\ PtsOf(s.dst)' = PtsOf(s.dst)
  BY <1>1, <1>2 DEF SameFor, Uses, PtsOf
<1>5. PtsOf(s.dst) \subseteq PtsOf(s.dst)'
  BY <1>1, <1>2 DEF Grows, PtsOf
<1>6. \A m \in Loc : PtsOf(stmt(m).dst) \subseteq PtsOf(stmt(m).dst)'
  BY <1>1, StmtType DEF Grows, PtsOf
<1>7. s.kind = "addr" => DoneWith(l)'
  BY <1>1, <1>2, <1>5 DEF DoneWith
<1>8. s.kind = "copy" => DoneWith(l)'
  BY <1>1, <1>2, <1>3, <1>5 DEF DoneWith
<1>9. s.kind = "load" => DoneWith(l)'
  BY <1>1, <1>2, <1>3, <1>5 DEF DoneWith, Touched, Still, SameFor
<1>10. s.kind = "pass" => DoneWith(l)'
  BY <1>1, <1>2, <1>3, <1>6 DEF DoneWith, Still
<1>11. s.kind = "store" => DoneWith(l)'
  <2> SUFFICES ASSUME s.kind = "store" PROVE DoneWith(l)'
    OBVIOUS
  <2>1. blocked(l)' = blocked(l) /\ overwritten(l)' = overwritten(l)
    BY <1>1, <1>4 DEF blocked, overwritten, Still
  <2>2. Touched(s.dst)' = Touched(s.dst) /\ Touched(s.dst) \subseteq Obj
    BY <1>2, <1>4, PtsOfType DEF Touched, Still, TypeOK
  <2>3. \A o \in Touched(s.dst) : PtsOf(s.src) \subseteq outPts[l][o]
    BY DEF DoneWith
  <2>4. ~blocked(l) => \A o \in Obj \ overwritten(l) : inPts[l][o] \subseteq outPts[l][o]
    BY DEF DoneWith
  <2>5. \A o \in Obj : outPts[l][o] \subseteq outPts'[l][o] /\ inPts'[l][o] = inPts[l][o]
    BY DEF Grows, SameFor
  <2>6. \A o \in Touched(s.dst)' : PtsOf(s.src)' \subseteq outPts'[l][o]
    BY <1>4, <2>2, <2>3, <2>5
  <2>7. ~blocked(l)' => \A o \in Obj \ overwritten(l)' : inPts'[l][o] \subseteq outPts'[l][o]
    BY <2>1, <2>4, <2>5
  <2> QED BY <1>1, <2>6, <2>7 DEF DoneWith
<1>12. s.kind = "mssa" => DoneWith(l)'
  <2> SUFFICES ASSUME s.kind = "mssa" PROVE DoneWith(l)'
    OBVIOUS
  <2>1. \A f \in flows : f \in Flow
    BY DEF TypeOK
  <2>2. \A f \in flows : f.from = l => inPts'[l][f.obj] \subseteq inPts'[f.to][f.obj]
    BY <2>1 DEF DoneWith, SameFor, Grows, Flow
  <2> QED BY <1>1, <2>2 DEF DoneWith, Still
<1>13. s.kind = "receive" => DoneWith(l)'
  BY <1>1 DEF DoneWith
<1> QED BY <1>2, <1>7, <1>8, <1>9, <1>10, <1>11, <1>12, <1>13 DEF Stmt

\* Processing node k, which is no receiving one, loses no news if every node is
\* pushed, or reads nothing that changed, or is done with.
LEMMA NothingLost ==
    ASSUME Inv, Still, Grows, phase = "solveWorklist", phase' = phase,
           NEW k \in worklist, stmt(k).kind # "receive", worklist \ {k} \subseteq worklist',
           \A l \in Loc : Pushed(l)' \/ (l # k /\ SameFor(l)) \/ DoneWith(l)'
    PROVE  NoNewsLost'
<1> SUFFICES ASSUME NEW l \in Loc, ~Pushed(l)', l # k, SameFor(l) PROVE DoneWith(l)'
  BY DEF NoNewsLost, Due, Pushed
<1>1. ~Pushed(l)
  BY StmtStill DEF Pushed, Inv, TypeOK
<1>2. DoneWith(l)
  BY <1>1 DEF Pushed, Inv, NoNewsLost, Due
<1> QED BY <1>2, StaysDone DEF Inv
-----------------------------------------------------------------------------
\* What blocks a store and what it overwrites, for a store that wrote nothing.
Silent(l) == stmt(l).kind = "store" /\ blocked(l) => \A o \in Obj : outPts[l][o] = {}
Kills(l) == stmt(l).kind = "store" => \A o \in overwritten(l) : outPts[l][o] \subseteq PtsOf(stmt(l).src)

LEMMA StoresQuiet ==
    ASSUME TypeOK, Still, Grows, pts' \in [Var -> SUBSET Obj],
           NEW l \in Loc, outPts'[l] = outPts[l], Silent(l), Kills(l)
    PROVE  Silent(l)' /\ Kills(l)'
<1> DEFINE s == stmt(l)
<1>1. stmt(l)' = s /\ s.src \in SUBSET Var /\ s.dst \in SUBSET Var
  BY StmtStill, StmtType
<1>2. PtsOf(s.dst) \subseteq PtsOf(s.dst)' /\ PtsOf(s.src) \subseteq PtsOf(s.src)'
  BY <1>1 DEF Grows, PtsOf
<1>4. Silent(l)'
  BY <1>1, <1>2 DEF Silent, blocked
<1>5. ASSUME s.kind = "store", NEW o \in overwritten(l)' PROVE outPts'[l][o] \subseteq PtsOf(s.src)'
  <2>1. PtsOf(s.dst)' = {o} /\ o \notin prog.weak /\ o \in PtsOf(s.dst)'
    BY <1>1, <1>5 DEF overwritten, Still
  <2>2. CASE PtsOf(s.dst) = {}
    <3>1. o \in Obj
      BY <2>1, <1>1 DEF PtsOf
    <3>2. outPts[l][o] = {}
      BY <3>1, <2>2, <1>5 DEF Silent, blocked
    <3> QED BY <3>1, <3>2
  <2>3. CASE PtsOf(s.dst) # {}
    <3>1. PtsOf(s.dst) = {o}
      BY <2>1, <2>3, <1>2
    <3>2. o \in overwritten(l)
      BY <3>1, <2>1 DEF overwritten
    <3> QED BY <3>2, <1>2, <1>5 DEF Kills
  <2> QED BY <2>2, <2>3
<1> QED BY <1>1, <1>4, <1>5 DEF Kills

\* A step in which node k defines its pointer.
LEMMA DefineStep ==
    ASSUME TypeOK, Still, NEW k \in worklist, NEW T \in SUBSET Obj, Define(k, T),
           stmt(k).kind \in {"addr", "copy", "load"}, inPts' = inPts, outPts' = outPts
    PROVE  /\ pts' \in [Var -> SUBSET Obj] /\ worklist' \subseteq Loc /\ worklist \ {k} \subseteq worklist'
           /\ Grows
           /\ T \subseteq PtsOf(stmt(k).dst)'
           /\ \A l \in Loc : Pushed(l)' \/ SameFor(l)
<1>1. k \in Loc /\ pts \in [Var -> SUBSET Obj] /\ worklist \subseteq Loc
  BY DEF TypeOK
<1>2. stmt(k).dst \in SUBSET Var
  BY <1>1, StmtType
<1>3. PICK x \in Var : stmt(k).dst = {x}
  BY <1>1, Operands
<1>4. pts' = [v \in Var |-> IF v = x THEN pts[v] \union T ELSE pts[v]]
  BY <1>3 DEF Define
<1>5. worklist' = (worklist \ {k}) \union (IF T \subseteq PtsOf(stmt(k).dst) THEN {} ELSE DirectSuccs(k))
  BY DEF Define
<1>6. PtsOf(stmt(k).dst) = pts[x]
  BY <1>3 DEF PtsOf
<1>7. pts' \in [Var -> SUBSET Obj]
  BY <1>1, <1>4
<1>8. worklist' \subseteq Loc /\ worklist \ {k} \subseteq worklist'
  BY <1>1, <1>5 DEF DirectSuccs
<1>9. Grows
  BY <1>4 DEF Grows
<1>10. T \subseteq PtsOf(stmt(k).dst)'
  BY <1>1, <1>3, <1>4, StmtStill DEF PtsOf
<1>11. ASSUME NEW l \in Loc PROVE Pushed(l)' \/ SameFor(l)
  <2>1. CASE T \subseteq pts[x]
    <3>1. \A v \in Var : pts'[v] = pts[v]
      BY <1>4, <2>1
    <3> QED BY <3>1, <1>11, StmtType DEF SameFor
  <2>2. CASE x \notin Uses(stmt(l))
    BY <1>4, <1>11, <2>2, StmtType DEF SameFor
  <2>3. CASE ~(T \subseteq pts[x]) /\ x \in Uses(stmt(l))
    <3>1. x \in Defs(stmt(k))
      BY <1>3 DEF Defs
    <3>2. l \in DirectSuccs(k)
      BY <3>1, <2>3 DEF DirectSuccs
    <3> QED BY <3>2, <1>5, <1>6, <2>3 DEF Pushed
  <2> QED BY <2>1, <2>2, <2>3
<1> QED BY <1>7, <1>8, <1>9, <1>10, <1>11
-----------------------------------------------------------------------------
\* Processing node k keeps the invariant if only pointers, flags and the work
\* list change, and a flag is taken only with what it stood for.
LEMMA PointersInv ==
    ASSUME Inv, Still, phase = "solveWorklist", UNCHANGED <<phase, connected, inPts, outPts>>,
           NEW k \in worklist, stmt(k).kind # "receive",
           pts' \in [Var -> SUBSET Obj], inUpdated' \in [Loc -> SUBSET Obj],
           worklist' \subseteq Loc, worklist \ {k} \subseteq worklist',
           Grows, \A l \in Loc : Pushed(l)' \/ SameFor(l),
           \A l \in Loc : \A o \in inUpdated[l] \ inUpdated'[l] :
             stmt(l).kind = "load" /\ inPts[l][o] \subseteq PtsOf(stmt(l).dst)',
           DoneWith(k)' \/ Pushed(k)'
    PROVE  Inv'
<1>1. TypeOK
  BY DEF Inv
<1>2. TypeOK'
  BY DEF Inv, TypeOK, Still
<1>3. GraphShape' /\ AtRest'
  BY StmtStill DEF Inv, GraphShape, AtRest, Still, TypeOK, Flow
<1>4. FlagsRight'
  <2> SUFFICES ASSUME NEW l \in Loc, NEW o \in Obj, o \notin inUpdated'[l]
               PROVE  /\ stmt(l)'.kind = "load" => inPts'[l][o] \subseteq PtsOf(stmt(l).dst)'
                      /\ stmt(l)'.kind = "store" => inPts'[l][o] \subseteq outPts'[l][o]
                      /\ stmt(l)'.kind = "mssa" => inPts'[l][o] = {}
    BY DEF FlagsRight
  <2>1. stmt(l)' = stmt(l) /\ stmt(l).dst \in SUBSET Var
    BY StmtStill, StmtType, <1>1
  <2>2. PtsOf(stmt(l).dst) \subseteq PtsOf(stmt(l).dst)'
    BY <2>1 DEF Grows, PtsOf
  <2>3. CASE o \notin inUpdated[l]
    BY <2>1, <2>2, <2>3 DEF Inv, FlagsRight
  <2>4. CASE o \in inUpdated[l]
    BY <2>1, <2>4
  <2> QED BY <2>3, <2>4
<1>5. StoresDelivered'
  BY StmtStill DEF Inv, StoresDelivered, Still, TypeOK, Flow
<1>6. \A l \in Loc : Silent(l)' /\ Kills(l)'
  BY <1>1, StoresQuiet DEF Inv, BlockedSilent, StrongUpdateKills, Silent, Kills
<1>7. NoNewsLost'
  <2>1. \A l \in Loc : Pushed(l)' \/ (l # k /\ SameFor(l)) \/ DoneWith(l)'
    OBVIOUS
  <2> QED BY <2>1, NothingLost
<1> QED BY <1>2, <1>3, <1>4, <1>5, <1>6, <1>7 DEF Inv, BlockedSilent, StrongUpdateKills, Silent, Kills

LEMMA AddrInv ==
    ASSUME Inv, phase = "solveWorklist", NEW k \in worklist, processAddr(k)
    PROVE  Inv'
<1>1. TypeOK /\ k \in Loc /\ Still /\ stmt(k).kind = "addr" /\ Define(k, stmt(k).obj)
      /\ UNCHANGED <<phase, connected, inPts, outPts>> /\ inUpdated' = inUpdated
  BY DEF Inv, TypeOK, processAddr, graphVars, Still
<1>2. stmt(k).obj \in SUBSET Obj /\ stmt(k)' = stmt(k)
  BY <1>1, StmtType, StmtStill
<1>3. /\ pts' \in [Var -> SUBSET Obj] /\ worklist' \subseteq Loc /\ worklist \ {k} \subseteq worklist'
      /\ Grows /\ stmt(k).obj \subseteq PtsOf(stmt(k).dst)' /\ \A l \in Loc : Pushed(l)' \/ SameFor(l)
  BY <1>1, <1>2, DefineStep
<1>4. DoneWith(k)'
  BY <1>1, <1>2, <1>3 DEF DoneWith
<1>5. inUpdated' \in [Loc -> SUBSET Obj]
  BY <1>1 DEF TypeOK
<1> QED BY <1>1, <1>3, <1>4, <1>5, PointersInv

LEMMA CopyInv ==
    ASSUME Inv, phase = "solveWorklist", NEW k \in worklist, processCopy(k)
    PROVE  Inv'
<1> DEFINE T == PtsOf(stmt(k).src)
<1>1. TypeOK /\ k \in Loc /\ Still /\ stmt(k).kind = "copy" /\ Define(k, T)
      /\ UNCHANGED <<phase, connected, inPts, outPts>> /\ inUpdated' = inUpdated
  BY DEF Inv, TypeOK, processCopy, graphVars, Still
<1>2. stmt(k)' = stmt(k) /\ stmt(k).src \in SUBSET Var /\ Uses(stmt(k)) = stmt(k).src
  BY <1>1, StmtType, StmtStill DEF Uses
<1>3. T \in SUBSET Obj
  BY <1>1, <1>2, PtsOfType DEF TypeOK
<1> HIDE DEF T
<1>4. /\ pts' \in [Var -> SUBSET Obj] /\ worklist' \subseteq Loc /\ worklist \ {k} \subseteq worklist'
      /\ Grows /\ T \subseteq PtsOf(stmt(k).dst)' /\ \A l \in Loc : Pushed(l)' \/ SameFor(l)
  BY <1>1, <1>3, DefineStep
<1>5. DoneWith(k)' \/ Pushed(k)'
  <2>1. CASE SameFor(k)
    <3>1. PtsOf(stmt(k).src)' = T
      BY <1>2, <2>1 DEF T, PtsOf, SameFor
    <3> QED BY <1>1, <1>2, <1>4, <3>1 DEF DoneWith
  <2> QED BY <1>1, <1>4, <2>1
<1>6. inUpdated' \in [Loc -> SUBSET Obj]
  BY <1>1 DEF TypeOK
<1> QED BY <1>1, <1>4, <1>5, <1>6, PointersInv

LEMMA LoadInv ==
    ASSUME Inv, phase = "solveWorklist", NEW k \in worklist, processLoad(k)
    PROVE  Inv'
<1> DEFINE read == Touched(stmt(k).src) \intersect inUpdated[k]
           T == UNION {inPts[k][o] : o \in read}
<1>1. TypeOK /\ k \in Loc /\ Still /\ stmt(k).kind = "load" /\ Define(k, T)
      /\ UNCHANGED <<phase, connected, inPts, outPts>> /\ inUpdated' = [inUpdated EXCEPT ![k] = @ \ read]
  BY DEF Inv, TypeOK, processLoad, graphVars, Still
<1>2. stmt(k)' = stmt(k) /\ stmt(k).src \in SUBSET Var /\ Uses(stmt(k)) = stmt(k).src
  BY <1>1, StmtType, StmtStill DEF Uses
<1>3. read \subseteq Obj /\ Touched(stmt(k).src) \subseteq Obj
  BY <1>1, <1>2, PtsOfType DEF TypeOK, Touched
<1>4. T \in SUBSET Obj /\ \A o \in read : inPts[k][o] \subseteq T
  BY <1>1, <1>3 DEF TypeOK, DFPts
<1>5. \A o \in Touched(stmt(k).src) : o \in inUpdated[k] => o \in read
  OBVIOUS
<1> HIDE DEF T, read
<1>6. /\ pts' \in [Var -> SUBSET Obj] /\ worklist' \subseteq Loc /\ worklist \ {k} \subseteq worklist'
      /\ Grows /\ T \subseteq PtsOf(stmt(k).dst)' /\ \A l \in Loc : Pushed(l)' \/ SameFor(l)
  BY <1>1, <1>4, DefineStep
<1>7. DoneWith(k)' \/ Pushed(k)'
  <2>1. CASE SameFor(k)
    <3>1. Touched(stmt(k).src)' = Touched(stmt(k).src)
      BY <1>1, <1>2, <2>1 DEF Touched, PtsOf, SameFor, Still
    <3>2. PtsOf(stmt(k).dst) \subseteq PtsOf(stmt(k).dst)'
      BY <1>1, <1>2, <1>6, StmtType DEF Grows, PtsOf
    <3>3. ASSUME NEW o \in Touched(stmt(k).src) PROVE inPts[k][o] \subseteq PtsOf(stmt(k).dst)'
      <4>1. CASE o \in inUpdated[k]
        BY <1>4, <1>5, <1>6, <3>3, <4>1
      <4>2. CASE o \notin inUpdated[k]
        BY <1>1, <1>3, <3>2, <3>3, <4>2 DEF Inv, FlagsRight
      <4> QED BY <4>1, <4>2
    <3> QED BY <1>1, <1>2, <3>1, <3>3 DEF DoneWith
  <2> QED BY <1>1, <1>6, <2>1
<1>8. inUpdated' \in [Loc -> SUBSET Obj]
  BY <1>1 DEF TypeOK
<1>9. ASSUME NEW l \in Loc, NEW o \in inUpdated[l] \ inUpdated'[l]
      PROVE  stmt(l).kind = "load" /\ inPts[l][o] \subseteq PtsOf(stmt(l).dst)'
  <2>1. l = k /\ o \in read
    BY <1>1, <1>9 DEF TypeOK
  <2> QED BY <1>1, <1>2, <1>4, <1>6, <2>1
<1> QED BY <1>1, <1>6, <1>7, <1>8, <1>9, PointersInv

LEMMA PassInv ==
    ASSUME Inv, phase = "solveWorklist", NEW k \in worklist, processPass(k)
    PROVE  Inv'
<1> DEFINE to == {m \in Loc : <<k, m>> \in passes}
           T == PtsOf(stmt(k).src)
<1>1. TypeOK /\ k \in Loc /\ Still /\ stmt(k).kind = "pass"
      /\ UNCHANGED <<phase, connected, inPts, outPts>> /\ inUpdated' = inUpdated
  BY DEF Inv, TypeOK, processPass, graphVars, Still
<1>2. /\ pts' = [v \in Var |-> pts[v] \union IF \E m \in to : v \in stmt(m).dst THEN T ELSE {}]
      /\ worklist' = (worklist \ {k}) \union {m \in to : ~(T \subseteq PtsOf(stmt(m).dst))}
  BY DEF processPass
<1>3. stmt(k)' = stmt(k) /\ stmt(k).src \in SUBSET Var /\ Uses(stmt(k)) = stmt(k).src
  BY <1>1, StmtType, StmtStill DEF Uses
<1>4. T \in SUBSET Obj
  BY <1>1, <1>3, PtsOfType DEF TypeOK
<1>5. \A m \in to : stmt(m).kind = "receive" /\ m \in Loc /\ stmt(m).dst \in SUBSET Var
                    /\ \E v \in Var : stmt(m).dst = {v}
  BY <1>1, StmtType, Operands DEF Inv, GraphShape
<1> HIDE DEF T
<1>6. pts' \in [Var -> SUBSET Obj] /\ Grows
  BY <1>1, <1>2, <1>4 DEF TypeOK, Grows
<1>7. worklist' \subseteq Loc /\ worklist \ {k} \subseteq worklist'
  BY <1>1, <1>2 DEF TypeOK
<1>8. ASSUME NEW l \in Loc PROVE Pushed(l)' \/ SameFor(l)
  <2>1. CASE \E v \in Uses(stmt(l)) : pts'[v] # pts[v]
    <3>1. PICK v \in Uses(stmt(l)) : pts'[v] # pts[v]
      BY <2>1
    <3>2. v \in Var
      BY <1>1, <3>1, StmtType
    <3>3. PICK m \in to : v \in stmt(m).dst /\ ~(T \subseteq pts[v])
      BY <1>2, <3>1, <3>2
    <3>4. stmt(m).dst = {v} /\ PtsOf(stmt(m).dst) = pts[v]
      BY <1>5, <3>3 DEF PtsOf
    <3>5. m \in worklist' /\ stmt(m).kind = "receive"
      BY <1>2, <1>5, <3>3, <3>4
    <3>6. l \in DirectSuccs(m)
      BY <3>1, <3>3, <3>5 DEF DirectSuccs, Defs
    <3>7. stmt(m)' = stmt(m) /\ DirectSuccs(m)' = DirectSuccs(m)
      BY <1>1, <1>5, StmtStill
    <3> QED BY <3>5, <3>6, <3>7 DEF Pushed
  <2> QED BY <1>1, <2>1 DEF SameFor
<1>9. DoneWith(k)' \/ Pushed(k)'
  <2>1. CASE SameFor(k)
    <3>1. PtsOf(stmt(k).src)' = T
      BY <1>3, <2>1 DEF T, PtsOf, SameFor
    <3>2. ASSUME NEW m \in Loc, <<k, m>> \in passes PROVE T \subseteq PtsOf(stmt(m).dst)'
      <4>1. m \in to /\ stmt(m)' = stmt(m)
        BY <1>1, <3>2, StmtStill
      <4>2. PICK v \in Var : stmt(m).dst = {v}
        BY <1>5, <4>1
      <4>3. PtsOf(stmt(m).dst)' = pts'[v]
        BY <4>1, <4>2 DEF PtsOf
      <4> QED BY <1>2, <4>1, <4>2, <4>3
    <3>3. passes' = passes
      BY <1>1 DEF Still
    <3> QED BY <1>1, <1>3, <3>1, <3>2, <3>3 DEF DoneWith
  <2> QED BY <1>1, <1>8, <2>1
<1>10. inUpdated' \in [Loc -> SUBSET Obj]
  BY <1>1 DEF TypeOK
<1> QED BY <1>1, <1>6, <1>7, <1>8, <1>9, <1>10, PointersInv
-----------------------------------------------------------------------------
\* A step in which node k hands the targets of news along its indirect edges.
LEMMA PropagateStep ==
    ASSUME TypeOK, Still, NEW k \in worklist, NEW taken \in SUBSET Obj,
           NEW news \in [Obj -> SUBSET Obj], Propagate(k, taken, news), pts' = pts,
           \A l \in Loc : \A o \in Obj : outPts[l][o] \subseteq outPts'[l][o]
    PROVE  /\ inPts' \in DFPts /\ inUpdated' \in [Loc -> SUBSET Obj]
           /\ worklist' \subseteq Loc /\ worklist \ {k} \subseteq worklist'
           /\ Grows
           /\ \A f \in flows : f.from = k => news[f.obj] \subseteq inPts'[f.to][f.obj]
           /\ \A l \in Loc : Pushed(l)' \/ SameFor(l)
           /\ \A l \in Loc : \A o \in Obj \ inUpdated'[l] :
                inPts'[l][o] = inPts[l][o] /\ (o \in inUpdated[l] => l = k /\ o \in taken)
<1> DEFINE got(m, o) == IF [from |-> k, obj |-> o, to |-> m] \in flows THEN news[o] ELSE {}
           fresh(m)  == {o \in Obj : ~(got(m, o) \subseteq inPts[m][o])}
<1>1. /\ inPts' = [m \in Loc |-> [o \in Obj |-> inPts[m][o] \union got(m, o)]]
      /\ inUpdated' = [m \in Loc |-> (inUpdated[m] \ IF m = k THEN taken ELSE {}) \union fresh(m)]
      /\ worklist' = (worklist \ {k}) \union {m \in Loc : fresh(m) # {}}
  BY DEF Propagate
<1>2. \A m \in Loc : \A o \in Obj : got(m, o) \in SUBSET Obj
  OBVIOUS
<1>3. \A m \in Loc : \A o \in Obj : inPts[m][o] \in SUBSET Obj
  BY DEF TypeOK, DFPts
<1>4. \A m \in Loc : \A o \in Obj : inPts'[m][o] = inPts[m][o] \union got(m, o)
  BY <1>1
<1>5. inPts' \in DFPts
  BY <1>1, <1>2, <1>3 DEF DFPts
<1>6. \A m \in Loc : fresh(m) \in SUBSET Obj
  OBVIOUS
<1>7. inUpdated' \in [Loc -> SUBSET Obj]
  BY <1>1, <1>6 DEF TypeOK
<1>8. worklist' \subseteq Loc /\ worklist \ {k} \subseteq worklist'
  BY <1>1 DEF TypeOK
<1>9. Grows
  <2> HIDE DEF got, fresh
  <2>1. \A m \in Loc : \A o \in Obj : inPts[m][o] \subseteq inPts'[m][o]
    BY <1>4
  <2> QED BY <2>1 DEF Grows
<1>10. \A f \in flows : f \in Flow /\ f = [from |-> f.from, obj |-> f.obj, to |-> f.to]
  BY DEF TypeOK, Flow
<1>11. ASSUME NEW f \in flows, f.from = k PROVE news[f.obj] \subseteq inPts'[f.to][f.obj]
  <2>1. got(f.to, f.obj) = news[f.obj]
    BY <1>10, <1>11
  <2> QED BY <2>1, <1>4, <1>10 DEF Flow
<1>12. ASSUME NEW m \in Loc, NEW o \in Obj, o \notin fresh(m) PROVE inPts'[m][o] = inPts[m][o]
  BY <1>4, <1>12
<1>13. ASSUME NEW m \in Loc PROVE Pushed(m)' \/ SameFor(m)
  <2>1. CASE fresh(m) # {}
    BY <1>1, <2>1 DEF Pushed
  <2>2. CASE fresh(m) = {}
    <3>1. inPts[m] \in [Obj -> SUBSET Obj] /\ inPts'[m] \in [Obj -> SUBSET Obj]
      BY <1>5 DEF TypeOK, DFPts
    <3>2. \A o \in Obj : inPts'[m][o] = inPts[m][o]
      BY <1>12, <2>2
    <3>3. inPts'[m] = inPts[m]
      BY <3>1, <3>2
    <3> QED BY <3>3 DEF SameFor
  <2> QED BY <2>1, <2>2
<1>14. ASSUME NEW m \in Loc, NEW o \in Obj, o \notin inUpdated'[m]
       PROVE  inPts'[m][o] = inPts[m][o] /\ (o \in inUpdated[m] => m = k /\ o \in taken)
  <2>1. o \notin inUpdated[m] \ (IF m = k THEN taken ELSE {}) /\ o \notin fresh(m)
    BY <1>1, <1>14
  <2> QED BY <2>1, <1>12
<1> QED BY <1>5, <1>7, <1>8, <1>9, <1>11, <1>13, <1>14

LEMMA MSSAInv ==
    ASSUME Inv, phase = "solveWorklist", NEW k \in worklist, processMSSA(k)
    PROVE  Inv'
<1> DEFINE news == [o \in Obj |-> IF o \in inUpdated[k] THEN inPts[k][o] ELSE {}]
<1>1. TypeOK /\ k \in Loc /\ Still /\ stmt(k).kind = "mssa" /\ Propagate(k, {}, news)
      /\ phase' = phase /\ pts' = pts /\ outPts' = outPts /\ connected' = connected
  BY DEF Inv, TypeOK, processMSSA, graphVars, Still
<1>2. news \in [Obj -> SUBSET Obj]
  BY <1>1 DEF TypeOK, DFPts
<1>0. {} \in SUBSET Obj /\ \A l \in Loc : \A o \in Obj : outPts[l][o] \subseteq outPts'[l][o]
  BY <1>1
<1> HIDE DEF news
<1>3. /\ inPts' \in DFPts /\ inUpdated' \in [Loc -> SUBSET Obj]
      /\ worklist' \subseteq Loc /\ worklist \ {k} \subseteq worklist' /\ Grows
      /\ \A f \in flows : f.from = k => news[f.obj] \subseteq inPts'[f.to][f.obj]
      /\ \A l \in Loc : Pushed(l)' \/ SameFor(l)
      /\ \A l \in Loc : \A o \in Obj \ inUpdated'[l] :
           inPts'[l][o] = inPts[l][o] /\ (o \in inUpdated[l] => l = k /\ o \in {})
  BY ONLY <1>0, <1>1, <1>2, k \in worklist, PropagateStep
<1>4. TypeOK'
  BY <1>1, <1>3 DEF TypeOK, Still
<1>5. GraphShape' /\ AtRest'
  BY <1>1, StmtStill DEF Inv, GraphShape, AtRest, Still, TypeOK, Flow
<1>6. FlagsRight'
  <2> SUFFICES ASSUME NEW l \in Loc, NEW o \in Obj, o \notin inUpdated'[l]
               PROVE  /\ stmt(l)'.kind = "load" => inPts'[l][o] \subseteq PtsOf(stmt(l).dst)'
                      /\ stmt(l)'.kind = "store" => inPts'[l][o] \subseteq outPts'[l][o]
                      /\ stmt(l)'.kind = "mssa" => inPts'[l][o] = {}
    BY DEF FlagsRight
  <2>1. stmt(l)' = stmt(l) /\ PtsOf(stmt(l).dst)' = PtsOf(stmt(l).dst)
    BY <1>1, StmtStill DEF PtsOf
  <2>2. o \notin inUpdated[l] /\ inPts'[l][o] = inPts[l][o]
    BY <1>3
  <2> QED BY <1>1, <2>1, <2>2 DEF Inv, FlagsRight
<1>7. StoresDelivered'
  <2> SUFFICES ASSUME NEW f \in flows', stmt(f.from)'.kind = "store"
               PROVE  outPts'[f.from][f.obj] \subseteq inPts'[f.to][f.obj]
    BY DEF StoresDelivered
  <2>1. f \in flows /\ f.from \in Loc /\ f.to \in Loc /\ f.obj \in Obj
    BY <1>1 DEF Still, TypeOK, Flow
  <2>2. outPts[f.from][f.obj] \subseteq inPts[f.to][f.obj]
    BY <2>1, <1>1, StmtStill DEF Inv, StoresDelivered
  <2> QED BY <1>1, <1>3, <2>1, <2>2 DEF Grows
<1>8. \A l \in Loc : Silent(l)' /\ Kills(l)'
  <2>1. pts' \in [Var -> SUBSET Obj]
    BY <1>1 DEF TypeOK
  <2> QED BY <1>1, <1>3, <2>1, StoresQuiet DEF Inv, BlockedSilent, StrongUpdateKills, Silent, Kills
<1>9. DoneWith(k)' \/ Pushed(k)'
  <2>1. CASE SameFor(k)
    <3>1. ASSUME NEW f \in flows, f.from = k PROVE inPts[k][f.obj] \subseteq inPts'[f.to][f.obj]
      <4>1. f.obj \in Obj
        BY DEF Inv, TypeOK, Flow
      <4>2. CASE f.obj \in inUpdated[k]
        BY <1>3, <3>1, <4>1, <4>2 DEF news
      <4>3. CASE f.obj \notin inUpdated[k]
        BY <1>1, <4>1, <4>3 DEF Inv, FlagsRight
      <4> QED BY <4>2, <4>3
    <3>2. stmt(k)' = stmt(k) /\ inPts'[k] = inPts[k] /\ flows' = flows
      BY <1>1, <2>1, StmtStill DEF SameFor, Still
    <3> QED BY <1>1, <3>1, <3>2 DEF DoneWith
  <2> QED BY <1>1, <1>3, <2>1
<1>10. NoNewsLost'
  <2>1. \A l \in Loc : Pushed(l)' \/ (l # k /\ SameFor(l)) \/ DoneWith(l)'
    BY <1>3, <1>9
  <2> QED BY <2>1, <1>1, <1>3, NothingLost
<1> QED BY <1>4, <1>5, <1>6, <1>7, <1>8, <1>10 DEF Inv, BlockedSilent, StrongUpdateKills, Silent, Kills

LEMMA StoreInv ==
    ASSUME Inv, phase = "solveWorklist", NEW k \in worklist, processStore(k)
    PROVE  Inv'
<1> DEFINE out(o) == stored(k, o)
           news == [o \in Obj |-> IF out(o) = outPts[k][o] THEN {} ELSE out(o)]
           s == stmt(k)
<1>1. TypeOK /\ k \in Loc /\ Still /\ s.kind = "store" /\ ~blocked(k)
      /\ phase' = phase /\ pts' = pts /\ connected' = connected
  BY DEF Inv, TypeOK, processStore, graphVars, Still
<1>2. outPts' = [outPts EXCEPT ![k] = [o \in Obj |-> out(o)]] /\ Propagate(k, passed(k), news)
  BY DEF processStore
<1>3. s.src \in SUBSET Var /\ s.dst \in SUBSET Var /\ \A l \in Loc : stmt(l)' = stmt(l)
  BY <1>1, StmtType, StmtStill
<1>4. PtsOf(s.src) \subseteq Obj /\ PtsOf(s.dst) \subseteq Obj
  BY <1>1, <1>3, PtsOfType DEF TypeOK
<1>5. \A o \in Obj : out(o) \in SUBSET Obj /\ outPts[k][o] \subseteq out(o)
  BY <1>1, <1>4 DEF stored, TypeOK, DFPts
<1>6. \A o \in Obj : /\ o \in passed(k) => inPts[k][o] \subseteq out(o)
                     /\ o \in Touched(s.dst) => PtsOf(s.src) \subseteq out(o)
                     /\ o \in overwritten(k) => out(o) \subseteq outPts[k][o] \union PtsOf(s.src)
  BY DEF stored, passed
<1>7. passed(k) \in SUBSET Obj
  BY <1>1 DEF passed, TypeOK
<1> HIDE DEF out
<1>8. news \in [Obj -> SUBSET Obj] /\ \A o \in Obj : out(o) = outPts[k][o] \/ news[o] = out(o)
  BY <1>5
<1> HIDE DEF news
<1>9. outPts' \in DFPts /\ (\A o \in Obj : outPts'[k][o] = out(o))
      /\ \A l \in Loc : l # k => outPts'[l] = outPts[l]
  BY <1>1, <1>2, <1>5 DEF TypeOK, DFPts
<1>10. \A l \in Loc : \A o \in Obj : outPts[l][o] \subseteq outPts'[l][o]
  BY <1>5, <1>9
<1>11. /\ inPts' \in DFPts /\ inUpdated' \in [Loc -> SUBSET Obj]
       /\ worklist' \subseteq Loc /\ worklist \ {k} \subseteq worklist' /\ Grows
       /\ \A f \in flows : f.from = k => news[f.obj] \subseteq inPts'[f.to][f.obj]
       /\ \A l \in Loc : Pushed(l)' \/ SameFor(l)
       /\ \A l \in Loc : \A o \in Obj \ inUpdated'[l] :
            inPts'[l][o] = inPts[l][o] /\ (o \in inUpdated[l] => l = k /\ o \in passed(k))
  BY ONLY <1>1, <1>2, <1>7, <1>8, <1>10, k \in worklist, PropagateStep
<1>12. TypeOK'
  BY <1>1, <1>9, <1>11 DEF TypeOK, Still
<1>13. GraphShape' /\ AtRest'
  BY <1>1, StmtStill DEF Inv, GraphShape, AtRest, Still, TypeOK, Flow
<1>14. \A o \in Obj \ inUpdated[k] : inPts[k][o] \subseteq out(o)
  BY <1>1, <1>5 DEF Inv, FlagsRight
<1>15. FlagsRight'
  <2> SUFFICES ASSUME NEW l \in Loc, NEW o \in Obj, o \notin inUpdated'[l]
               PROVE  /\ stmt(l)'.kind = "load" => inPts'[l][o] \subseteq PtsOf(stmt(l).dst)'
                      /\ stmt(l)'.kind = "store" => inPts'[l][o] \subseteq outPts'[l][o]
                      /\ stmt(l)'.kind = "mssa" => inPts'[l][o] = {}
    BY DEF FlagsRight
  <2>1. stmt(l)' = stmt(l) /\ PtsOf(stmt(l).dst)' = PtsOf(stmt(l).dst)
    BY <1>1, <1>3 DEF PtsOf
  <2>2. inPts'[l][o] = inPts[l][o] /\ (o \in inUpdated[l] => l = k /\ o \in passed(k))
    BY <1>11
  <2>3. CASE l = k
    BY <1>1, <1>6, <1>9, <1>14, <2>1, <2>2, <2>3
  <2>4. CASE l # k
    BY <1>9, <2>1, <2>2, <2>4 DEF Inv, FlagsRight
  <2> QED BY <2>3, <2>4
<1>16. StoresDelivered'
  <2> SUFFICES ASSUME NEW f \in flows', stmt(f.from)'.kind = "store"
               PROVE  outPts'[f.from][f.obj] \subseteq inPts'[f.to][f.obj]
    BY DEF StoresDelivered
  <2>1. f \in flows /\ f.from \in Loc /\ f.to \in Loc /\ f.obj \in Obj
    BY <1>1 DEF Still, TypeOK, Flow
  <2>2. outPts[f.from][f.obj] \subseteq inPts'[f.to][f.obj]
    BY <2>1, <1>3, <1>11 DEF Inv, StoresDelivered, Grows
  <2>3. CASE f.from = k
    BY <1>8, <1>9, <1>11, <2>1, <2>2, <2>3
  <2>4. CASE f.from # k
    BY <1>9, <2>1, <2>2, <2>4
  <2> QED BY <2>3, <2>4
<1>17. \A l \in Loc : Silent(l)' /\ Kills(l)'
  <2> SUFFICES ASSUME NEW l \in Loc PROVE Silent(l)' /\ Kills(l)'
    OBVIOUS
  <2>1. CASE l # k
    <3>1. pts' \in [Var -> SUBSET Obj] /\ outPts'[l] = outPts[l]
      BY <1>1, <1>9, <2>1 DEF TypeOK
    <3>2. Silent(l) /\ Kills(l)
      BY DEF Inv, BlockedSilent, StrongUpdateKills, Silent, Kills
    <3> QED BY <1>1, <1>11, <3>1, <3>2, StoresQuiet
  <2>2. CASE l = k
    <3>1. PtsOf(s.dst)' = PtsOf(s.dst) /\ PtsOf(s.src)' = PtsOf(s.src) /\ stmt(k)' = s
      BY <1>1, <1>3 DEF PtsOf
    <3>2. blocked(k)' = blocked(k) /\ overwritten(k)' = overwritten(k)
      BY <1>1, <3>1 DEF blocked, overwritten, Still
    <3>3. Silent(k)'
      BY <1>1, <3>2 DEF Silent
    <3>4. \A o \in overwritten(k) : o \in Obj /\ outPts[k][o] \subseteq PtsOf(s.src)
      BY <1>1, <1>4 DEF Inv, StrongUpdateKills, overwritten
    <3>5. \A o \in overwritten(k) : outPts'[k][o] \subseteq PtsOf(s.src)
      BY <1>6, <1>9, <3>4
    <3> QED BY <2>2, <3>1, <3>2, <3>3, <3>5 DEF Kills
  <2> QED BY <2>1, <2>2
<1>18. DoneWith(k)' \/ Pushed(k)'
  <2>1. CASE SameFor(k)
    <3>1. PtsOf(s.dst)' = PtsOf(s.dst) /\ PtsOf(s.src)' = PtsOf(s.src) /\ stmt(k)' = s
          /\ inPts'[k] = inPts[k]
      BY <1>1, <1>3, <2>1 DEF PtsOf, SameFor
    <3>2. overwritten(k)' = overwritten(k) /\ Touched(s.dst)' = Touched(s.dst) /\ Touched(s.dst) \subseteq Obj
      BY <1>1, <1>4, <3>1 DEF overwritten, Touched, Still
    <3>3. \A o \in Touched(s.dst) : PtsOf(s.src) \subseteq outPts'[k][o]
      BY <1>6, <1>9, <3>2
    <3>4. \A o \in Obj \ overwritten(k) : inPts[k][o] \subseteq outPts'[k][o]
      BY <1>6, <1>9, <1>14 DEF passed
    <3> QED BY <1>1, <3>1, <3>2, <3>3, <3>4 DEF DoneWith
  <2> QED BY <1>1, <1>11, <2>1
<1>19. NoNewsLost'
  <2>1. \A l \in Loc : Pushed(l)' \/ (l # k /\ SameFor(l)) \/ DoneWith(l)'
    BY <1>11, <1>18
  <2> QED BY <2>1, <1>1, <1>11, NothingLost
<1> QED BY <1>12, <1>13, <1>15, <1>16, <1>17, <1>19
        DEF Inv, BlockedSilent, StrongUpdateKills, Silent, Kills
-----------------------------------------------------------------------------
\* Steps that change nothing but the work list and the phase.
Quiet == UNCHANGED <<prog, passes, flows, pts, inPts, outPts, inUpdated, connected>>

LEMMA QuietInv ==
    ASSUME Inv, Quiet, worklist' \subseteq Loc, AtRest',
           phase' \in {"initWorklist", "solveWorklist", "updateCallGraph", "done"},
           \A l \in Loc : Due(l)' \/ DoneWith(l)
    PROVE  Inv'
<1> USE DEF Quiet
<1>1. TypeOK'
  BY DEF Inv, TypeOK
<1>2. \A l : stmt(l)' = stmt(l)
  BY DEF stmt
<1>3. \A l : blocked(l)' = blocked(l) /\ overwritten(l)' = overwritten(l)
  BY DEF blocked, overwritten, PtsOf, stmt
<1>4. GraphShape'
  BY <1>2 DEF Inv, GraphShape
<1>5. FlagsRight'
  BY <1>2 DEF Inv, FlagsRight, PtsOf, stmt
<1>6. StoresDelivered'
  BY <1>2 DEF Inv, StoresDelivered
<1>7. BlockedSilent'
  BY <1>2, <1>3 DEF Inv, BlockedSilent
<1>8. StrongUpdateKills'
  BY <1>2, <1>3 DEF Inv, StrongUpdateKills, PtsOf, stmt
<1>9. \A l \in Loc : DoneWith(l)' = DoneWith(l)
  BY DEF DoneWith, PtsOf, stmt, blocked, overwritten, Touched
<1>10. NoNewsLost'
  BY <1>9 DEF NoNewsLost
<1> QED BY <1>1, <1>4, <1>5, <1>6, <1>7, <1>8, <1>10 DEF Inv

LEMMA SkipInv ==
    ASSUME Inv, phase = "solveWorklist", NEW k \in worklist, skipStore(k)
    PROVE  Inv'
<1>1. TypeOK /\ k \in Loc /\ Quiet /\ phase' = phase /\ worklist' = worklist \ {k}
      /\ stmt(k).kind = "store" /\ blocked(k)
  BY DEF Inv, TypeOK, skipStore, graphVars, Quiet
<1>2. DoneWith(k)
  BY <1>1 DEF DoneWith, blocked, Touched
<1>3. \A l \in Loc : Due(l)' \/ DoneWith(l)
  <2> SUFFICES ASSUME NEW l \in Loc, l # k, ~DoneWith(l) PROVE Due(l)'
    BY <1>2
  <2>1. l \in worklist \/ \E m \in worklist : stmt(m).kind = "receive" /\ l \in DirectSuccs(m)
    BY DEF Inv, NoNewsLost, Due
  <2>2. \A m : stmt(m)' = stmt(m) /\ DirectSuccs(m)' = DirectSuccs(m)
    BY <1>1 DEF stmt, DirectSuccs, Quiet
  <2> QED BY <1>1, <2>1, <2>2 DEF Due
<1>4. AtRest' /\ worklist' \subseteq Loc
  BY <1>1 DEF AtRest, TypeOK
<1> QED BY <1>1, <1>3, <1>4, QuietInv

LEMMA ReceiveInv ==
    ASSUME Inv, phase = "solveWorklist", NEW k \in worklist, processReceive(k)
    PROVE  Inv'
<1>1. TypeOK /\ k \in Loc /\ Quiet /\ phase' = phase /\ worklist' = (worklist \ {k}) \union DirectSuccs(k)
      /\ stmt(k).kind = "receive"
  BY DEF Inv, TypeOK, processReceive, graphVars, Quiet
<1>2. DoneWith(k)
  BY <1>1 DEF DoneWith
<1>3. \A l \in Loc : Due(l)' \/ DoneWith(l)
  <2> SUFFICES ASSUME NEW l \in Loc, l # k, ~DoneWith(l) PROVE Due(l)'
    BY <1>2
  <2>1. l \in worklist \/ \E m \in worklist : stmt(m).kind = "receive" /\ l \in DirectSuccs(m)
    BY DEF Inv, NoNewsLost, Due
  <2>2. \A m : stmt(m)' = stmt(m) /\ DirectSuccs(m)' = DirectSuccs(m)
    BY <1>1 DEF stmt, DirectSuccs, Quiet
  <2> QED BY <1>1, <2>1, <2>2 DEF Due
<1>4. AtRest' /\ worklist' \subseteq Loc
  BY <1>1 DEF AtRest, TypeOK, DirectSuccs
<1> QED BY <1>1, <1>3, <1>4, QuietInv

LEMMA InitWorklistInv == ASSUME Inv, InitWorklist PROVE Inv'
<1>1. Quiet /\ worklist' = Loc /\ phase' = "solveWorklist"
  BY DEF InitWorklist, Quiet
<1>2. AtRest' /\ \A l \in Loc : Due(l)'
  BY <1>1 DEF AtRest, Due
<1> QED BY <1>1, <1>2, QuietInv

LEMMA SolveEndsInv == ASSUME Inv, SolveEnds PROVE Inv'
<1>1. Quiet /\ worklist' = worklist /\ worklist = {} /\ phase = "solveWorklist" /\ phase' = "updateCallGraph"
  BY DEF SolveEnds, Quiet
<1>2. AtRest' /\ \A l \in Loc : DoneWith(l)
  BY <1>1 DEF AtRest, Inv, NoNewsLost, Due
<1> QED BY <1>1, <1>2, QuietInv

\* With every callee already connected nothing changes but the phase.
LEMMA NoCallsInv == ASSUME Inv, updateCallGraph, newCalls = {} PROVE Inv'
<1>1. TypeOK /\ worklist = {}
  BY DEF Inv, AtRest, updateCallGraph
<1>2. \A m, o : carried({}, m, o) = {}
  BY DEF carried
<1>3. UNION {c.flows : c \in newCalls} = {} /\ UNION {c.passes : c \in newCalls} = {}
  OBVIOUS
<1>4. phase' = "done" /\ connected' = connected /\ passes' = passes /\ flows' = flows
      /\ UNCHANGED <<prog, pts, outPts>>
  BY <1>3 DEF updateCallGraph
<1>5. inPts' = [m \in Loc |-> [o \in Obj |-> inPts[m][o] \union carried({}, m, o)]]
  BY <1>3 DEF updateCallGraph
<1>6. inPts' = [m \in Loc |-> [o \in Obj |-> inPts[m][o]]]
  BY <1>2, <1>5
<1>7. \A m \in Loc : inPts'[m] = inPts[m]
  BY <1>1, <1>6 DEF TypeOK, DFPts
<1>8. inPts' = inPts
  BY <1>1, <1>6, <1>7 DEF TypeOK, DFPts
<1>9. \A m \in Loc : {o \in Obj : ~(carried({}, m, o) \subseteq inPts[m][o])} = {}
  BY <1>2
<1>10. /\ worklist' = {m \in Loc : {o \in Obj : ~(carried({}, m, o) \subseteq inPts[m][o])} # {}}
       /\ inUpdated' = [m \in Loc |-> inUpdated[m] \union {o \in Obj : ~(carried({}, m, o) \subseteq inPts[m][o])}]
  BY <1>3 DEF updateCallGraph
<1>11. worklist' = {} /\ inUpdated' = [m \in Loc |-> inUpdated[m]]
  BY <1>9, <1>10
<1>12. inUpdated' = inUpdated
  BY <1>1, <1>11 DEF TypeOK
<1>13. Quiet
  BY <1>4, <1>8, <1>12 DEF Quiet
<1>14. phase = "updateCallGraph"
  BY DEF updateCallGraph
<1>15. newCalls' = newCalls
  BY <1>13 DEF newCalls, Quiet
<1>16. AtRest' /\ \A l \in Loc : DoneWith(l)
  BY <1>1, <1>11, <1>14, <1>15 DEF AtRest, Inv, NoNewsLost, Due
<1> QED BY <1>4, <1>11, <1>13, <1>16, QuietInv

\* With new callees everything is due again; their edges join nodes of calls,
\* and what they carry at once is flagged.
LEMMA NewCallsInv == ASSUME Inv, updateCallGraph, newCalls # {} PROVE Inv'
<1> DEFINE E == UNION {c.flows : c \in newCalls}
           more(m, o) == carried(E, m, o)
           fresh(m) == {o \in Obj : ~(more(m, o) \subseteq inPts[m][o])}
<1>1. /\ phase' = "initWorklist" /\ UNCHANGED <<prog, pts, outPts>>
      /\ connected' = connected \union newCalls
      /\ passes' = passes \union UNION {c.passes : c \in newCalls}
      /\ flows' = flows \union E
      /\ inPts' = [m \in Loc |-> [o \in Obj |-> inPts[m][o] \union more(m, o)]]
      /\ inUpdated' = [m \in Loc |-> inUpdated[m] \union fresh(m)]
      /\ worklist' = {m \in Loc : fresh(m) # {}}
  BY DEF updateCallGraph
<1>2. TypeOK /\ prog \in Program /\ WellFormed(prog)
  BY ProgramsAssumption DEF Inv, TypeOK
<1>3. newCalls \subseteq prog.calls /\ prog.calls \subseteq Call
  BY <1>2 DEF newCalls, Program
<1>4. E \subseteq Flow /\ UNION {c.passes : c \in newCalls} \subseteq Loc \X Loc
  BY <1>3 DEF Call
<1>5. \A f \in E : stmt(f.from).kind = "mssa"
  BY <1>2, <1>3 DEF WellFormed, stmt
<1>6. \A e \in UNION {c.passes : c \in newCalls} : stmt(e[1]).kind = "pass" /\ stmt(e[2]).kind = "receive"
  BY <1>2, <1>3 DEF WellFormed, stmt
<1>7. \A m \in Loc, o \in Obj : inPts[m][o] \in SUBSET Obj
  BY <1>2 DEF TypeOK, DFPts
<1>8. \A m, o : o \in Obj => more(m, o) \in SUBSET Obj
  BY <1>4, <1>7 DEF carried, Flow
<1>9. \A m : stmt(m)' = stmt(m)
  BY <1>1 DEF stmt
<1> HIDE DEF E, more
<1>10. \A m \in Loc : fresh(m) \in SUBSET Obj
  OBVIOUS
<1>11. inPts' \in DFPts
  BY <1>1, <1>7, <1>8 DEF DFPts
<1>12. \A m \in Loc, o \in Obj : inPts[m][o] \subseteq inPts'[m][o]
  BY <1>1
<1>13. ASSUME NEW m \in Loc, NEW o \in Obj, o \notin inUpdated'[m]
       PROVE  o \notin inUpdated[m] /\ inPts'[m][o] = inPts[m][o]
  <2>1. o \notin inUpdated[m] /\ o \notin fresh(m)
    BY <1>1, <1>13
  <2> QED BY <1>1, <2>1
<1>14. inUpdated' \in [Loc -> SUBSET Obj]
  BY <1>1, <1>2, <1>10 DEF TypeOK
<1>15. worklist' \subseteq Loc
  BY <1>1
<1> HIDE DEF fresh
<1>16. TypeOK'
  BY <1>1, <1>2, <1>3, <1>4, <1>11, <1>14, <1>15 DEF TypeOK
<1>17. GraphShape'
  BY <1>1, <1>5, <1>6, <1>9 DEF Inv, GraphShape
<1>18. FlagsRight'
  BY <1>1, <1>9, <1>13 DEF Inv, FlagsRight, PtsOf
<1>19. StoresDelivered'
  <2> SUFFICES ASSUME NEW f \in flows', stmt(f.from)'.kind = "store"
               PROVE  outPts'[f.from][f.obj] \subseteq inPts'[f.to][f.obj]
    BY DEF StoresDelivered
  <2>1. f \in flows /\ f.to \in Loc /\ f.obj \in Obj
    BY <1>1, <1>2, <1>5, <1>9 DEF TypeOK, Flow
  <2>2. outPts[f.from][f.obj] \subseteq inPts[f.to][f.obj]
    BY <1>9, <2>1 DEF Inv, StoresDelivered
  <2> QED BY <1>1, <1>12, <2>1, <2>2
<1>20. \A l : blocked(l)' = blocked(l) /\ overwritten(l)' = overwritten(l)
  BY <1>1 DEF blocked, overwritten, PtsOf, stmt
<1>21. BlockedSilent'
  BY <1>1, <1>9, <1>20 DEF Inv, BlockedSilent
<1>22. StrongUpdateKills'
  BY <1>1, <1>9, <1>20 DEF Inv, StrongUpdateKills, PtsOf
<1>23. NoNewsLost' /\ AtRest'
  BY <1>1 DEF NoNewsLost, Due, AtRest
<1> QED BY <1>16, <1>17, <1>18, <1>19, <1>21, <1>22, <1>23 DEF Inv
-----------------------------------------------------------------------------
LEMMA InitInv == ASSUME Init PROVE Inv
<1>1. prog \in Program /\ WellFormed(prog)
  BY ProgramsAssumption DEF Init
<1>2. TypeOK
  BY <1>1 DEF Init, TypeOK, DFPts, Program
<1>3. GraphShape
  BY <1>1 DEF Init, GraphShape, WellFormed, stmt
<1>4. (\A l \in Loc : \A o \in Obj : inPts[l][o] = {} /\ outPts[l][o] = {}) /\ phase = "initWorklist"
  BY DEF Init
<1>5. FlagsRight /\ BlockedSilent /\ AtRest /\ NoNewsLost
  BY <1>4 DEF FlagsRight, BlockedSilent, AtRest, NoNewsLost, Due
<1>6. StoresDelivered
  BY <1>2, <1>4 DEF StoresDelivered, TypeOK, Flow
<1>7. StrongUpdateKills
  <2> SUFFICES ASSUME NEW l \in Loc, NEW o \in overwritten(l) PROVE outPts[l][o] \subseteq PtsOf(stmt(l).src)
    BY DEF StrongUpdateKills
  <2>1. stmt(l).dst \in SUBSET Var
    BY <1>2, StmtType
  <2>2. o \in Obj
    BY <2>1, <1>2, PtsOfType DEF overwritten, TypeOK
  <2> QED BY <2>2, <1>4
<1> QED BY <1>2, <1>3, <1>5, <1>6, <1>7 DEF Inv

\* The invariant is inductive: each action keeps it.
LEMMA StepInv == ASSUME Inv, [Next]_vars PROVE Inv'
<1>1. CASE InitWorklist
  BY <1>1, InitWorklistInv
<1>2. CASE processNode
  <2>1. PICK k \in worklist : processSVFGNode(k) /\ phase = "solveWorklist"
    BY <1>2 DEF processNode
  <2> QED BY <2>1, AddrInv, CopyInv, LoadInv, StoreInv, SkipInv, MSSAInv, PassInv, ReceiveInv DEF processSVFGNode
<1>3. CASE SolveEnds
  BY <1>3, SolveEndsInv
<1>4. CASE updateCallGraph
  BY <1>4, NoCallsInv, NewCallsInv
<1>5. CASE UNCHANGED vars
  <2>1. Quiet /\ worklist' = worklist /\ phase' = phase
    BY <1>5 DEF Quiet, vars
  <2>2. AtRest' /\ \A l \in Loc : Due(l)' \/ DoneWith(l)
    BY <1>5 DEF Inv, AtRest, NoNewsLost, Due, vars, DirectSuccs, stmt, newCalls
  <2> QED BY <2>1, <2>2, QuietInv DEF Inv, TypeOK
<1> QED BY <1>1, <1>2, <1>3, <1>4, <1>5 DEF Next, Finished

THEOREM Invariance == Spec => []Inv
<1>1. Init => Inv
  BY InitInv
<1>2. Inv /\ [Next]_vars => Inv'
  BY StepInv
<1> QED BY <1>1, <1>2, PTL DEF Spec

\* The variables keep their types.
THEOREM TypeCorrect == Spec => []TypeOK
<1>1. Inv => TypeOK
  BY DEF Inv
<1> QED BY <1>1, Invariance, PTL

\* Flags taken early lose nothing: a node that is not due has handed on all it
\* knows (PersistentIncDFPTData, processLoad, processStore).
THEOREM NewsKept == Spec => []NoNewsLost
<1>1. Inv => NoNewsLost
  BY DEF Inv
<1> QED BY <1>1, Invariance, PTL

\* No earlier target passes a store that overwrites its object.
THEOREM StrongUpdatesKill == Spec => []StrongUpdateKills
<1>1. Inv => StrongUpdateKills
  BY DEF Inv
<1> QED BY <1>1, Invariance, PTL

\* When the analysis returns, every node is done with, every store's OUT sets are
\* in the IN sets after it, and every callee is connected: what it returns is
\* sound for the graph it has built (solveConstraints).
Closed == phase = "done" => /\ newCalls = {}
                            /\ \A l \in Loc : DoneWith(l)
                            /\ \A f \in flows : stmt(f.from).kind = "store" =>
                                 outPts[f.from][f.obj] \subseteq inPts[f.to][f.obj]
THEOREM ClosedAtTheEnd == Spec => []Closed
<1>1. Inv => Closed
  BY DEF Inv, Closed, AtRest, NoNewsLost, Due, StoresDelivered
<1> QED BY <1>1, Invariance, PTL

-----------------------------------------------------------------------------
(* Precision.  S satisfies the equations of every node, or has more than    *)
(* they ask for; the analysis stays below every such S.                     *)
Holds(S) ==
    /\ \A l \in Loc : \A v \in Defs(stmt(l)) : Defined(S, l) \subseteq S.pts[v]
    /\ \A f \in flows : Carried(S, f) \subseteq S.inPts[f.to][f.obj]
    /\ \A l \in Loc : \A o \in Obj : Written(S, l, o) \subseteq S.outPts[l][o]
Below(S) ==
    /\ \A v \in Var : pts[v] \subseteq S.pts[v]
    /\ \A l \in Loc : \A o \in Obj : /\ inPts[l][o] \subseteq S.inPts[l][o]
                                     /\ outPts[l][o] \subseteq S.outPts[l][o]
PreciseInv == \A S \in Solution : Holds(S) => Below(S)
\* A call is connected because its pointer has the function.
CallsFound == \A c \in connected : c.fun \in pts[c.fp]

\* What the equations say of each kind of node.
LEMMA DefinedBy ==
    ASSUME NEW S, NEW l \in Loc
    PROVE  /\ stmt(l).kind = "addr" => Defined(S, l) = stmt(l).obj
           /\ stmt(l).kind = "copy" => Defined(S, l) = AnyPts(S, stmt(l).src)
           /\ stmt(l).kind = "load" =>
                Defined(S, l) = UNION {S.inPts[l][o] : o \in AnyPts(S, stmt(l).src) \ prog.const}
           /\ stmt(l).kind = "receive" =>
                Defined(S, l) = UNION {AnyPts(S, stmt(m).src) : m \in {k \in Loc : <<k, l>> \in passes}}
           /\ stmt(l).kind \notin {"addr", "copy", "load", "receive"} => Defined(S, l) = {}
<1> DEFINE k == stmt(l).kind
<1>1. CASE k = "addr"
  <2>1. Defined(S, l) = stmt(l).obj
    BY <1>1, Zenon DEF Defined
  <2> QED BY <1>1, <2>1
<1>2. CASE k = "copy"
  <2>1. k # "addr"
    BY <1>2
  <2>2. Defined(S, l) = AnyPts(S, stmt(l).src)
    BY <1>2, <2>1, Zenon DEF Defined
  <2> QED BY <1>2, <2>2
<1>3. CASE k = "load"
  <2>1. k # "addr" /\ k # "copy"
    BY <1>3
  <2>2. Defined(S, l) = UNION {S.inPts[l][o] : o \in AnyPts(S, stmt(l).src) \ prog.const}
    BY <1>3, <2>1, Zenon DEF Defined
  <2> QED BY <1>3, <2>2
<1>4. CASE k = "receive"
  <2>1. k # "addr" /\ k # "copy" /\ k # "load"
    BY <1>4
  <2>2. Defined(S, l) = UNION {AnyPts(S, stmt(m).src) : m \in {j \in Loc : <<j, l>> \in passes}}
    BY <1>4, <2>1, Zenon DEF Defined
  <2> QED BY <1>4, <2>2
<1>5. CASE k \notin {"addr", "copy", "load", "receive"}
  <2>1. k # "addr" /\ k # "copy" /\ k # "load" /\ k # "receive"
    BY <1>5
  <2>2. Defined(S, l) = {}
    BY <2>1, Zenon DEF Defined
  <2> QED BY <2>1, <2>2
<1> QED BY <1>1, <1>2, <1>3, <1>4, <1>5

LEMMA WrittenBy ==
    ASSUME NEW S, NEW l, NEW o
    PROVE  LET P == AnyPts(S, stmt(l).dst) IN
           /\ stmt(l).kind # "store" \/ P = {} => Written(S, l, o) = {}
           /\ stmt(l).kind = "store" /\ P # {} =>
                /\ o \in P \ prog.const => AnyPts(S, stmt(l).src) \subseteq Written(S, l, o)
                /\ ~(P = {o} /\ o \notin prog.weak) => S.inPts[l][o] \subseteq Written(S, l, o)
                /\ Written(S, l, o) \subseteq
                     (IF o \in P \ prog.const THEN AnyPts(S, stmt(l).src) ELSE {})
                     \union (IF P = {o} /\ o \notin prog.weak THEN {} ELSE S.inPts[l][o])
BY DEF Written

\* Nodes that read from below S.
LEMMA BelowSets ==
    ASSUME NEW S, Below(S), NEW V \in SUBSET Var
    PROVE  PtsOf(V) \subseteq AnyPts(S, V)
BY DEF Below, PtsOf, AnyPts

LEMMA SameEquations ==
    ASSUME Still, NEW S
    PROVE  Holds(S)' <=> Holds(S)
BY DEF Still, Holds, Defined, Carried, Written, AnyPts, stmt

LEMMA DefineBelow ==
    ASSUME TypeOK, NEW S, Holds(S), Below(S), NEW l \in Loc, stmt(l).kind # "store",
           NEW T, T \subseteq Defined(S, l), Define(l, T), UNCHANGED <<inPts, outPts>>
    PROVE  Below(S)'
<1>1. ASSUME NEW v \in Var PROVE pts'[v] \subseteq S.pts[v]
  <2>1. pts'[v] = IF v \in stmt(l).dst THEN pts[v] \union T ELSE pts[v]
    BY DEF Define
  <2>2. v \in stmt(l).dst => T \subseteq S.pts[v]
    BY DEF Holds, Defs
  <2> QED BY <2>1, <2>2 DEF Below
<1> QED BY <1>1 DEF Below

LEMMA PropagateBelow ==
    ASSUME TypeOK, NEW S, Holds(S), Below(S), NEW l \in Loc, NEW taken, NEW news \in [Obj -> SUBSET Obj],
           \A f \in flows : f.from = l => news[f.obj] \subseteq Carried(S, f),
           Propagate(l, taken, news)
    PROVE  \A m \in Loc : \A o \in Obj : inPts'[m][o] \subseteq S.inPts[m][o]
<1> SUFFICES ASSUME NEW m \in Loc, NEW o \in Obj PROVE inPts'[m][o] \subseteq S.inPts[m][o]
  OBVIOUS
<1> DEFINE f == [from |-> l, obj |-> o, to |-> m]
<1>1. inPts'[m][o] = inPts[m][o] \union IF f \in flows THEN news[o] ELSE {}
  BY DEF Propagate
<1>2. f \in flows => news[o] \subseteq S.inPts[m][o]
  BY DEF Holds
<1> QED BY <1>1, <1>2 DEF Below

LEMMA StoreBelow ==
    ASSUME Inv, NEW S, Holds(S), Below(S), NEW l \in Loc, processStore(l)
    PROVE  Below(S)'
<1> DEFINE P == AnyPts(S, stmt(l).dst)
           news == [o \in Obj |-> IF stored(l, o) = outPts[l][o] THEN {} ELSE stored(l, o)]
<1>1. /\ TypeOK /\ stmt(l).kind = "store" /\ ~blocked(l) /\ pts' = pts
      /\ outPts' = [outPts EXCEPT ![l] = [o \in Obj |-> stored(l, o)]]
      /\ Propagate(l, passed(l), news)
  BY DEF processStore, Inv
<1>2. stmt(l).src \in SUBSET Var /\ stmt(l).dst \in SUBSET Var
  BY <1>1, StmtType
<1>3. PtsOf(stmt(l).src) \subseteq AnyPts(S, stmt(l).src) /\ PtsOf(stmt(l).dst) \subseteq P
  BY <1>2, BelowSets
<1>4. P # {}
  BY <1>1, <1>3 DEF blocked
<1>5. ASSUME NEW o \in Obj PROVE stored(l, o) \subseteq S.outPts[l][o] /\ stored(l, o) \subseteq Obj
  <2>1. Written(S, l, o) \subseteq S.outPts[l][o]
    BY DEF Holds
  <2>2. o \in Touched(stmt(l).dst) => PtsOf(stmt(l).src) \subseteq Written(S, l, o)
    BY <1>1, <1>3, <1>4, WrittenBy DEF Touched
  <2>3. ASSUME o \notin overwritten(l) PROVE inPts[l][o] \subseteq Written(S, l, o)
    <3>1. ~(P = {o} /\ o \notin prog.weak)
      <4> SUFFICES ASSUME P = {o}, o \notin prog.weak PROVE FALSE
        OBVIOUS
      <4>1. PtsOf(stmt(l).dst) = {o}
        BY <1>1, <1>3 DEF blocked
      <4> QED BY <2>3, <4>1 DEF overwritten
    <3>2. S.inPts[l][o] \subseteq Written(S, l, o)
      BY <1>1, <1>4, <3>1, WrittenBy
    <3> QED BY <3>2 DEF Below
  <2>4. outPts[l][o] \subseteq S.outPts[l][o]
    BY DEF Below
  <2>5. stored(l, o) \subseteq Obj
    <3>1. PtsOf(stmt(l).src) \subseteq Obj
      BY <1>1, <1>2, PtsOfType DEF TypeOK
    <3>2. inPts[l][o] \subseteq Obj /\ outPts[l][o] \subseteq Obj
      BY <1>1 DEF TypeOK, DFPts
    <3> QED BY <3>1, <3>2 DEF stored
  <2> QED BY <2>1, <2>2, <2>3, <2>4, <2>5 DEF stored
<1>6. \A o \in Obj : news[o] \subseteq stored(l, o)
  OBVIOUS
<1>7. news \in [Obj -> SUBSET Obj]
  BY <1>5
<1>8. ASSUME NEW f \in flows, f.from = l PROVE news[f.obj] \subseteq Carried(S, f)
  <2>1. f.obj \in Obj
    BY <1>1 DEF TypeOK, Flow
  <2>2. Carried(S, f) = S.outPts[l][f.obj]
    BY <1>1, <1>8 DEF Carried
  <2> QED BY <1>5, <1>6, <2>1, <2>2
<1> HIDE DEF news
<1>9. \A m \in Loc : \A o \in Obj : inPts'[m][o] \subseteq S.inPts[m][o]
  BY <1>1, <1>7, <1>8, PropagateBelow
<1>10. \A m \in Loc : \A o \in Obj : outPts'[m][o] \subseteq S.outPts[m][o]
  BY <1>1, <1>5 DEF Below, TypeOK, DFPts
<1> QED BY <1>1, <1>9, <1>10 DEF Below

LEMMA MSSABelow ==
    ASSUME Inv, NEW S, Holds(S), Below(S), NEW l \in Loc, processMSSA(l)
    PROVE  Below(S)'
<1> DEFINE news == [o \in Obj |-> IF o \in inUpdated[l] THEN inPts[l][o] ELSE {}]
<1>1. /\ TypeOK /\ stmt(l).kind = "mssa" /\ pts' = pts /\ outPts' = outPts
      /\ Propagate(l, {}, news)
  BY DEF processMSSA, Inv
<1>2. news \in [Obj -> SUBSET Obj]
  BY <1>1 DEF TypeOK, DFPts
<1>3. ASSUME NEW f \in flows, f.from = l PROVE news[f.obj] \subseteq Carried(S, f)
  <2>1. f.obj \in Obj
    BY <1>1 DEF TypeOK, Flow
  <2>2. Carried(S, f) = S.inPts[l][f.obj]
    BY <1>1, <1>3 DEF Carried
  <2> QED BY <2>1, <2>2 DEF Below
<1> HIDE DEF news
<1>4. \A m \in Loc : \A o \in Obj : inPts'[m][o] \subseteq S.inPts[m][o]
  BY <1>1, <1>2, <1>3, PropagateBelow
<1> QED BY <1>1, <1>4 DEF Below

LEMMA PassBelow ==
    ASSUME Inv, NEW S, Holds(S), Below(S), NEW l \in Loc, processPass(l)
    PROVE  Below(S)'
<1> DEFINE T == PtsOf(stmt(l).src)
<1>1. TypeOK /\ stmt(l).kind = "pass" /\ UNCHANGED <<inPts, outPts>>
  BY DEF processPass, Inv
<1>2. T \subseteq AnyPts(S, stmt(l).src)
  BY <1>1, StmtType, BelowSets
<1>3. ASSUME NEW v \in Var PROVE pts'[v] \subseteq S.pts[v]
  <2>1. pts'[v] = pts[v] \union IF \E m \in Loc : <<l, m>> \in passes /\ v \in stmt(m).dst THEN T ELSE {}
    BY DEF processPass
  <2>2. ASSUME NEW m \in Loc, <<l, m>> \in passes, v \in stmt(m).dst PROVE T \subseteq S.pts[v]
    <3>1. stmt(m).kind = "receive"
      BY <2>2 DEF Inv, GraphShape
    <3>2. AnyPts(S, stmt(l).src) \subseteq Defined(S, m)
      BY <2>2, <3>1, DefinedBy
    <3>3. Defined(S, m) \subseteq S.pts[v]
      BY <2>2, <3>1 DEF Holds, Defs
    <3> QED BY <1>2, <3>2, <3>3
  <2> QED BY <2>1, <2>2 DEF Below
<1> QED BY <1>1, <1>3 DEF Below

LEMMA NodeBelow ==
    ASSUME Inv, NEW S, Holds(S), Below(S), NEW l \in Loc, processSVFGNode(l)
    PROVE  Below(S)'
<1>1. TypeOK /\ stmt(l).src \in SUBSET Var
  BY StmtType DEF Inv
<1>2. CASE processAddr(l)
  <2>1. stmt(l).kind = "addr" /\ Define(l, stmt(l).obj) /\ UNCHANGED <<inPts, outPts>>
    BY <1>2 DEF processAddr
  <2>2. stmt(l).obj \subseteq Defined(S, l)
    BY <2>1, DefinedBy
  <2> QED BY <1>1, <2>1, <2>2, DefineBelow
<1>3. CASE processCopy(l)
  <2> DEFINE T == PtsOf(stmt(l).src)
  <2>1. stmt(l).kind = "copy" /\ Define(l, T) /\ UNCHANGED <<inPts, outPts>>
    BY <1>3 DEF processCopy
  <2>2. T \subseteq Defined(S, l)
    BY <1>1, <2>1, DefinedBy, BelowSets
  <2> HIDE DEF T
  <2> QED BY <1>1, <2>1, <2>2, DefineBelow
<1>4. CASE processLoad(l)
  <2> DEFINE T == UNION {inPts[l][o] : o \in Touched(stmt(l).src) \intersect inUpdated[l]}
  <2>1. stmt(l).kind = "load" /\ Define(l, T) /\ UNCHANGED <<inPts, outPts>>
    BY <1>4 DEF processLoad
  <2>2. ASSUME NEW o \in Touched(stmt(l).src) PROVE inPts[l][o] \subseteq Defined(S, l)
    <3>1. o \in AnyPts(S, stmt(l).src) \ prog.const
      BY <1>1, BelowSets DEF Touched
    <3>2. o \in Obj
      BY <1>1, PtsOfType DEF Touched, TypeOK
    <3>3. inPts[l][o] \subseteq S.inPts[l][o]
      BY <3>2 DEF Below
    <3>4. S.inPts[l][o] \subseteq Defined(S, l)
      BY <2>1, <3>1, DefinedBy
    <3> QED BY <3>3, <3>4
  <2>3. T \subseteq Defined(S, l)
    BY <2>2
  <2> HIDE DEF T
  <2> QED BY <1>1, <2>1, <2>3, DefineBelow
<1>5. CASE skipStore(l) \/ processReceive(l)
  BY <1>5 DEF skipStore, processReceive, Below
<1> QED BY <1>2, <1>3, <1>4, <1>5, StoreBelow, MSSABelow, PassBelow DEF processSVFGNode

\* New edges ask for more: what satisfies the equations with them satisfied
\* those without, and has what they carry at once.
LEMMA CallGraphBelow ==
    ASSUME Inv, Inv', NEW S, Holds(S)', Holds(S) => Below(S), updateCallGraph
    PROVE  Below(S)'
<1> DEFINE E == UNION {c.flows : c \in newCalls}
<1>1. /\ prog' = prog /\ pts' = pts /\ outPts' = outPts /\ passes \subseteq passes'
      /\ flows' = flows \union E
      /\ inPts' = [m \in Loc |-> [o \in Obj |-> inPts[m][o] \union carried(E, m, o)]]
  BY DEF updateCallGraph
<1>2. \A l \in Loc : stmt(l)' = stmt(l)
  BY <1>1 DEF stmt
<1>3. Holds(S)
  <2>1. \A l \in Loc : Defined(S, l) \subseteq Defined(S, l)'
    <3> SUFFICES ASSUME NEW l \in Loc PROVE Defined(S, l) \subseteq Defined(S, l)'
      OBVIOUS
    <3>1. CASE stmt(l).kind = "receive"
      <4>1. Defined(S, l) = UNION {AnyPts(S, stmt(m).src) : m \in {k \in Loc : <<k, l>> \in passes}}
        BY <3>1, DefinedBy
      <4>2. Defined(S, l)' = UNION {AnyPts(S, stmt(m).src) : m \in {k \in Loc : <<k, l>> \in passes'}}
        <5>1. stmt(l)' = stmt(l)
          BY <1>2
        <5>2. Defined(S, l)' = UNION {AnyPts(S, stmt(m)'.src) : m \in {k \in Loc : <<k, l>> \in passes'}}
          <6>1. stmt(l)'.kind = "receive" /\ stmt(l)'.kind # "addr" /\ stmt(l)'.kind # "copy" /\ stmt(l)'.kind # "load"
            BY <3>1, <5>1
          <6> QED BY <6>1, Zenon DEF Defined, AnyPts
        <5> QED BY <1>2, <5>2
      <4> QED BY <1>1, <4>1, <4>2
    <3>2. CASE stmt(l).kind # "receive"
      <4>1. stmt(l)' = stmt(l) /\ prog' = prog
        BY <1>1, <1>2
      <4> QED BY <3>2, <4>1 DEF Defined, AnyPts
    <3> QED BY <3>1, <3>2
  <2>2. \A l \in Loc : \A v \in Defs(stmt(l)) : Defined(S, l)' \subseteq S.pts[v]
    BY <1>2 DEF Holds
  <2>3. \A f \in flows : Carried(S, f) \subseteq S.inPts[f.to][f.obj]
    BY <1>1 DEF Holds, Carried, stmt
  <2>4. \A l \in Loc : \A o \in Obj : Written(S, l, o) \subseteq S.outPts[l][o]
    BY <1>1 DEF Holds, Written, stmt, AnyPts
  <2> QED BY <2>1, <2>2, <2>3, <2>4 DEF Holds
<1>4. Below(S)
  BY <1>3
<1>5. ASSUME NEW m \in Loc, NEW o \in Obj PROVE inPts'[m][o] \subseteq S.inPts[m][o]
  <2>1. inPts'[m][o] = inPts[m][o] \union carried(E, m, o)
    BY <1>1
  <2>2. ASSUME NEW f \in E, f.to = m, f.obj = o PROVE inPts[f.from][o] \subseteq S.inPts[m][o]
    <3>1. f \in flows' /\ f.from \in Loc
      BY <1>1, <2>2 DEF Inv, TypeOK, Flow
    <3>2. stmt(f.from).kind = "mssa"
      <4>1. PICK c \in newCalls : f \in c.flows
        BY <2>2
      <4>2. WellFormed(prog) /\ c \in prog.calls
        BY <4>1, ProgramsAssumption DEF Inv, TypeOK, newCalls
      <4> QED BY <4>1, <4>2 DEF WellFormed, stmt
    <3>3. S.inPts[f.from][f.obj] \subseteq S.inPts[f.to][f.obj]
      <4>1. Carried(S, f)' \subseteq S.inPts[f.to][f.obj]
        BY <3>1 DEF Holds
      <4>2. Carried(S, f)' = S.inPts[f.from][f.obj]
        <5>1. stmt(f.from)' = stmt(f.from)
          BY <1>1 DEF stmt
        <5>2. stmt(f.from)'.kind # "store"
          BY <3>2, <5>1
        <5> QED BY <5>2, Zenon DEF Carried
      <4> QED BY <4>1, <4>2
    <3> QED BY <1>4, <2>2, <3>1, <3>3 DEF Below
  <2> HIDE DEF E
  <2>3. carried(E, m, o) \subseteq S.inPts[m][o]
    BY <2>2 DEF carried
  <2> QED BY <1>4, <2>1, <2>3 DEF Below
<1> QED BY <1>1, <1>4, <1>5 DEF Below

LEMMA StepPrecise == ASSUME Inv, Inv', PreciseInv, [Next]_vars PROVE PreciseInv'
<1> SUFFICES ASSUME NEW S \in Solution, Holds(S)' PROVE Below(S)'
  BY DEF PreciseInv, Solution, DFPts
<1>1. CASE updateCallGraph
  BY <1>1, CallGraphBelow DEF PreciseInv
<1>2. CASE processNode
  <2>1. PICK l \in worklist : processSVFGNode(l)
    BY <1>2 DEF processNode
  <2>2. l \in Loc
    BY DEF Inv, TypeOK
  <2>3. Still
    BY <2>1 DEF Still, processSVFGNode, processAddr, processCopy, processLoad, processStore, skipStore,
                processMSSA, processPass, processReceive, graphVars
  <2>4. Holds(S) /\ Below(S)
    BY <2>3, SameEquations DEF PreciseInv
  <2> QED BY <2>1, <2>2, <2>4, NodeBelow
<1>3. CASE UNCHANGED <<prog, passes, flows, pts, inPts, outPts>>
  <2>1. Still
    BY <1>3 DEF Still
  <2>2. Holds(S)
    BY <2>1, SameEquations
  <2> QED BY <1>3, <2>2 DEF PreciseInv, Below
<1> QED BY <1>1, <1>2, <1>3 DEF Next, InitWorklist, SolveEnds, Finished, vars

LEMMA StepCalls == ASSUME Inv, CallsFound, [Next]_vars PROVE CallsFound'
<1>0. ASSUME NEW c \in connected PROVE c.fp \in Var
  BY ProgramsAssumption DEF Inv, TypeOK, Program, Call
<1>1. CASE updateCallGraph
  BY <1>1 DEF updateCallGraph, CallsFound, newCalls
<1>2. CASE processNode
  <2>1. PICK l \in worklist : processSVFGNode(l)
    BY <1>2 DEF processNode
  <2>2. connected' = connected
    BY <2>1 DEF processSVFGNode, processAddr, processCopy, processLoad, processStore, skipStore,
                processMSSA, processPass, processReceive, graphVars
  <2>3. \A v \in Var : pts[v] \subseteq pts'[v]
    BY <2>1 DEF processSVFGNode, processAddr, processCopy, processLoad, processStore, skipStore,
                processMSSA, processPass, processReceive, Define
  <2> QED BY <1>0, <2>2, <2>3 DEF CallsFound
<1> QED BY <1>1, <1>2 DEF CallsFound, Next, InitWorklist, SolveEnds, Finished, vars

LEMMA InitPrecise == ASSUME Init PROVE PreciseInv /\ CallsFound
BY DEF Init, PreciseInv, Below, CallsFound

-----------------------------------------------------------------------------
(* The least solution.  The equations map solutions to solutions and are    *)
(* monotone, strong updates included: a store through a pointer without     *)
(* targets writes nothing, and with more targets it never writes less.      *)
Leq(S, T) ==
    /\ \A v \in Var : S.pts[v] \subseteq T.pts[v]
    /\ \A l \in Loc : \A o \in Obj : /\ S.inPts[l][o] \subseteq T.inPts[l][o]
                                     /\ S.outPts[l][o] \subseteq T.outPts[l][o]

LEMMA LeqBothWays ==
    ASSUME NEW S \in Solution, NEW T \in Solution, Leq(S, T), Leq(T, S)
    PROVE  S = T
<1>1. /\ S.pts \in [Var -> SUBSET Obj] /\ T.pts \in [Var -> SUBSET Obj]
      /\ S.inPts \in DFPts /\ T.inPts \in DFPts /\ S.outPts \in DFPts /\ T.outPts \in DFPts
  BY DEF Solution
<1>2. S.pts = T.pts
  <2>1. \A v \in Var : S.pts[v] = T.pts[v]
    BY DEF Leq
  <2> QED BY <1>1, <2>1
<1>3. \A A \in DFPts : \A B \in DFPts : (\A l \in Loc : \A o \in Obj : A[l][o] = B[l][o]) => A = B
  <2> SUFFICES ASSUME NEW A \in DFPts, NEW B \in DFPts, \A l \in Loc : \A o \in Obj : A[l][o] = B[l][o]
               PROVE  A = B
    OBVIOUS
  <2>1. ASSUME NEW l \in Loc PROVE A[l] = B[l]
    <3>1. A[l] \in [Obj -> SUBSET Obj] /\ B[l] \in [Obj -> SUBSET Obj]
      BY DEF DFPts
    <3> QED BY <3>1
  <2> QED BY <2>1 DEF DFPts
<1>4. S.inPts = T.inPts /\ S.outPts = T.outPts
  <2>1. \A l \in Loc : \A o \in Obj : S.inPts[l][o] = T.inPts[l][o] /\ S.outPts[l][o] = T.outPts[l][o]
    BY DEF Leq
  <2> QED BY <1>1, <1>3, <2>1
<1> QED BY <1>2, <1>4 DEF Solution

LEMMA AnyPtsFacts ==
    ASSUME NEW S \in Solution, NEW V \in SUBSET Var
    PROVE  /\ AnyPts(S, V) \subseteq Obj
           /\ \A T : Leq(S, T) => AnyPts(S, V) \subseteq AnyPts(T, V)
BY DEF AnyPts, Leq, Solution

LEMMA DefinedMonotone ==
    ASSUME TypeOK, NEW S \in Solution, NEW T \in Solution, Leq(S, T), NEW l \in Loc
    PROVE  Defined(S, l) \subseteq Defined(T, l) /\ Defined(S, l) \subseteq Obj
<1>1. /\ stmt(l).src \in SUBSET Var /\ stmt(l).obj \in SUBSET Obj
      /\ \A m \in Loc : stmt(m).src \in SUBSET Var
  BY StmtType
<1>2. AnyPts(S, stmt(l).src) \subseteq AnyPts(T, stmt(l).src) /\ AnyPts(S, stmt(l).src) \subseteq Obj
  BY <1>1, AnyPtsFacts
<1>3. \A m \in Loc : AnyPts(S, stmt(m).src) \subseteq AnyPts(T, stmt(m).src)
                     /\ AnyPts(S, stmt(m).src) \subseteq Obj
  BY <1>1, AnyPtsFacts
<1>4. \A o \in Obj : S.inPts[l][o] \subseteq T.inPts[l][o] /\ S.inPts[l][o] \subseteq Obj
  BY DEF Leq, Solution, DFPts
<1>5. CASE stmt(l).kind = "addr"
  BY <1>1, <1>5, DefinedBy
<1>6. CASE stmt(l).kind = "copy"
  BY <1>2, <1>6, DefinedBy
<1>7. CASE stmt(l).kind = "load"
  <2> DEFINE of(R) == UNION {R.inPts[l][o] : o \in AnyPts(R, stmt(l).src) \ prog.const}
  <2>1. Defined(S, l) = of(S) /\ Defined(T, l) = of(T)
    BY <1>7, DefinedBy
  <2>2. of(S) \subseteq of(T) /\ of(S) \subseteq Obj
    BY <1>2, <1>4
  <2> QED BY <2>1, <2>2
<1>8. CASE stmt(l).kind = "receive"
  <2> DEFINE of(R) == UNION {AnyPts(R, stmt(m).src) : m \in {k \in Loc : <<k, l>> \in passes}}
  <2>1. Defined(S, l) = of(S) /\ Defined(T, l) = of(T)
    BY <1>8, DefinedBy
  <2>2. of(S) \subseteq of(T) /\ of(S) \subseteq Obj
    BY <1>3
  <2> QED BY <2>1, <2>2
<1>9. CASE stmt(l).kind \notin {"addr", "copy", "load", "receive"}
  BY <1>9, DefinedBy
<1> QED BY <1>5, <1>6, <1>7, <1>8, <1>9

LEMMA WrittenMonotone ==
    ASSUME TypeOK, NEW S \in Solution, NEW T \in Solution, Leq(S, T), NEW l \in Loc, NEW o \in Obj
    PROVE  Written(S, l, o) \subseteq Written(T, l, o) /\ Written(S, l, o) \subseteq Obj
<1> DEFINE P == AnyPts(S, stmt(l).dst)
           Q == AnyPts(T, stmt(l).dst)
<1>1. stmt(l).src \in SUBSET Var /\ stmt(l).dst \in SUBSET Var
  BY StmtType
<1>2. /\ P \subseteq Q /\ AnyPts(S, stmt(l).src) \subseteq Obj
      /\ AnyPts(S, stmt(l).src) \subseteq AnyPts(T, stmt(l).src)
      /\ S.inPts[l][o] \subseteq T.inPts[l][o] /\ S.inPts[l][o] \subseteq Obj
  <2>1. S.inPts[l][o] \subseteq T.inPts[l][o] /\ S.inPts[l][o] \subseteq Obj
    BY DEF Leq, Solution, DFPts
  <2> QED BY <1>1, <2>1, AnyPtsFacts
<1>3. CASE stmt(l).kind # "store" \/ P = {}
  BY <1>3, WrittenBy
<1>4. CASE stmt(l).kind = "store" /\ P # {}
  <2>1. Q # {} /\ (Q = {o} /\ o \notin prog.weak => P = {o} /\ o \notin prog.weak)
    BY <1>2, <1>4
  <2>2. Written(S, l, o) \subseteq (IF o \in P \ prog.const THEN AnyPts(S, stmt(l).src) ELSE {})
                                   \union (IF P = {o} /\ o \notin prog.weak THEN {} ELSE S.inPts[l][o])
    BY <1>4, WrittenBy
  <2>3. /\ o \in Q \ prog.const => AnyPts(T, stmt(l).src) \subseteq Written(T, l, o)
        /\ ~(Q = {o} /\ o \notin prog.weak) => T.inPts[l][o] \subseteq Written(T, l, o)
    BY <1>4, <2>1, WrittenBy
  <2> HIDE DEF P, Q
  <2> QED BY <1>2, <2>1, <2>2, <2>3
<1> QED BY <1>3, <1>4

LEMMA CarriedMonotone ==
    ASSUME TypeOK, NEW S \in Solution, NEW T \in Solution, Leq(S, T), NEW f \in flows
    PROVE  Carried(S, f) \subseteq Carried(T, f) /\ Carried(S, f) \subseteq Obj
<1>1. f.from \in Loc /\ f.obj \in Obj
  BY DEF TypeOK, Flow
<1> QED BY <1>1 DEF Carried, Leq, Solution, DFPts

\* The equations, set by set.
LEMMA EquationSets ==
    ASSUME NEW S
    PROVE  /\ \A v \in Var : Equations(S).pts[v] = UNION {Defined(S, l) : l \in {k \in Loc : v \in Defs(stmt(k))}}
           /\ \A l \in Loc : \A o \in Obj :
                /\ Equations(S).inPts[l][o] = UNION {Carried(S, f) : f \in {g \in flows : g.to = l /\ g.obj = o}}
                /\ Equations(S).outPts[l][o] = Written(S, l, o)
           /\ Equations(S) = [pts |-> Equations(S).pts, inPts |-> Equations(S).inPts, outPts |-> Equations(S).outPts]
BY DEF Equations

LEMMA EquationsAreSolutions ==
    ASSUME TypeOK, NEW S \in Solution
    PROVE  Equations(S) \in Solution
<1>1. Leq(S, S)
  BY DEF Leq
<1>2. \A l \in Loc : Defined(S, l) \subseteq Obj
  BY <1>1, DefinedMonotone
<1>3. \A f \in flows : Carried(S, f) \subseteq Obj
  BY <1>1, CarriedMonotone
<1>4. \A l \in Loc : \A o \in Obj : Written(S, l, o) \subseteq Obj
  BY <1>1, WrittenMonotone
<1>5. [v \in Var |-> UNION {Defined(S, l) : l \in {k \in Loc : v \in Defs(stmt(k))}}] \in [Var -> SUBSET Obj]
  BY <1>2
<1>6. [l \in Loc |-> [o \in Obj |-> UNION {Carried(S, f) : f \in {g \in flows : g.to = l /\ g.obj = o}}]] \in DFPts
  BY <1>3 DEF DFPts
<1>7. [l \in Loc |-> [o \in Obj |-> Written(S, l, o)]] \in DFPts
  BY <1>4 DEF DFPts
<1> QED BY <1>5, <1>6, <1>7 DEF Equations, Solution

LEMMA EquationsMonotone ==
    ASSUME TypeOK, NEW S \in Solution, NEW T \in Solution, Leq(S, T)
    PROVE  Leq(Equations(S), Equations(T))
<1>1. \A l \in Loc : Defined(S, l) \subseteq Defined(T, l)
  BY DefinedMonotone
<1>2. \A f \in flows : Carried(S, f) \subseteq Carried(T, f)
  BY CarriedMonotone
<1>3. \A l \in Loc : \A o \in Obj : Written(S, l, o) \subseteq Written(T, l, o)
  BY WrittenMonotone
<1>4. ASSUME NEW v \in Var PROVE Equations(S).pts[v] \subseteq Equations(T).pts[v]
  BY <1>1, EquationSets
<1>5. ASSUME NEW l \in Loc, NEW o \in Obj
      PROVE  /\ Equations(S).inPts[l][o] \subseteq Equations(T).inPts[l][o]
             /\ Equations(S).outPts[l][o] \subseteq Equations(T).outPts[l][o]
  BY <1>2, <1>3, EquationSets
<1> QED BY <1>4, <1>5 DEF Leq

LEMMA HoldsIfClosed ==
    ASSUME TypeOK, NEW S \in Solution
    PROVE  Leq(Equations(S), S) <=> Holds(S)
<1>1. \A l \in Loc : Defs(stmt(l)) \in SUBSET Var
  BY StmtType
<1>2. \A f \in flows : f.to \in Loc /\ f.obj \in Obj
  BY DEF TypeOK, Flow
<1>3. ASSUME Leq(Equations(S), S) PROVE Holds(S)
  <2>1. ASSUME NEW l \in Loc, NEW v \in Defs(stmt(l)) PROVE Defined(S, l) \subseteq S.pts[v]
    <3>1. Equations(S).pts[v] \subseteq S.pts[v] /\ v \in Var
      BY <1>1, <1>3 DEF Leq
    <3> QED BY <3>1, EquationSets
  <2>2. ASSUME NEW f \in flows PROVE Carried(S, f) \subseteq S.inPts[f.to][f.obj]
    <3>1. Equations(S).inPts[f.to][f.obj] \subseteq S.inPts[f.to][f.obj]
      BY <1>2, <1>3 DEF Leq
    <3>2. Equations(S).inPts[f.to][f.obj]
            = UNION {Carried(S, g) : g \in {g \in flows : g.to = f.to /\ g.obj = f.obj}}
      BY <1>2, EquationSets
    <3> QED BY <3>1, <3>2
  <2>3. ASSUME NEW l \in Loc, NEW o \in Obj PROVE Written(S, l, o) \subseteq S.outPts[l][o]
    BY <1>3, EquationSets DEF Leq
  <2> QED BY <2>1, <2>2, <2>3 DEF Holds
<1>4. ASSUME Holds(S) PROVE Leq(Equations(S), S)
  <2>1. ASSUME NEW v \in Var PROVE Equations(S).pts[v] \subseteq S.pts[v]
    <3>1. \A l \in Loc : v \in Defs(stmt(l)) => Defined(S, l) \subseteq S.pts[v]
      BY <1>4 DEF Holds
    <3> QED BY <3>1, EquationSets
  <2>2. ASSUME NEW l \in Loc, NEW o \in Obj PROVE Equations(S).inPts[l][o] \subseteq S.inPts[l][o]
    <3>1. \A f \in flows : f.to = l /\ f.obj = o => Carried(S, f) \subseteq S.inPts[l][o]
      BY <1>4 DEF Holds
    <3> QED BY <3>1, EquationSets
  <2>3. ASSUME NEW l \in Loc, NEW o \in Obj PROVE Equations(S).outPts[l][o] \subseteq S.outPts[l][o]
    BY <1>4, EquationSets DEF Holds
  <2> QED BY <2>1, <2>2, <2>3 DEF Leq
<1> QED BY <1>3, <1>4

\* A solution as one set of facts, of which there are finitely many.
PtsFact == {0} \X (Var \X Obj)
InFact == {1} \X (Loc \X (Obj \X Obj))
OutFact == {2} \X (Loc \X (Obj \X Obj))
Facts(S) == {u \in PtsFact : u[2][2] \in S.pts[u[2][1]]}
            \union {u \in InFact : u[2][2][2] \in S.inPts[u[2][1]][u[2][2][1]]}
            \union {u \in OutFact : u[2][2][2] \in S.outPts[u[2][1]][u[2][2][1]]}

LEMMA FactsFinite == IsFiniteSet(PtsFact \union InFact \union OutFact)
<1>1. IsFiniteSet(Var \X Obj) /\ IsFiniteSet(Obj \X Obj)
  BY SVFGAssumption, FS_Product DEF SVFGAssumption
<1>2. IsFiniteSet(Loc \X (Obj \X Obj))
  BY <1>1, SVFGAssumption, FS_Product DEF SVFGAssumption
<1>3. IsFiniteSet({0}) /\ IsFiniteSet({1}) /\ IsFiniteSet({2})
  BY FS_Singleton
<1>4. IsFiniteSet(PtsFact) /\ IsFiniteSet(InFact) /\ IsFiniteSet(OutFact)
  BY <1>1, <1>2, <1>3, FS_Product DEF PtsFact, InFact, OutFact
<1>5. IsFiniteSet(PtsFact \union InFact)
  BY <1>4, FS_Union
<1> QED BY <1>4, <1>5, FS_Union

LEMMA FactsGrow ==
    ASSUME NEW S \in Solution, NEW T \in Solution, Leq(S, T), T # S
    PROVE  Facts(S) \subseteq Facts(T) /\ Facts(S) # Facts(T)
<1>1. Facts(S) \subseteq Facts(T)
  <2>1. \A u \in PtsFact : u[2][1] \in Var
    BY DEF PtsFact
  <2>2. \A u \in InFact \union OutFact : u[2][1] \in Loc /\ u[2][2][1] \in Obj
    BY DEF InFact, OutFact
  <2> QED BY <2>1, <2>2 DEF Facts, Leq
<1>2. ASSUME Facts(S) = Facts(T) PROVE Leq(T, S)
  <2>1. ASSUME NEW v \in Var, NEW x \in T.pts[v] PROVE x \in S.pts[v]
    <3>1. PICK u : u = <<0, <<v, x>>>>
      OBVIOUS
    <3>2. x \in Obj
      BY DEF Solution
    <3>3. u \in PtsFact /\ u[2][1] = v /\ u[2][2] = x /\ u \notin InFact /\ u \notin OutFact
      BY <3>1, <3>2 DEF PtsFact, InFact, OutFact
    <3>4. u \in Facts(T)
      BY <3>3 DEF Facts
    <3>5. u \in Facts(S)
      BY <1>2, <3>4
    <3> QED BY <3>3, <3>5 DEF Facts
  <2>2. ASSUME NEW l \in Loc, NEW o \in Obj, NEW x \in T.inPts[l][o] PROVE x \in S.inPts[l][o]
    <3>1. PICK u : u = <<1, <<l, <<o, x>>>>>>
      OBVIOUS
    <3>2. x \in Obj
      BY DEF Solution, DFPts
    <3>3. u \in InFact /\ u[2][1] = l /\ u[2][2][1] = o /\ u[2][2][2] = x /\ u \notin PtsFact /\ u \notin OutFact
      BY <3>1, <3>2 DEF PtsFact, InFact, OutFact
    <3>4. u \in Facts(T)
      BY <3>3 DEF Facts
    <3>5. u \in Facts(S)
      BY <1>2, <3>4
    <3> QED BY <3>3, <3>5 DEF Facts
  <2>3. ASSUME NEW l \in Loc, NEW o \in Obj, NEW x \in T.outPts[l][o] PROVE x \in S.outPts[l][o]
    <3>1. PICK u : u = <<2, <<l, <<o, x>>>>>>
      OBVIOUS
    <3>2. x \in Obj
      BY DEF Solution, DFPts
    <3>3. u \in OutFact /\ u[2][1] = l /\ u[2][2][1] = o /\ u[2][2][2] = x /\ u \notin PtsFact /\ u \notin InFact
      BY <3>1, <3>2 DEF PtsFact, InFact, OutFact
    <3>4. u \in Facts(T)
      BY <3>3 DEF Facts
    <3>5. u \in Facts(S)
      BY <1>2, <3>4
    <3> QED BY <3>3, <3>5 DEF Facts
  <2> QED BY <2>1, <2>2, <2>3 DEF Leq
<1> QED BY <1>1, <1>2, LeqBothWays

\* Starting from nothing, repeating the equations ends with a solution of them,
\* and below every other.
LEMMA LeastSolutionRight ==
    ASSUME TypeOK
    PROVE  /\ LeastSolution \in Solution /\ Equations(LeastSolution) = LeastSolution
           /\ \A T \in Solution : Holds(T) => Leq(LeastSolution, T)
<1> DEFINE F == [S \in Solution |-> Equations(S)]
           U == PtsFact \union InFact \union OutFact
           size == [S \in Solution |-> Facts(S)]
           Eq(g) == g = [S \in Solution |-> IF Equations(S) = S THEN S ELSE g[Equations(S)]]
           Up(S) == Leq(S, Equations(S))
<1>1. F \in [Solution -> Solution] /\ \A S \in Solution : F[S] = Equations(S)
  BY EquationsAreSolutions
<1>2. size \in [Solution -> SUBSET U] /\ \A S \in Solution : size[S] = Facts(S)
  BY DEF Facts
<1>3. PICK g : Iterates(Solution, F, g)
  <2> HIDE DEF F
  <2> QED BY <1>1, GrowExists
<1>4. \A h : [S \in Solution |-> IF F[S] = S THEN S ELSE h[F[S]]]
               = [S \in Solution |-> IF Equations(S) = S THEN S ELSE h[Equations(S)]]
  OBVIOUS
<1>5. Eq(g)
  <2>1. g = [S \in Solution |-> IF F[S] = S THEN S ELSE g[F[S]]]
    BY <1>3 DEF Iterates
  <2> QED BY <1>4, <2>1
<1>6. LeastSolution = (CHOOSE h : Eq(h))[Nothing]
  BY DEF LeastSolution
<1> HIDE DEF Eq
<1>7. PICK h : LeastSolution = h[Nothing] /\ Eq(h)
  <2>1. Eq(CHOOSE h : Eq(h))
    BY <1>5
  <2> QED BY <1>6, <2>1
<1>8. Iterates(Solution, F, h)
  BY <1>4, <1>7 DEF Iterates, Eq
<1>9. Nothing \in Solution /\ \A T \in Solution : Leq(Nothing, T)
  BY DEF Nothing, Solution, DFPts, Leq
<1>10. \A S \in Solution : Up(S) => F[S] \in Solution /\ Up(F[S])
  BY <1>1, EquationsMonotone
<1>11. \A S \in Solution : Up(S) /\ F[S] # S => size[S] \subseteq size[F[S]] /\ size[S] # size[F[S]]
  BY <1>1, <1>2, FactsGrow
<1>12. Up(Nothing)
  BY <1>9, EquationsAreSolutions
<1>13. ASSUME NEW T \in Solution, Holds(T)
       PROVE  LeastSolution \in Solution /\ Equations(LeastSolution) = LeastSolution /\ Leq(LeastSolution, T)
  <2> DEFINE K == {S \in Solution : Up(S) /\ Leq(S, T)}
  <2>1. ClosedUnder(F, K)
    <3> SUFFICES ASSUME NEW S \in K PROVE F[S] \in K
      BY DEF ClosedUnder
    <3>1. Leq(Equations(S), Equations(T)) /\ Leq(Equations(T), T)
      BY <1>13, EquationsMonotone, HoldsIfClosed
    <3>2. Leq(Equations(S), T)
      BY <3>1 DEF Leq
    <3> QED BY <1>1, <1>10, <3>2
  <2>2. Nothing \in K /\ K \in SUBSET Solution
    BY <1>9, <1>12
  <2>3. \A S \in K : F[S] # S => size[S] \subseteq size[F[S]] /\ size[S] # size[F[S]]
    BY <1>11
  <2>4. h[Nothing] \in K /\ F[h[Nothing]] = h[Nothing]
    <3> HIDE DEF F, K, U, size, Up
    <3>1. IsFiniteSet(U)
      BY FactsFinite DEF U
    <3> QED BY <1>1, <1>2, <1>8, <2>1, <2>2, <2>3, <3>1, GrowEnds
  <2> QED BY <1>1, <1>7, <2>4
<1>14. \E T \in Solution : Holds(T)
  <2> DEFINE T == [pts |-> [v \in Var |-> Obj], inPts |-> [l \in Loc |-> [o \in Obj |-> Obj]],
                   outPts |-> [l \in Loc |-> [o \in Obj |-> Obj]]]
  <2>1. T \in Solution /\ Equations(T) \in Solution
    BY EquationsAreSolutions DEF Solution, DFPts
  <2>2. Leq(Equations(T), T)
    <3>1. PICK E \in Solution : E = Equations(T)
      BY <2>1
    <3>2. Leq(E, T)
      BY DEF Leq, Solution, DFPts
    <3> QED BY <3>1, <3>2
  <2> QED BY <2>1, <2>2, HoldsIfClosed
<1> QED BY <1>13, <1>14

-----------------------------------------------------------------------------
(* What the analysis ends with satisfies the equations. *)
Result == [pts |-> pts, inPts |-> inPts, outPts |-> outPts]

LEMMA DoneHolds ==
    ASSUME Inv, Closed, phase = "done"
    PROVE  Result \in Solution /\ Holds(Result)
<1>1. /\ Result \in Solution /\ Result.pts = pts /\ Result.inPts = inPts /\ Result.outPts = outPts
  BY DEF Result, Solution, Inv, TypeOK
<1>2. \A V : AnyPts(Result, V) = PtsOf(V)
  BY <1>1 DEF AnyPts, PtsOf
<1>3. TypeOK /\ \A l \in Loc : DoneWith(l)
  BY DEF Inv, Closed
<1> HIDE DEF Result
<1>4. ASSUME NEW l \in Loc, NEW v \in Defs(stmt(l)) PROVE Defined(Result, l) \subseteq pts[v]
  <2>1. stmt(l) \in Stmt /\ v \in Var
    BY <1>3, StmtType
  <2>2. stmt(l).kind \in {"addr", "copy", "load", "receive"} => PtsOf(stmt(l).dst) = pts[v]
    BY <1>3, <2>1, Operands DEF Defs, PtsOf
  <2>3. CASE stmt(l).kind = "addr"
    BY <1>3, <2>2, <2>3, DefinedBy DEF DoneWith
  <2>4. CASE stmt(l).kind = "copy"
    BY <1>2, <1>3, <2>2, <2>4, DefinedBy DEF DoneWith
  <2>5. CASE stmt(l).kind = "load"
    <3>1. \A o \in Touched(stmt(l).src) : inPts[l][o] \subseteq pts[v]
      BY <1>3, <2>2, <2>5 DEF DoneWith
    <3>2. Defined(Result, l) = UNION {inPts[l][o] : o \in Touched(stmt(l).src)}
      <4>1. Defined(Result, l) = UNION {Result.inPts[l][o] : o \in AnyPts(Result, stmt(l).src) \ prog.const}
        BY <2>5, DefinedBy
      <4> QED BY <1>1, <1>2, <4>1 DEF Touched
    <3> QED BY <3>1, <3>2
  <2>6. CASE stmt(l).kind = "receive"
    <3>1. Defined(Result, l) = UNION {AnyPts(Result, stmt(m).src) : m \in {k \in Loc : <<k, l>> \in passes}}
      BY <2>6, DefinedBy
    <3>2. ASSUME NEW m \in Loc, <<m, l>> \in passes PROVE AnyPts(Result, stmt(m).src) \subseteq pts[v]
      <4>1. stmt(m).kind = "pass"
        BY <3>2 DEF Inv, GraphShape
      <4>2. PtsOf(stmt(m).src) \subseteq PtsOf(stmt(l).dst)
        BY <1>3, <3>2, <4>1 DEF DoneWith
      <4> QED BY <1>2, <2>2, <2>6, <4>2
    <3> QED BY <3>1, <3>2
  <2>7. CASE stmt(l).kind \notin {"addr", "copy", "load", "receive"}
    BY <2>7, DefinedBy
  <2> QED BY <2>3, <2>4, <2>5, <2>6, <2>7
<1>5. ASSUME NEW f \in flows PROVE Carried(Result, f) \subseteq inPts[f.to][f.obj]
  <2>1. f \in Flow /\ stmt(f.from).kind \in {"store", "mssa"}
    BY <1>3 DEF TypeOK, Inv, GraphShape
  <2>2. f.from \in Loc
    BY <2>1 DEF Flow
  <2>3. CASE stmt(f.from).kind = "store"
    BY <1>1, <2>3 DEF Carried, Closed
  <2>4. CASE stmt(f.from).kind = "mssa"
    BY <1>1, <1>3, <2>2, <2>4 DEF Carried, DoneWith
  <2> QED BY <2>1, <2>3, <2>4
<1>6. ASSUME NEW l \in Loc, NEW o \in Obj PROVE Written(Result, l, o) \subseteq outPts[l][o]
  <2>1. CASE stmt(l).kind # "store" \/ blocked(l)
    BY <1>2, <2>1, WrittenBy DEF blocked
  <2>2. CASE stmt(l).kind = "store" /\ ~blocked(l)
    <3>1. Written(Result, l, o) \subseteq
            (IF o \in PtsOf(stmt(l).dst) \ prog.const THEN PtsOf(stmt(l).src) ELSE {})
            \union (IF PtsOf(stmt(l).dst) = {o} /\ o \notin prog.weak THEN {} ELSE inPts[l][o])
      BY <1>1, <1>2, <2>2, WrittenBy DEF blocked
    <3>2. o \in PtsOf(stmt(l).dst) \ prog.const => PtsOf(stmt(l).src) \subseteq outPts[l][o]
      BY <1>3, <2>2 DEF DoneWith, Touched
    <3>3. ~(PtsOf(stmt(l).dst) = {o} /\ o \notin prog.weak) => inPts[l][o] \subseteq outPts[l][o]
      <4> SUFFICES ASSUME ~(PtsOf(stmt(l).dst) = {o} /\ o \notin prog.weak)
                   PROVE  inPts[l][o] \subseteq outPts[l][o]
        OBVIOUS
      <4>1. o \notin overwritten(l)
        BY DEF overwritten
      <4> QED BY <1>3, <2>2, <4>1 DEF DoneWith
    <3> QED BY <3>1, <3>2, <3>3
  <2> QED BY <2>1, <2>2
<1> QED BY <1>1, <1>4, <1>5, <1>6 DEF Holds

LEMMA StepsExact == Init /\ [][Next]_vars => []Exact
<1> DEFINE I == Inv /\ PreciseInv /\ CallsFound
<1>1. Init => I
  BY InitInv, InitPrecise
<1>2. I /\ [Next]_vars => I'
  BY StepInv, StepPrecise, StepCalls
<1>3. I => Exact
  <2> SUFFICES ASSUME I, phase = "done" PROVE Exact
    BY DEF Exact
  <2>0. Closed
    BY DEF Inv, Closed, AtRest, NoNewsLost, Due, StoresDelivered
  <2>1. TypeOK /\ Result \in Solution /\ Holds(Result)
    BY <2>0, DoneHolds DEF Inv
  <2>2. PICK L \in Solution : /\ L = LeastSolution /\ Equations(L) = L
                              /\ \A T \in Solution : Holds(T) => Leq(L, T)
    BY <2>1, LeastSolutionRight
  <2>3. Leq(L, Result)
    BY <2>1, <2>2
  <2>4. Leq(Result, L)
    <3>1. Leq(Equations(L), L)
      BY <2>2 DEF Leq
    <3>2. Holds(L)
      BY <2>1, <3>1, HoldsIfClosed
    <3> QED BY <3>2 DEF PreciseInv, Below, Leq, Result
  <2>5. Result = L
    BY <2>1, <2>3, <2>4, LeqBothWays
  <2>6. connected = {c \in prog.calls : c.fun \in pts[c.fp]}
    BY <2>0, <2>1 DEF Closed, newCalls, CallsFound, TypeOK
  <2> QED BY <2>2, <2>5, <2>6 DEF Exact, Result
<1> HIDE DEF I
<1> QED BY <1>1, <1>2, <1>3, PTL

\* The analysis ends with the least solution of the equations, in any order of
\* the work list, and with a call connected exactly to the functions its
\* pointer has (solveConstraints).
THEOREM EndsExact == Spec => []Exact
BY StepsExact, PTL DEF Spec

-----------------------------------------------------------------------------
\* The solver on the constraint graph.

\* Adding copy edges one after the other, in the order a fold chooses. EdgeFold
\* is what the fold computes for each part of a set of edges.
Added == [edges : SUBSET (CGNode \X CGNode), propa : [CGNode -> SUBSET Obj], from : SUBSET CGNode]
EdgeFold(C, G0, f) ==
    f = [S \in SUBSET C |->
           IF S = {} THEN G0
           ELSE LET x == CHOOSE x \in S : TRUE IN addCopyEdge(x, f[S \ {x}])]

LEMMA CGNodeFinite == IsFiniteSet(CGNode)
<1>1. IsFiniteSet(Var \union Obj)
  BY SVFGAssumption, FS_Union
<1>2. IsFiniteSet((Var \union Obj) \X {Plain})
  BY <1>1, FS_Singleton, FS_Product
<1>3. IsFiniteSet(Obj \X Loc)
  BY SVFGAssumption, FS_Product
<1>4. CGNode = ((Var \union Obj) \X {Plain}) \union (Obj \X Loc)
  BY DEF CGNode, plain
<1> QED BY <1>2, <1>3, <1>4, FS_Union

LEMMA AddedOne ==
    ASSUME NEW x \in CGNode \X CGNode, NEW G \in Added
    PROVE  addCopyEdge(x, G) \in Added
<1>1. x[1] \in CGNode /\ x[2] \in CGNode OBVIOUS
<1>2. propaAfterEdge(x[1], x[2], G.propa) \in [CGNode -> SUBSET Obj]
  <2>1. G.propa \in [CGNode -> SUBSET Obj] BY DEF Added
  <2> QED BY <1>1, <2>1 DEF propaAfterEdge
<1> QED BY <1>1, <1>2 DEF addCopyEdge, Added

\* The recursive function of a fold exists.
LEMMA EdgeFoldExists ==
    ASSUME NEW C \in SUBSET (CGNode \X CGNode), IsFiniteSet(C), NEW G0 \in Added
    PROVE  \E f \in [SUBSET C -> Added] : EdgeFold(C, G0, f)
<1> DEFINE first(S) == CHOOSE x \in S : TRUE
           Rules(R) == /\ <<{}, G0>> \in R
                       /\ \A S \in SUBSET C : \A G \in Added :
                            S # {} /\ <<S \ {first(S)}, G>> \in R => <<S, addCopyEdge(first(S), G)>> \in R
           Least == {p \in (SUBSET C) \X Added : \A R \in SUBSET ((SUBSET C) \X Added) : Rules(R) => p \in R}
           One(S) == \E G \in Added : \A H \in Added : <<S, H>> \in Least <=> H = G
<1>1. \A S \in SUBSET C : S # {} => first(S) \in S /\ first(S) \in CGNode \X CGNode /\ S \ {first(S)} \in SUBSET C
  OBVIOUS
<1> HIDE DEF first
<1>2. Rules(Least)
  <2>1. {} \in SUBSET C OBVIOUS
  <2>2. \A S \in SUBSET C : \A G \in Added : S # {} => addCopyEdge(first(S), G) \in Added
    BY <1>1, AddedOne
  <2> QED BY <2>1, <2>2
<1>3. \A R \in SUBSET ((SUBSET C) \X Added) : Rules(R) => Least \subseteq R OBVIOUS
<1>4. Least \in SUBSET ((SUBSET C) \X Added) OBVIOUS
<1> HIDE DEF Least
<1>5. \A H \in Added : <<{}, H>> \in Least => H = G0
  <2> SUFFICES ASSUME NEW H \in Added, <<{}, H>> \in Least, H # G0 PROVE FALSE OBVIOUS
  <2> DEFINE R == Least \ {<<{}, H>>}
  <2>1. Rules(R) BY <1>2
  <2>2. R \in SUBSET ((SUBSET C) \X Added) BY <1>4
  <2>3. Least \subseteq R BY <2>1, <2>2, <1>3
  <2> QED BY <2>3
<1>6. ASSUME NEW S \in SUBSET C, S # {}, NEW H \in Added, <<S, H>> \in Least
      PROVE  \E G \in Added : <<S \ {first(S)}, G>> \in Least /\ H = addCopyEdge(first(S), G)
  <2> SUFFICES ASSUME ~\E G \in Added : <<S \ {first(S)}, G>> \in Least /\ H = addCopyEdge(first(S), G)
               PROVE FALSE OBVIOUS
  <2> DEFINE R == Least \ {<<S, H>>}
  <2>1. Rules(R)
    <3>1. <<{}, G0>> \in R BY <1>2, <1>6
    <3>2. ASSUME NEW T \in SUBSET C, NEW G \in Added, T # {}, <<T \ {first(T)}, G>> \in R
          PROVE  <<T, addCopyEdge(first(T), G)>> \in R
      BY <3>2, <1>2
    <3> QED BY <3>1, <3>2
  <2>2. R \in SUBSET ((SUBSET C) \X Added) BY <1>4
  <2>3. Least \subseteq R BY <2>1, <2>2, <1>3
  <2> QED BY <2>3, <1>6
<1>7. \A S \in SUBSET C : One(S)
  <2> DEFINE Bad == {S \in SUBSET C : ~One(S)}
  <2> SUFFICES ASSUME Bad # {} PROVE FALSE OBVIOUS
  <2>1. PICK S \in Bad : \A T \in Bad : ~(<<T, S>> \in StrictSubsetOrdering(C))
    <3>1. IsWellFoundedOn(StrictSubsetOrdering(C), FiniteSubsetsOf(C)) /\ FiniteSubsetsOf(C) = SUBSET C
      BY FS_StrictSubsetOrderingWellFounded, FS_FiniteSubsetsOfFinite
    <3>2. Bad \subseteq FiniteSubsetsOf(C) BY <3>1
    <3> HIDE DEF Bad
    <3> QED BY <3>1, <3>2, WFMin
  <2>2. S \in SUBSET C /\ ~One(S) OBVIOUS
  <2>3. S # {}
    <3>1. One({}) BY <1>2, <1>5
    <3> QED BY <3>1, <2>2
  <2>4. S \ {first(S)} \in SUBSET C /\ <<S \ {first(S)}, S>> \in StrictSubsetOrdering(C)
    BY <1>1, <2>2, <2>3 DEF StrictSubsetOrdering
  <2>5. One(S \ {first(S)}) BY <2>1, <2>4
  <2>6. PICK G \in Added : \A H \in Added : <<S \ {first(S)}, H>> \in Least <=> H = G BY <2>5
  <2>7. addCopyEdge(first(S), G) \in Added BY <1>1, <2>2, <2>3, AddedOne
  <2>8. <<S, addCopyEdge(first(S), G)>> \in Least BY <2>2, <2>3, <2>6, <1>2
  <2>9. \A H \in Added : <<S, H>> \in Least => H = addCopyEdge(first(S), G) BY <2>2, <2>3, <2>6, <1>6
  <2> QED BY <2>2, <2>7, <2>8, <2>9
<1> DEFINE f == [S \in SUBSET C |-> CHOOSE G \in Added : <<S, G>> \in Least]
<1>8. \A S \in SUBSET C : f[S] \in Added /\ <<S, f[S]>> \in Least /\ \A G \in Added : <<S, G>> \in Least => G = f[S]
  BY <1>7
<1>9. f \in [SUBSET C -> Added] BY <1>8
<1>10. ASSUME NEW S \in SUBSET C
       PROVE  f[S] = IF S = {} THEN G0 ELSE addCopyEdge(first(S), f[S \ {first(S)}])
  <2>1. CASE S = {} BY <2>1, <1>2, <1>8
  <2>2. CASE S # {}
    <3>1. S \ {first(S)} \in SUBSET C BY <2>2, <1>1
    <3>2. addCopyEdge(first(S), f[S \ {first(S)}]) \in Added BY <3>1, <2>2, <1>1, <1>8, AddedOne
    <3>3. <<S, addCopyEdge(first(S), f[S \ {first(S)}])>> \in Least BY <3>1, <2>2, <1>2, <1>8
    <3> QED BY <3>2, <3>3, <2>2, <1>8
  <2> QED BY <2>1, <2>2
<1> HIDE DEF f
<1>11. f = [S \in SUBSET C |-> f[S]] BY <1>9
<1>12. f = [S \in SUBSET C |-> IF S = {} THEN G0 ELSE LET x == CHOOSE x \in S : TRUE IN addCopyEdge(x, f[S \ {x}])]
  BY <1>10, <1>11 DEF first
<1> QED BY <1>9, <1>12 DEF EdgeFold

\* What a set of edges does to the graph, in whatever order it is added.
AddedEdges(C, E, P, G) ==
    /\ G \in Added /\ G.edges = E \union {c \in C : c[1] # c[2]}
    /\ G.from = {c[1] : c \in {x \in C \ E : x[1] # x[2]}}
    /\ \A n \in CGNode : G.propa[n] \subseteq P[n] /\ (n \notin G.from => G.propa[n] = P[n])
    /\ \A c \in C \ E : c[1] # c[2] => G.propa[c[1]] \subseteq P[c[2]]

LEMMA AddedNext ==
    ASSUME NEW E \in SUBSET (CGNode \X CGNode), NEW P \in [CGNode -> SUBSET Obj],
           NEW C \in SUBSET (CGNode \X CGNode), NEW x \in C, NEW G, AddedEdges(C \ {x}, E, P, G)
    PROVE  AddedEdges(C, E, P, addCopyEdge(x, G))
<1>1. x \in CGNode \X CGNode /\ x[1] \in CGNode /\ x[2] \in CGNode /\ G \in Added BY DEF AddedEdges
<1> DEFINE H == addCopyEdge(x, G)
<1>2. H \in Added BY <1>1, AddedOne
<1>3. CASE x[1] = x[2]
  <2>1. H = G BY <1>3 DEF addCopyEdge
  <2>2. {c \in C : c[1] # c[2]} = {c \in C \ {x} : c[1] # c[2]} BY <1>3
  <2>3. {c \in C \ E : c[1] # c[2]} = {c \in (C \ {x}) \ E : c[1] # c[2]} BY <1>3
  <2> QED BY <2>1, <2>2, <2>3, <1>3 DEF AddedEdges
<1>4. CASE x[1] # x[2] /\ x \in G.edges
  <2>1. H = G BY <1>4 DEF addCopyEdge
  <2>2. x \in E BY <1>4 DEF AddedEdges
  <2>3. E \union {c \in C : c[1] # c[2]} = E \union {c \in C \ {x} : c[1] # c[2]} BY <2>2
  <2>4. C \ E = (C \ {x}) \ E BY <2>2
  <2> QED BY <2>1, <2>2, <2>3, <2>4 DEF AddedEdges
<1>5. CASE x[1] # x[2] /\ x \notin G.edges
  <2>1. H = [edges |-> G.edges \union {x}, propa |-> propaAfterEdge(x[1], x[2], G.propa),
             from |-> G.from \union {x[1]}]
    BY <1>5 DEF addCopyEdge
  <2>2. G.propa \in [CGNode -> SUBSET Obj] BY DEF AddedEdges, Added
  <2>3. /\ H.edges = G.edges \union {x} /\ H.from = G.from \union {x[1]}
        /\ H.propa = [G.propa EXCEPT ![x[1]] = G.propa[x[1]] \intersect G.propa[x[2]]]
    BY <2>1 DEF propaAfterEdge
  <2>4. x \notin E BY <1>5 DEF AddedEdges
  <2>5. \A n \in CGNode : /\ H.propa[n] \subseteq G.propa[n]
                          /\ n # x[1] => H.propa[n] = G.propa[n]
    BY <2>2, <2>3
  <2>6. H.propa[x[1]] \subseteq G.propa[x[2]] BY <1>1, <2>2, <2>3
  <2>7. /\ G.edges = E \union {c \in C \ {x} : c[1] # c[2]}
        /\ G.from = {c[1] : c \in {y \in (C \ {x}) \ E : y[1] # y[2]}}
        /\ \A n \in CGNode : G.propa[n] \subseteq P[n] /\ (n \notin G.from => G.propa[n] = P[n])
        /\ \A c \in (C \ {x}) \ E : c[1] # c[2] => G.propa[c[1]] \subseteq P[c[2]]
    BY DEF AddedEdges
  <2> HIDE DEF H
  <2>8. H.edges = E \union {c \in C : c[1] # c[2]} BY <2>3, <2>7, <1>5
  <2>9. H.from = {c[1] : c \in {y \in C \ E : y[1] # y[2]}} BY <2>3, <2>4, <2>7, <1>5
  <2>10. \A n \in CGNode : H.propa[n] \subseteq P[n] /\ (n \notin H.from => H.propa[n] = P[n])
    BY <2>3, <2>5, <2>7
  <2>11. ASSUME NEW c \in C \ E, c[1] # c[2] PROVE H.propa[c[1]] \subseteq P[c[2]]
    <3>1. c[1] \in CGNode /\ c[2] \in CGNode OBVIOUS
    <3>2. CASE c = x BY <3>2, <2>6, <2>7, <1>1
    <3>3. CASE c # x BY <3>1, <3>3, <2>5, <2>7, <2>11
    <3> QED BY <3>2, <3>3
  <2>12. AddedEdges(C, E, P, H) BY <1>2, <2>8, <2>9, <2>10, <2>11 DEF AddedEdges
  <2> QED BY <2>12 DEF H
<1> QED BY <1>3, <1>4, <1>5

LEMMA FoldedEdges ==
    ASSUME NEW E \in SUBSET (CGNode \X CGNode), NEW P \in [CGNode -> SUBSET Obj],
           NEW C \in SUBSET (CGNode \X CGNode)
    PROVE  AddedEdges(C, E, P, FoldSet(addCopyEdge, [edges |-> E, propa |-> P, from |-> {}], C))
<1> DEFINE G0 == [edges |-> E, propa |-> P, from |-> {}]
<1>1. IsFiniteSet(C)
  <2>1. IsFiniteSet(CGNode \X CGNode) BY CGNodeFinite, FS_Product
  <2> QED BY <2>1, FS_Subset
<1>2. G0 \in Added BY DEF Added
<1> DEFINE f == CHOOSE f : EdgeFold(C, G0, f)
<1>3. FoldSet(addCopyEdge, G0, C) = f[C]
  BY DEF FoldSet, MapThenFoldSet, EdgeFold
<1>4. EdgeFold(C, G0, f)
  <2>1. \E g : EdgeFold(C, G0, g) BY <1>1, <1>2, EdgeFoldExists
  <2> QED BY <2>1
<1>5. \A S \in SUBSET C : f[S] = IF S = {} THEN G0
                                 ELSE LET x == CHOOSE x \in S : TRUE IN addCopyEdge(x, f[S \ {x}])
  BY <1>4 DEF EdgeFold
<1> HIDE DEF f, G0
<1>6. \A S \in SUBSET C : AddedEdges(S, E, P, f[S])
  <2> DEFINE Bad == {S \in SUBSET C : ~AddedEdges(S, E, P, f[S])}
  <2> SUFFICES ASSUME Bad # {} PROVE FALSE OBVIOUS
  <2>1. PICK S \in Bad : \A T \in Bad : ~(<<T, S>> \in StrictSubsetOrdering(C))
    <3>1. IsWellFoundedOn(StrictSubsetOrdering(C), FiniteSubsetsOf(C)) /\ FiniteSubsetsOf(C) = SUBSET C
      BY <1>1, FS_StrictSubsetOrderingWellFounded, FS_FiniteSubsetsOfFinite
    <3>2. Bad \subseteq FiniteSubsetsOf(C) BY <3>1
    <3> HIDE DEF Bad
    <3> QED BY <3>1, <3>2, WFMin
  <2>2. S \in SUBSET C /\ ~AddedEdges(S, E, P, f[S]) OBVIOUS
  <2>3. CASE S = {}
    <3>1. f[S] = G0 BY <1>5, <2>2, <2>3
    <3>2. G0.edges = E /\ G0.propa = P /\ G0.from = {} BY DEF G0
    <3> QED BY <1>2, <2>2, <2>3, <3>1, <3>2 DEF AddedEdges
  <2>4. CASE S # {}
    <3>1. PICK x \in S : x = CHOOSE y \in S : TRUE BY <2>4
    <3>2. f[S] = addCopyEdge(x, f[S \ {x}]) BY <1>5, <2>2, <2>4, <3>1
    <3>3. S \ {x} \in SUBSET C /\ <<S \ {x}, S>> \in StrictSubsetOrdering(C)
      BY <2>2, <3>1 DEF StrictSubsetOrdering
    <3>4. AddedEdges(S \ {x}, E, P, f[S \ {x}]) BY <2>1, <3>3
    <3>5. AddedEdges(S, E, P, addCopyEdge(x, f[S \ {x}]))
      <4>1. PICK G : G = f[S \ {x}] OBVIOUS
      <4>2. S \in SUBSET (CGNode \X CGNode) BY <2>2
      <4> QED BY <4>1, <4>2, <3>1, <3>4, AddedNext
    <3> QED BY <3>2, <3>5, <2>2
  <2> QED BY <2>3, <2>4
<1>7. AddedEdges(C, E, P, f[C]) BY <1>6
<1> QED BY <1>3, <1>7 DEF G0

\* A path of copy edges leads from a to b, without recursion: b is in whatever
\* holds a and is closed under the edges.
Leads(E, a, b) ==
    \A T \in SUBSET CGNode : a \in T /\ (\A c \in E : c[1] \in T => c[2] \in T) => b \in T
OnCycle(E, a, b) == a # b /\ Leads(E, a, b) /\ Leads(E, b, a)
Edges == SUBSET (CGNode \X CGNode)

LEMMA LeadsOn ==
    ASSUME NEW E \in Edges, NEW a \in CGNode
    PROVE  /\ Leads(E, a, a)
           /\ \A c \in E : Leads(E, a, c[1]) => Leads(E, a, c[2])
           /\ \A c \in E : Leads(E, c[2], a) => Leads(E, c[1], a)
           /\ \A b, d \in CGNode : Leads(E, a, b) /\ Leads(E, b, d) => Leads(E, a, d)
           /\ \A F \in Edges : E \subseteq F => \A b : Leads(E, a, b) => Leads(F, a, b)
<1>1. Leads(E, a, a) BY DEF Leads
<1>2. \A c \in E : Leads(E, a, c[1]) => Leads(E, a, c[2]) BY DEF Leads
<1>3. \A c \in E : Leads(E, c[2], a) => Leads(E, c[1], a) BY DEF Leads
<1>4. \A b, d \in CGNode : Leads(E, a, b) /\ Leads(E, b, d) => Leads(E, a, d) BY DEF Leads
<1>5. \A F \in Edges : E \subseteq F => \A b : Leads(E, a, b) => Leads(F, a, b) BY DEF Leads
<1> QED BY <1>1, <1>2, <1>3, <1>4, <1>5

\* Only a node with an edge out of it leads elsewhere, only one with an edge
\* into it is led to.
LEMMA LeadsByEdge ==
    ASSUME NEW E \in Edges, NEW a \in CGNode, NEW b \in CGNode, a # b, Leads(E, a, b)
    PROVE  (\E c \in E : c[1] = a) /\ (\E c \in E : c[2] = b)
<1>1. \E c \in E : c[1] = a
  <2> SUFFICES ASSUME \A c \in E : c[1] # a PROVE FALSE OBVIOUS
  <2>1. {a} \in SUBSET CGNode /\ a \in {a} /\ \A c \in E : c[1] \in {a} => c[2] \in {a} OBVIOUS
  <2> QED BY <2>1 DEF Leads
<1>2. \E c \in E : c[2] = b
  <2> SUFFICES ASSUME \A c \in E : c[2] # b PROVE FALSE OBVIOUS
  <2>1. CGNode \ {b} \in SUBSET CGNode /\ a \in CGNode \ {b}
        /\ \A c \in E : c[1] \in CGNode \ {b} => c[2] \in CGNode \ {b}
    BY DEF Edges
  <2> QED BY <2>1 DEF Leads
<1> QED BY <1>1, <1>2

\* A cycle that more edges make goes through one of them.
LEMMA CycleThroughNew ==
    ASSUME NEW E \in Edges, NEW N \in Edges, NEW a \in CGNode, NEW b \in CGNode, OnCycle(E \union N, a, b)
    PROVE  OnCycle(E, a, b) \/ \E c \in N : Leads(E \union N, a, c[1]) /\ Leads(E \union N, c[1], a)
<1> DEFINE F == E \union N
<1> SUFFICES ASSUME \A c \in N : ~(Leads(F, a, c[1]) /\ Leads(F, c[1], a)) PROVE OnCycle(E, a, b)
  OBVIOUS
<1>0. F \in Edges BY DEF Edges
<1>1. ASSUME NEW x \in CGNode, NEW y \in CGNode, Leads(F, x, y), Leads(F, a, x), Leads(F, y, a)
      PROVE  Leads(E, x, y)
  <2> DEFINE T == {t \in CGNode : Leads(E, x, t) \/ ~Leads(F, t, a)}
  <2>1. T \in SUBSET CGNode /\ x \in T BY LeadsOn
  <2>2. ASSUME NEW c \in F, c[1] \in T PROVE c[2] \in T
    <3>0. c[1] \in CGNode /\ c[2] \in CGNode BY <1>0, <2>2 DEF Edges
    <3>1. CASE ~Leads(F, c[2], a) BY <3>0, <3>1
    <3>2. CASE Leads(F, c[2], a)
      <4>1. Leads(F, c[1], a) BY <3>0, <3>2, <1>0, <2>2, LeadsOn
      <4>2. Leads(E, x, c[1]) BY <4>1, <2>2
      <4>3. Leads(F, x, c[1]) BY <4>2, <1>0, LeadsOn
      <4>4. Leads(F, a, c[1]) BY <4>3, <3>0, <1>0, <1>1, LeadsOn
      <4>5. c \notin N BY <4>1, <4>4
      <4>6. c \in E BY <4>5, <2>2
      <4>7. Leads(E, x, c[2]) BY <4>2, <4>6, LeadsOn
      <4> QED BY <4>7, <3>0
    <3> QED BY <3>1, <3>2
  <2>3. y \in T
    <3> HIDE DEF T, F
    <3> QED BY <2>1, <2>2, <1>1 DEF Leads
  <2> QED BY <2>3, <1>1
<1>2. Leads(F, a, b) /\ Leads(F, b, a) /\ a # b BY DEF OnCycle
<1>3. Leads(F, a, a) BY <1>0, LeadsOn
<1> HIDE DEF F
<1>4. Leads(E, a, b) BY <1>1, <1>2, <1>3
<1>5. Leads(E, b, a) BY <1>1, <1>2, <1>3
<1> QED BY <1>2, <1>4, <1>5 DEF OnCycle

\* Where nothing is on a cycle, some node comes before the others.
LEMMA FirstInOrder ==
    ASSUME NEW E \in Edges, NEW S \in SUBSET CGNode, S # {},
           \A n \in S : \A m \in CGNode : ~OnCycle(E, n, m),
           \A c \in E : c[1] # c[2]
    PROVE  \E m \in S : \A k \in S : <<k, m>> \notin E
<1> DEFINE Under(n) == {k \in CGNode : Leads(E, k, n)}
           All == {Under(n) : n \in S}
<1>1. PICK n \in S : \A k \in S : ~(<<Under(k), Under(n)>> \in StrictSubsetOrdering(CGNode))
  <2>1. IsWellFoundedOn(StrictSubsetOrdering(CGNode), FiniteSubsetsOf(CGNode))
        /\ FiniteSubsetsOf(CGNode) = SUBSET CGNode
    BY CGNodeFinite, FS_StrictSubsetOrderingWellFounded, FS_FiniteSubsetsOfFinite
  <2>2. All \subseteq FiniteSubsetsOf(CGNode) /\ All # {}
    <3>1. \A m \in S : Under(m) \in SUBSET CGNode OBVIOUS
    <3> HIDE DEF Under
    <3>2. All \subseteq SUBSET CGNode BY <3>1
    <3>3. PICK m \in S : TRUE OBVIOUS
    <3>4. Under(m) \in All BY <3>3
    <3> QED BY <3>2, <3>4, <2>1
  <2>3. \E U \in All : \A V \in All : ~(<<V, U>> \in StrictSubsetOrdering(CGNode))
    <3> HIDE DEF All
    <3> QED BY <2>1, <2>2, WFMin
  <2> QED BY <2>3
<1>2. ASSUME NEW k \in S, <<k, n>> \in E PROVE FALSE
  <2>1. k \in CGNode /\ n \in CGNode /\ k # n BY <1>2
  <2>2. Leads(E, k, n)
    <3>1. Leads(E, n, n) BY <2>1, LeadsOn
    <3> QED BY <3>1, <2>1, <1>2, LeadsOn
  <2>3. Under(k) \subseteq Under(n) BY <2>1, <2>2, LeadsOn
  <2>4. n \in Under(n) BY <2>1, LeadsOn
  <2>5. n \notin Under(k) BY <2>1, <2>2 DEF OnCycle
  <2>6. <<Under(k), Under(n)>> \in StrictSubsetOrdering(CGNode)
    BY <2>3, <2>4, <2>5 DEF StrictSubsetOrdering
  <2> QED BY <2>6, <1>1
<1> QED BY <1>2

LEMMA ReachedFromRight ==
    ASSUME copyEdges \in Edges, NEW S \in SUBSET CGNode
    PROVE  ReachedFrom(S) = {t \in CGNode : \E s \in S : Leads(copyEdges, s, t)}
<1> DEFINE D == SUBSET CGNode
           F == [T \in D |-> T \union succs(T)]
           grow == CHOOSE g : g = [T \in SUBSET CGNode |-> IF succs(T) \subseteq T THEN T ELSE g[T \union succs(T)]]
           K == {T \in D : S \subseteq T /\ \A t \in T : \E s \in S : Leads(copyEdges, s, t)}
<1>1. \A T \in D : succs(T) \in D BY DEF succs, Edges
<1>2. F \in [D -> D] BY <1>1
<1>3. \A T \in D : (F[T] = T) <=> succs(T) \subseteq T BY <1>1
<1>4. \A g : Iterates(D, F, g) <=> g = [T \in SUBSET CGNode |-> IF succs(T) \subseteq T THEN T ELSE g[T \union succs(T)]]
  <2> TAKE g
  <2>1. [x \in D |-> IF F[x] = x THEN x ELSE g[F[x]]]
        = [T \in SUBSET CGNode |-> IF succs(T) \subseteq T THEN T ELSE g[T \union succs(T)]]
    BY <1>3
  <2> QED BY <2>1 DEF Iterates
<1>5. Iterates(D, F, grow)
  <2>1. \E g : Iterates(D, F, g) BY <1>2, GrowExists
  <2> QED BY <2>1, <1>4
<1>6. ReachedFrom(S) = grow[S] BY DEF ReachedFrom
<1>7. K \in SUBSET D /\ S \in K
  <2>1. \A s \in S : Leads(copyEdges, s, s) BY LeadsOn
  <2> QED BY <2>1
<1>8. ClosedUnder(F, K)
  <2> SUFFICES ASSUME NEW T \in K PROVE T \union succs(T) \in K BY DEF ClosedUnder
  <2>1. T \in D /\ S \subseteq T /\ T \union succs(T) \in D BY <1>1
  <2>2. ASSUME NEW t \in succs(T) PROVE \E s \in S : Leads(copyEdges, s, t)
    <3>1. PICK c \in copyEdges : c[1] \in T /\ c[2] = t BY DEF succs
    <3>2. PICK s \in S : Leads(copyEdges, s, c[1]) BY <3>1
    <3> QED BY <3>1, <3>2, LeadsOn
  <2> QED BY <2>1, <2>2
<1>9. grow[S] \in K /\ F[grow[S]] = grow[S]
  <2> DEFINE size == [T \in D |-> T]
  <2>1. size \in [D -> SUBSET CGNode] OBVIOUS
  <2>2. \A T \in K : F[T] # T => size[T] \subseteq size[F[T]] /\ size[T] # size[F[T]] BY <1>2
  <2> HIDE DEF F, K, size, grow, D
  <2> QED BY <1>2, <1>5, <1>7, <1>8, <2>1, <2>2, CGNodeFinite, GrowEnds
<1>10. PICK R \in K : R = grow[S] BY <1>9
<1>11. \A c \in copyEdges : c[1] \in R => c[2] \in R
  <2>1. R \in D /\ F[R] = R BY <1>9, <1>10
  <2>2. succs(R) \subseteq R BY <2>1, <1>3
  <2> QED BY <2>2 DEF succs
<1>12. \A s \in S : \A t : Leads(copyEdges, s, t) => t \in R BY <1>10, <1>11 DEF Leads
<1>13. R = {t \in CGNode : \E s \in S : Leads(copyEdges, s, t)} BY <1>10, <1>12
<1> QED BY <1>6, <1>10, <1>13

IsRep(n) == rep[n] = n
Access == [src : CGNode, dst : CGNode, loc : Loc]
\* Only nodes that represent themselves have edges and are waiting.
CGShape ==
    /\ CGTypeOK /\ loadEdges \in SUBSET Access /\ storeEdges \in SUBSET Access
    /\ \A n \in CGNode : IsRep(rep[n])
    /\ \A c \in copyEdges : IsRep(c[1]) /\ IsRep(c[2]) /\ c[1] # c[2]
    /\ \A e \in loadEdges \union storeEdges : IsRep(e.src) /\ IsRep(e.dst)
    /\ \A n \in sccCandidates \union nodeStack \union cgWorklist : IsRep(n)
\* Which of the lists are in use in which part of a round.
Phases ==
    /\ pc # "wave" => nodeStack = {}
    /\ pc # "accesses" => dueStores = {}
    /\ pc \in {"detect", "connect", "done"} => cgWorklist = {}
    /\ pc = "wave" => sccCandidates = {}
    /\ pc \in {"accesses", "connect"} /\ sccCandidates # {} => reanalyze
    /\ pc = "done" => sccCandidates = {}
\* What counts as propagated is there, and has arrived wherever it had to.
CGArrived ==
    /\ \A n \in CGNode : IsRep(n) => Emptied(n) \/ propa[n] \subseteq cgPts[n]
    /\ \A c \in copyEdges : Emptied(c[2]) \/ propa[c[1]] \subseteq cgPts[c[2]]
    /\ \A l \in AddrStmts : Emptied(rep[Pointer(l)]) \/ stmt(l).obj \subseteq getPts(Pointer(l))
\* A node with news is the source of a new edge or will be met by the wave.
CGPending == \A n \in CGNode : IsRep(n) =>
    \/ cgPts[n] \subseteq propa[n] \/ n \in sccCandidates
    \/ n \in nodeStack /\ n \in cgWorklist
\* What the wave has before it has no cycles and is left by no edge.
WaveAhead == \A n \in nodeStack :
    /\ \A m \in CGNode : ~OnCycle(copyEdges, n, m)
    /\ \A c \in copyEdges : c[1] = n => c[2] \in nodeStack
\* Every cycle is empty or has the source of a new edge on it, from where the
\* next search will find it.
CycleFound == \A n, m \in CGNode : OnCycle(copyEdges, n, m) =>
    cgPts[n] = {} \/ \E k \in sccCandidates : k = n \/ OnCycle(copyEdges, n, k)
\* An access that is not to be handled again has an edge for every target.
ToHandle(n) == n \in cgWorklist \/ (pc = "detect" /\ n \in sccCandidates)
LoadDone(e) == \A o \in cgPts[e.src] \ prog.const : Linked(<<version(o, e), e.dst>>)
StoreDone(e) == \A o \in cgPts[e.dst] \ prog.const : Linked(<<e.src, version(o, e)>>)
AccessesDone ==
    /\ \A e \in loadEdges : ToHandle(e.src) \/ LoadDone(e)
    /\ \A e \in storeEdges : ToHandle(e.dst) \/ e \in dueStores \/ StoreDone(e)
SCDInv == /\ prog \in Programs /\ CGShape /\ Phases /\ CGArrived /\ CGPending /\ WaveAhead
          /\ CycleFound /\ AccessesDone

LEMMA SCDDone == ASSUME SCDInv PROVE SolvedUnlessEmptied
<1>1. CGTypeOK BY DEF SCDInv, CGShape
<1> SUFFICES ASSUME pc = "done"
             PROVE  /\ \A c \in copyEdges : Emptied(c[2]) \/ cgPts[c[1]] \subseteq cgPts[c[2]]
                    /\ \A l \in AddrStmts : Emptied(rep[Pointer(l)]) \/ stmt(l).obj \subseteq getPts(Pointer(l))
                    /\ \A e \in loadEdges : LoadDone(e)
                    /\ \A e \in storeEdges : StoreDone(e)
  BY <1>1 DEF SolvedUnlessEmptied, LoadDone, StoreDone
<1>2. nodeStack = {} /\ dueStores = {} /\ cgWorklist = {} /\ sccCandidates = {} BY DEF SCDInv, Phases
<1>3. \A n \in CGNode : IsRep(n) => cgPts[n] \subseteq propa[n] BY <1>2 DEF SCDInv, CGPending
<1>4. ASSUME NEW c \in copyEdges PROVE Emptied(c[2]) \/ cgPts[c[1]] \subseteq cgPts[c[2]]
  <2>1. c[1] \in CGNode /\ IsRep(c[1]) BY DEF SCDInv, CGShape, CGTypeOK
  <2>2. cgPts[c[1]] \subseteq propa[c[1]] BY <2>1, <1>3
  <2>3. Emptied(c[2]) \/ propa[c[1]] \subseteq cgPts[c[2]] BY DEF SCDInv, CGArrived
  <2> QED BY <2>2, <2>3
<1>5. \A l \in AddrStmts : Emptied(rep[Pointer(l)]) \/ stmt(l).obj \subseteq getPts(Pointer(l))
  BY DEF SCDInv, CGArrived
<1>6. \A e \in loadEdges : LoadDone(e) BY <1>2 DEF SCDInv, AccessesDone, ToHandle
<1>7. \A e \in storeEdges : StoreDone(e) BY <1>2 DEF SCDInv, AccessesDone, ToHandle
<1> QED BY <1>4, <1>5, <1>6, <1>7

\* Everything is a node of the graph.
LEMMA CGTypes ==
    ASSUME prog \in Programs
    PROVE  /\ \A S, T \in SUBSET Var : Pairs(S, T) \in Edges
           /\ \A E \in SUBSET (prog.passes \union UNION {k.passes : k \in prog.calls}) : PassCopies(prog, E) \in Edges
           /\ CopyEdges(prog) \in Edges
           /\ \A o \in Obj, l \in Loc : getAddrDef(prog, o, l) \in CGNode
           /\ \A l \in AddrStmts : Pointer(l) \in CGNode /\ stmt(l).obj \subseteq Obj
<1>1. prog \in Program /\ WellFormed(prog) BY ProgramsAssumption
<1>2. /\ \A l \in Loc : prog.stmt[l] \in Stmt
      /\ prog.passes \subseteq Loc \X Loc /\ prog.flows \subseteq Flow /\ prog.calls \subseteq Call
  BY <1>1 DEF Program
<1>3. \A l \in Loc : prog.stmt[l].src \in SUBSET Var /\ prog.stmt[l].dst \in SUBSET Var /\ prog.stmt[l].obj \in SUBSET Obj
  BY <1>2 DEF Stmt
<1>4. \A v \in Var \union Obj : plain(v) \in CGNode BY DEF CGNode
<1>5. Obj \X Loc \subseteq CGNode BY DEF CGNode
<1>6. ASSUME NEW S \in SUBSET Var, NEW T \in SUBSET Var PROVE Pairs(S, T) \in Edges
  <2>1. {plain(v) : v \in S} \subseteq CGNode /\ {plain(v) : v \in T} \subseteq CGNode BY <1>4
  <2> QED BY <2>1 DEF Pairs, Edges
<1>7. \A k \in prog.calls : k.passes \subseteq Loc \X Loc BY <1>2 DEF Call
<1>8. ASSUME NEW E \in SUBSET (prog.passes \union UNION {k.passes : k \in prog.calls})
      PROVE  PassCopies(prog, E) \in Edges
  <2>1. E \subseteq Loc \X Loc BY <1>2, <1>7
  <2>2. \A e \in E : Pairs(prog.stmt[e[1]].src, prog.stmt[e[2]].dst) \in Edges BY <2>1, <1>3, <1>6
  <2> QED BY <2>2 DEF PassCopies, Edges
<1>9. CopyEdges(prog) \in Edges
  <2>1. \A l \in Loc : Pairs(prog.stmt[l].src, prog.stmt[l].dst) \in Edges BY <1>3, <1>6
  <2>2. PassCopies(prog, prog.passes) \in Edges BY <1>8
  <2>3. PassCopies(prog, {e \in prog.passes : e[1] \in FormalRet}) \in Edges BY <1>8
  <2>4. {<<c[2], c[1]>> : c \in PassCopies(prog, {e \in prog.passes : e[1] \in FormalRet})} \in Edges
    <3>1. \A c \in PassCopies(prog, {e \in prog.passes : e[1] \in FormalRet}) : <<c[2], c[1]>> \in CGNode \X CGNode
      BY <2>3 DEF Edges
    <3> QED BY <3>1 DEF Edges
  <2>5. {<<<<f.obj, f.from>>, <<f.obj, f.to>>>> : f \in indirectEdgeSet(prog)} \in Edges
    <3>1. \A f \in prog.flows : f.obj \in Obj /\ f.from \in Loc /\ f.to \in Loc BY <1>2 DEF Flow
    <3>2. \A f \in indirectEdgeSet(prog) : <<f.obj, f.from>> \in CGNode /\ <<f.obj, f.to>> \in CGNode
      BY <3>1, <1>5 DEF indirectEdgeSet
    <3> QED BY <3>2 DEF Edges
  <2>6. UNION {Pairs(prog.stmt[l].src, prog.stmt[l].dst) : l \in {k \in Loc : prog.stmt[k].kind = "copy"}} \in Edges
    BY <2>1 DEF Edges
  <2> QED BY <2>2, <2>4, <2>5, <2>6 DEF CopyEdges, Edges
<1>10. \A o \in Obj, l \in Loc : getAddrDef(prog, o, l) \in CGNode BY <1>4, <1>5 DEF getAddrDef
<1>11. ASSUME NEW l \in AddrStmts PROVE Pointer(l) \in CGNode /\ stmt(l).obj \subseteq Obj
  <2>1. l \in Loc /\ prog.stmt[l].kind = "addr" BY DEF AddrStmts, stmt
  <2>2. Single(prog.stmt[l].dst) BY <2>1, <1>1 DEF WellFormed
  <2>3. Only(prog.stmt[l].dst) \in prog.stmt[l].dst BY <2>2 DEF Single, Only
  <2> QED BY <2>1, <2>3, <1>3, <1>4 DEF Pointer, stmt
<1> QED BY <1>6, <1>8, <1>9, <1>10, <1>11

\* The last of the places is one of them.
LEMMA MaxIn ==
    ASSUME NEW S \in SUBSET Loc, S # {}
    PROVE  Max(S) \in S
<1>1. \A n \in S : n \in Nat BY FSConsGAssumption
<1> DEFINE Above(n) == {k \in S : k > n}
           All == {Above(n) : n \in S}
<1>2. PICK n \in S : \A k \in S : ~(<<Above(k), Above(n)>> \in StrictSubsetOrdering(S))
  <2>1. IsWellFoundedOn(StrictSubsetOrdering(S), FiniteSubsetsOf(S)) /\ FiniteSubsetsOf(S) = SUBSET S
    <3>1. IsFiniteSet(S) BY SVFGAssumption, FS_Subset
    <3> QED BY <3>1, FS_StrictSubsetOrderingWellFounded, FS_FiniteSubsetsOfFinite
  <2>2. All \subseteq FiniteSubsetsOf(S) /\ All # {}
    <3>1. \A m \in S : Above(m) \in SUBSET S OBVIOUS
    <3> HIDE DEF Above
    <3>2. All \subseteq SUBSET S BY <3>1
    <3>3. PICK m \in S : TRUE OBVIOUS
    <3>4. Above(m) \in All BY <3>3
    <3> QED BY <3>2, <3>4, <2>1
  <2>3. \E U \in All : \A V \in All : ~(<<V, U>> \in StrictSubsetOrdering(S))
    <3> HIDE DEF All
    <3> QED BY <2>1, <2>2, WFMin
  <2> QED BY <2>3
<1>3. \A k \in S : n >= k
  <2> SUFFICES ASSUME NEW k \in S, k > n PROVE FALSE BY <1>1
  <2>1. Above(k) \subseteq Above(n) BY <1>1
  <2>2. k \in Above(n) /\ k \notin Above(k) BY <1>1
  <2>3. <<Above(k), Above(n)>> \in StrictSubsetOrdering(S) BY <2>1, <2>2 DEF StrictSubsetOrdering
  <2> QED BY <2>3, <1>2
<1> QED BY <1>3 DEF Max

LEMMA AccessTypes ==
    ASSUME prog \in Programs, NEW kind
    PROVE  AccessEdges(prog, kind) \in SUBSET Access
<1> DEFINE places(v, w) == {l \in Loc : prog.stmt[l].kind = kind /\ prog.stmt[l].src = {v} /\ prog.stmt[l].dst = {w}}
<1>1. ASSUME NEW c \in Var \X Var, places(c[1], c[2]) # {}
      PROVE  [src |-> plain(c[1]), dst |-> plain(c[2]), loc |-> Max(places(c[1], c[2]))] \in Access
  <2>1. places(c[1], c[2]) \in SUBSET Loc OBVIOUS
  <2>2. Max(places(c[1], c[2])) \in Loc BY <2>1, <1>1, MaxIn
  <2>3. plain(c[1]) \in CGNode /\ plain(c[2]) \in CGNode BY DEF CGNode
  <2> QED BY <2>2, <2>3 DEF Access
<1>2. AccessEdges(prog, kind)
      = {[src |-> plain(c[1]), dst |-> plain(c[2]), loc |-> Max(places(c[1], c[2]))] :
           c \in {x \in Var \X Var : places(x[1], x[2]) # {}}}
  BY DEF AccessEdges
<1> HIDE DEF places
<1> QED BY <1>1, <1>2

LEMMA CGInitInv == ASSUME prog \in Programs, CGInit PROVE SCDInv
<1>1. /\ copyEdges = CopyEdges(prog) /\ copyEdges \in Edges
      /\ \A c \in copyEdges : c \in CGNode \X CGNode /\ c[1] \in CGNode /\ c[2] \in CGNode
  BY CGTypes DEF CGInit, Edges
<1>2. loadEdges \in SUBSET Access /\ storeEdges \in SUBSET Access BY AccessTypes DEF CGInit
<1>3. \A e \in loadEdges \union storeEdges : e.src \in CGNode /\ e.dst \in CGNode /\ e.loc \in Loc
  BY <1>2 DEF Access
<1>4. rep = [n \in CGNode |-> n] BY DEF CGInit
<1>5. cgPts = [n \in CGNode |-> UNION {stmt(l).obj : l \in {k \in AddrStmts : n = Pointer(k)}}] BY DEF CGInit
<1>6. \A l \in AddrStmts : Pointer(l) \in CGNode /\ stmt(l).obj \subseteq Obj BY CGTypes
<1>7. cgPts \in [CGNode -> SUBSET Obj] BY <1>5, <1>6
<1>8. sccCandidates = {Pointer(l) : l \in AddrStmts} /\ sccCandidates \subseteq CGNode BY <1>6 DEF CGInit
<1>9. \A n \in CGNode : n \notin sccCandidates => cgPts[n] = {} BY <1>5, <1>8
<1>10. /\ propa = [n \in CGNode |-> {}] /\ nodeStack = {} /\ cgWorklist = {} /\ dueStores = {} /\ cgConnected = {}
       /\ reanalyze = FALSE /\ pc = "detect" /\ cleared = {}
  BY DEF CGInit
<1>11. CGShape
  <2>1. CGTypeOK
    <3>1. UNION {sccCandidates, nodeStack, cgWorklist, cleared} \subseteq CGNode BY <1>8, <1>10
    <3>2. rep \in [CGNode -> CGNode] /\ propa \in [CGNode -> SUBSET Obj] BY <1>4, <1>10
    <3>3. \A e \in loadEdges \union storeEdges : {e.src, e.dst} \subseteq CGNode /\ e.loc \in Loc BY <1>3
    <3> QED BY <1>1, <1>7, <1>10, <3>1, <3>2, <3>3 DEF CGTypeOK, Edges
  <2>2. \A n \in CGNode : IsRep(n) BY <1>4 DEF IsRep
  <2>3. \A c \in copyEdges : c[1] # c[2] BY <1>1 DEF CopyEdges
  <2>4. \A n \in CGNode : IsRep(rep[n]) BY <1>4 DEF IsRep
  <2> QED BY <2>1, <2>2, <2>3, <2>4, <1>1, <1>2, <1>3, <1>8, <1>10 DEF CGShape
<1>12. Phases BY <1>10 DEF Phases
<1>13. CGArrived
  <2>1. \A n \in CGNode : propa[n] = {} BY <1>10
  <2>2. \A c \in copyEdges : propa[c[1]] \subseteq cgPts[c[2]] BY <2>1, <1>1
  <2>3. ASSUME NEW l \in AddrStmts PROVE stmt(l).obj \subseteq getPts(Pointer(l))
    <3>1. rep[Pointer(l)] = Pointer(l) /\ Pointer(l) \in CGNode BY <1>4, <1>6
    <3> QED BY <3>1, <1>5 DEF getPts
  <2> QED BY <2>1, <2>2, <2>3 DEF CGArrived
<1>14. CGPending BY <1>9 DEF CGPending
<1>15. WaveAhead BY <1>10 DEF WaveAhead
<1>16. CycleFound BY <1>9 DEF CycleFound
<1>17. AccessesDone
  <2>1. ASSUME NEW e \in loadEdges PROVE ToHandle(e.src) \/ LoadDone(e)
    <3>1. e.src \in CGNode BY <1>3
    <3> QED BY <3>1, <1>9, <1>10 DEF ToHandle, LoadDone
  <2>2. ASSUME NEW e \in storeEdges PROVE ToHandle(e.dst) \/ StoreDone(e)
    <3>1. e.dst \in CGNode BY <1>3
    <3> QED BY <3>1, <1>9, <1>10 DEF ToHandle, StoreDone
  <2> QED BY <2>1, <2>2 DEF AccessesDone
<1> QED BY <1>11, <1>12, <1>13, <1>14, <1>15, <1>16, <1>17 DEF SCDInv

\* What the parts of the invariant say of edges, accesses and sets.
LEMMA ShapeTypes ==
    ASSUME SCDInv
    PROVE  /\ copyEdges \in Edges /\ rep \in [CGNode -> CGNode]
           /\ cgPts \in [CGNode -> SUBSET Obj] /\ propa \in [CGNode -> SUBSET Obj]
           /\ \A c \in copyEdges : /\ c[1] \in CGNode /\ c[2] \in CGNode /\ c = <<c[1], c[2]>> /\ c[1] # c[2]
                                   /\ IsRep(c[1]) /\ IsRep(c[2])
           /\ \A e \in loadEdges \union storeEdges : /\ e \in Access /\ e.src \in CGNode /\ e.dst \in CGNode
                                                     /\ e.loc \in Loc /\ IsRep(e.src) /\ IsRep(e.dst)
           /\ sccCandidates \subseteq CGNode /\ nodeStack \subseteq CGNode /\ cgWorklist \subseteq CGNode
           /\ cleared \subseteq CGNode /\ dueStores \subseteq storeEdges /\ cgConnected \subseteq prog.calls
           /\ \A l \in AddrStmts : Pointer(l) \in CGNode /\ rep[Pointer(l)] \in CGNode
<1>1. CGTypeOK BY DEF SCDInv, CGShape
<1>2. copyEdges \in Edges BY <1>1 DEF CGTypeOK, Edges
<1>3. \A c \in copyEdges : c[1] \in CGNode /\ c[2] \in CGNode /\ c = <<c[1], c[2]>> BY <1>2 DEF Edges
<1>4. \A c \in copyEdges : c[1] # c[2] /\ IsRep(c[1]) /\ IsRep(c[2]) BY DEF SCDInv, CGShape
<1>5. \A e \in loadEdges \union storeEdges : e \in Access /\ IsRep(e.src) /\ IsRep(e.dst) BY DEF SCDInv, CGShape
<1>6. \A e \in Access : e.src \in CGNode /\ e.dst \in CGNode /\ e.loc \in Loc BY DEF Access
<1>7. \A l \in AddrStmts : Pointer(l) \in CGNode BY CGTypes DEF SCDInv
<1>8. rep \in [CGNode -> CGNode] /\ cgPts \in [CGNode -> SUBSET Obj] /\ propa \in [CGNode -> SUBSET Obj]
  BY <1>1 DEF CGTypeOK
<1>9. sccCandidates \subseteq CGNode /\ nodeStack \subseteq CGNode /\ cgWorklist \subseteq CGNode
      /\ cleared \subseteq CGNode /\ dueStores \subseteq storeEdges /\ cgConnected \subseteq prog.calls
  BY <1>1 DEF CGTypeOK
<1> QED BY <1>2, <1>3, <1>4, <1>5, <1>6, <1>7, <1>8, <1>9

LEMMA HandleCopyGepInv == ASSUME SCDInv, handleCopyGep PROVE SCDInv'
<1>1. /\ prog' = prog /\ copyEdges' = copyEdges /\ loadEdges' = loadEdges /\ storeEdges' = storeEdges
      /\ rep' = rep /\ sccCandidates' = sccCandidates /\ dueStores' = dueStores /\ cgConnected' = cgConnected
      /\ reanalyze' = reanalyze /\ pc' = pc /\ cleared' = cleared /\ pc = "wave" /\ nodeStack # {}
  BY DEF handleCopyGep, vars, cgGraph
<1>2. sccCandidates = {} BY <1>1 DEF SCDInv, Phases
<1>3. PICK n \in nodeStack : (\A k \in nodeStack : <<k, n>> \notin copyEdges)
                             /\ n = CHOOSE m \in nodeStack : \A k \in nodeStack : <<k, m>> \notin copyEdges
  <2>1. \E m \in nodeStack : \A k \in nodeStack : <<k, m>> \notin copyEdges
    <3>1. \A k \in nodeStack : \A m \in CGNode : ~OnCycle(copyEdges, k, m) BY DEF SCDInv, WaveAhead
    <3> QED BY <3>1, <1>1, ShapeTypes, FirstInOrder
  <2> QED BY <2>1
<1> DEFINE D == cgPts[n] \ propa[n]
<1>4. /\ nodeStack' = nodeStack \ {n}
      /\ IF n \notin cgWorklist THEN UNCHANGED <<cgPts, propa, cgWorklist>>
         ELSE /\ propa' = [propa EXCEPT ![n] = cgPts[n]]
              /\ cgPts' = [m \in CGNode |-> cgPts[m] \union IF <<n, m>> \in copyEdges THEN D ELSE {}]
              /\ cgWorklist' = cgWorklist \union gain(n)
  BY <1>3 DEF handleCopyGep
<1>5. n \in CGNode /\ IsRep(n) /\ <<n, n>> \notin copyEdges
  <2>1. IsRep(n) BY DEF SCDInv, CGShape
  <2> QED BY <2>1, ShapeTypes
<1>6. D \subseteq Obj BY <1>5, ShapeTypes
\* What has changed for a node m.
<1>7. \A m \in CGNode :
        /\ cgPts[m] \subseteq cgPts'[m] /\ cgPts'[m] \subseteq Obj
        /\ m \in cgWorklist => m \in cgWorklist'
        /\ m \notin cgWorklist' => cgPts'[m] = cgPts[m]
        /\ <<n, m>> \notin copyEdges => cgPts'[m] = cgPts[m]
        /\ m # n => propa'[m] = propa[m]
        /\ cgPts'[m] # cgPts[m] => m \in cgWorklist'
  <2>1. CASE n \notin cgWorklist BY <2>1, <1>4, ShapeTypes
  <2>2. CASE n \in cgWorklist
    <3> SUFFICES ASSUME NEW m \in CGNode
                 PROVE  /\ cgPts[m] \subseteq cgPts'[m] /\ cgPts'[m] \subseteq Obj
                        /\ m \in cgWorklist => m \in cgWorklist'
                        /\ <<n, m>> \notin copyEdges => cgPts'[m] = cgPts[m]
                        /\ m # n => propa'[m] = propa[m]
                        /\ cgPts'[m] # cgPts[m] => m \in cgWorklist'
      OBVIOUS
    <3>1. cgPts'[m] = cgPts[m] \union IF <<n, m>> \in copyEdges THEN D ELSE {} BY <2>2, <1>4
    <3>2. cgPts[m] \subseteq Obj BY ShapeTypes
    <3>3. m # n => propa'[m] = propa[m] BY <2>2, <1>4, ShapeTypes
    <3>4. cgPts'[m] # cgPts[m] => m \in gain(n) BY <3>1 DEF gain
    <3> QED BY <3>1, <3>2, <3>3, <3>4, <2>2, <1>4, <1>6
  <2> QED BY <2>1, <2>2
<1>8. cgPts'[n] = cgPts[n] /\ cgPts[n] \subseteq propa'[n] /\ propa'[n] \subseteq Obj
      /\ (propa'[n] = propa[n] \/ propa'[n] = cgPts[n])
  <2>1. cgPts'[n] = cgPts[n] BY <1>5, <1>7
  <2>2. cgPts[n] \subseteq Obj /\ propa[n] \subseteq Obj BY <1>5, ShapeTypes
  <2>3. CASE n \notin cgWorklist
    <3>1. propa' = propa BY <2>3, <1>4
    <3>2. cgPts[n] \subseteq propa[n] BY <2>3, <1>2, <1>5 DEF SCDInv, CGPending
    <3> QED BY <3>1, <3>2, <2>1, <2>2
  <2>4. CASE n \in cgWorklist
    <3>1. propa'[n] = cgPts[n] BY <2>4, <1>4, <1>5, ShapeTypes
    <3> QED BY <3>1, <2>1, <2>2
  <2> QED BY <2>3, <2>4
<1>9. cgPts' \in [CGNode -> SUBSET Obj] /\ propa' \in [CGNode -> SUBSET Obj]
  <2>1. CASE n \notin cgWorklist BY <2>1, <1>4, ShapeTypes
  <2>2. CASE n \in cgWorklist
    <3>1. propa' \in [CGNode -> SUBSET Obj]
      <4>1. cgPts[n] \in SUBSET Obj BY <1>5, ShapeTypes
      <4> QED BY <4>1, <2>2, <1>4, ShapeTypes
    <3>2. PICK g : g = cgPts' /\ g = [m \in CGNode |-> g[m]] BY <2>2, <1>4
    <3>3. \A m \in CGNode : g[m] \in SUBSET Obj BY <3>2, <1>7
    <3> QED BY <3>1, <3>2, <3>3
  <2> QED BY <2>1, <2>2
<1>10. cgWorklist' \subseteq CGNode /\ \A m \in cgWorklist' : IsRep(m)
  <2>1. \A m \in cgWorklist : m \in CGNode /\ IsRep(m) BY ShapeTypes DEF SCDInv, CGShape
  <2>2. \A m \in gain(n) : m \in CGNode /\ IsRep(m) BY ShapeTypes DEF gain
  <2>3. cgWorklist' \subseteq cgWorklist \union gain(n) BY <1>4
  <2> QED BY <2>1, <2>2, <2>3
<1>11. \A c \in copyEdges : c[1] \in nodeStack' => c[2] \in nodeStack'
  <2> SUFFICES ASSUME NEW c \in copyEdges, c[1] \in nodeStack' PROVE c[2] \in nodeStack' OBVIOUS
  <2>1. c[1] \in nodeStack /\ c = <<c[1], c[2]>> BY <1>4, ShapeTypes
  <2>2. c[2] \in nodeStack BY <2>1 DEF SCDInv, WaveAhead
  <2>3. c[2] # n BY <2>1, <1>3
  <2> QED BY <2>2, <2>3, <1>4
<1>12. \A m \in CGNode : <<n, m>> \in copyEdges => m \in nodeStack'
  <2> SUFFICES ASSUME NEW m \in CGNode, <<n, m>> \in copyEdges PROVE m \in nodeStack' OBVIOUS
  <2>1. m \in nodeStack BY DEF SCDInv, WaveAhead
  <2> QED BY <2>1, <1>4, <1>5
<1>13. CGShape'
  <2>1. CGTypeOK'
    <3>1. CGTypeOK BY DEF SCDInv, CGShape
    <3>2. nodeStack' \subseteq CGNode BY <1>4, ShapeTypes
    <3> QED BY <3>1, <3>2, <1>1, <1>9, <1>10 DEF CGTypeOK
  <2>2. CGShape BY DEF SCDInv
  <2>3. \A m \in sccCandidates' \union nodeStack' \union cgWorklist' : IsRep(m)'
    BY <2>2, <1>1, <1>4, <1>10 DEF CGShape, IsRep
  <2> QED BY <2>1, <2>2, <2>3, <1>1 DEF CGShape, IsRep
<1>14. Phases'
  <2>1. Phases BY DEF SCDInv
  <2> QED BY <2>1, <1>1 DEF Phases
<1>15. \A m \in CGNode : Emptied(m)' <=> Emptied(m) BY <1>1 DEF Emptied
<1>16. CGArrived'
  <2>1. \A m \in CGNode : IsRep(m) => Emptied(m) \/ propa'[m] \subseteq cgPts'[m]
    <3> SUFFICES ASSUME NEW m \in CGNode, IsRep(m), ~Emptied(m) PROVE propa'[m] \subseteq cgPts'[m] OBVIOUS
    <3>1. propa[m] \subseteq cgPts[m] BY DEF SCDInv, CGArrived
    <3>2. CASE m = n BY <3>1, <3>2, <1>8
    <3>3. CASE m # n BY <3>1, <3>3, <1>7
    <3> QED BY <3>2, <3>3
  <2>2. ASSUME NEW c \in copyEdges, ~Emptied(c[2]) PROVE propa'[c[1]] \subseteq cgPts'[c[2]]
    <3>1. propa[c[1]] \subseteq cgPts[c[2]] BY <2>2 DEF SCDInv, CGArrived
    <3>2. c[1] \in CGNode /\ c[2] \in CGNode /\ c = <<c[1], c[2]>> BY ShapeTypes
    <3>3. CASE c[1] # n BY <3>1, <3>2, <3>3, <1>7
    <3>4. CASE c[1] = n /\ propa'[n] = propa[n] BY <3>1, <3>2, <3>4, <1>7
    <3>5. CASE c[1] = n /\ propa'[n] # propa[n]
      <4>1. n \in cgWorklist /\ propa'[n] = cgPts[n] BY <3>5, <1>4, <1>8
      <4>2. cgPts'[c[2]] = cgPts[c[2]] \union D BY <4>1, <3>2, <3>5, <1>4
      <4> QED BY <4>1, <4>2, <3>1, <3>5
    <3> QED BY <3>3, <3>4, <3>5
  <2>3. ASSUME NEW l \in AddrStmts, ~Emptied(rep[Pointer(l)]) PROVE stmt(l).obj \subseteq cgPts'[rep[Pointer(l)]]
    <3>1. stmt(l).obj \subseteq cgPts[rep[Pointer(l)]] BY <2>3 DEF SCDInv, CGArrived, getPts
    <3> QED BY <3>1, <1>7, ShapeTypes
  <2>4. AddrStmts' = AddrStmts /\ \A l : stmt(l)' = stmt(l) /\ Pointer(l)' = Pointer(l)
    BY <1>1 DEF AddrStmts, stmt, Pointer
  <2> QED BY <2>1, <2>2, <2>3, <2>4, <1>1, <1>15, ShapeTypes DEF CGArrived, IsRep, getPts
<1>17. CGPending'
  <2> SUFFICES ASSUME NEW m \in CGNode, IsRep(m), ~(cgPts'[m] \subseteq propa'[m])
               PROVE  m \in nodeStack' /\ m \in cgWorklist'
    BY <1>1 DEF CGPending, IsRep
  <2>1. m # n BY <1>8
  <2>2. CASE cgPts'[m] = cgPts[m]
    <3>1. m \in nodeStack /\ m \in cgWorklist BY <2>1, <2>2, <1>2, <1>7 DEF SCDInv, CGPending
    <3> QED BY <3>1, <2>1, <1>4, <1>7
  <2>3. CASE cgPts'[m] # cgPts[m] BY <2>3, <1>7, <1>12
  <2> QED BY <2>2, <2>3
<1>18. WaveAhead'
  <2>1. \A k \in nodeStack' : \A m \in CGNode : ~OnCycle(copyEdges, k, m) BY <1>4 DEF SCDInv, WaveAhead
  <2> QED BY <2>1, <1>1, <1>11 DEF WaveAhead
<1>19. CycleFound'
  <2> SUFFICES ASSUME NEW a \in CGNode, NEW b \in CGNode, OnCycle(copyEdges, a, b) PROVE cgPts'[a] = {}
    BY <1>1 DEF CycleFound
  <2>1. cgPts[a] = {} BY <1>2 DEF SCDInv, CycleFound
  <2>2. a \notin nodeStack BY DEF SCDInv, WaveAhead
  <2>3. <<n, a>> \notin copyEdges BY <2>2, <1>4, <1>12
  <2> QED BY <2>1, <2>3, <1>7
<1>20. AccessesDone'
  <2>1. \A o, e : version(o, e)' = version(o, e) BY <1>1 DEF version, getAddrDef, Versions, indirectEdgeSet
  <2>2. ASSUME NEW e \in loadEdges, e.src \notin cgWorklist' PROVE LoadDone(e)'
    <3>1. cgPts'[e.src] = cgPts[e.src] /\ e.src \notin cgWorklist BY <2>2, <1>7, ShapeTypes
    <3>2. LoadDone(e) BY <3>1, <1>1 DEF SCDInv, AccessesDone, ToHandle
    <3> QED BY <3>1, <3>2, <2>1, <1>1 DEF LoadDone, Linked
  <2>3. ASSUME NEW e \in storeEdges, e.dst \notin cgWorklist', e \notin dueStores PROVE StoreDone(e)'
    <3>1. cgPts'[e.dst] = cgPts[e.dst] /\ e.dst \notin cgWorklist BY <2>3, <1>7, ShapeTypes
    <3>2. StoreDone(e) BY <3>1, <2>3, <1>1 DEF SCDInv, AccessesDone, ToHandle
    <3> QED BY <3>1, <3>2, <2>1, <1>1 DEF StoreDone, Linked
  <2> QED BY <2>2, <2>3, <1>1 DEF AccessesDone, ToHandle
<1> QED BY <1>1, <1>13, <1>14, <1>16, <1>17, <1>18, <1>19, <1>20 DEF SCDInv

\* Outside the wave, the edges of C are added, and some nodes are emptied.
EdgeStep(C) ==
    /\ C \in Edges /\ \A c \in C : IsRep(c[1]) /\ IsRep(c[2])
    /\ \E G : /\ AddedEdges(C, copyEdges, propa, G)
              /\ copyEdges' = G.edges /\ propa' = G.propa /\ sccCandidates' = sccCandidates \union G.from
    /\ prog' = prog /\ loadEdges' = loadEdges /\ storeEdges' = storeEdges /\ rep' = rep
    /\ nodeStack = {} /\ nodeStack' = {}
    /\ cgPts' \in [CGNode -> SUBSET Obj]
    /\ cleared \subseteq cleared' /\ cleared' \subseteq CGNode
    /\ \A n \in CGNode : cgPts'[n] = cgPts[n] \/ (cgPts'[n] = {} /\ (IsRep(n) => n \in cleared'))

LEMMA AddCopyEdgesStep ==
    ASSUME copyEdges \in Edges, propa \in [CGNode -> SUBSET Obj], NEW C \in Edges, addCopyEdges(C)
    PROVE  \E G : /\ AddedEdges(C, copyEdges, propa, G)
                  /\ copyEdges' = G.edges /\ propa' = G.propa /\ sccCandidates' = sccCandidates \union G.from
<1> DEFINE G == FoldSet(addCopyEdge, [edges |-> copyEdges, propa |-> propa, from |-> {}], C)
<1>1. copyEdges' = G.edges /\ propa' = G.propa /\ sccCandidates' = sccCandidates \union G.from
  BY DEF addCopyEdges
<1>2. PICK E, P : E = copyEdges /\ P = propa OBVIOUS
<1>3. E \in SUBSET (CGNode \X CGNode) /\ P \in [CGNode -> SUBSET Obj] /\ C \in SUBSET (CGNode \X CGNode)
  BY <1>2 DEF Edges
<1>4. AddedEdges(C, E, P, FoldSet(addCopyEdge, [edges |-> E, propa |-> P, from |-> {}], C))
  BY ONLY <1>3, FoldedEdges
<1>5. AddedEdges(C, copyEdges, propa, G) BY <1>2, <1>4
<1> HIDE DEF G
<1> QED BY <1>1, <1>5

LEMMA EdgeStepFacts ==
    ASSUME SCDInv, NEW C, EdgeStep(C)
    PROVE  /\ copyEdges \subseteq copyEdges' /\ copyEdges' \in Edges
           /\ \A c \in copyEdges' \ copyEdges : c \in C /\ c[1] # c[2] /\ c[1] \in sccCandidates'
           /\ \A c \in C : c \in CGNode \X CGNode /\ c = <<c[1], c[2]>> /\ Linked(c)'
           /\ propa' \in [CGNode -> SUBSET Obj]
           /\ \A n \in CGNode : propa'[n] \subseteq propa[n] /\ (n \notin sccCandidates' => propa'[n] = propa[n])
           /\ \A c \in copyEdges' \ copyEdges : propa'[c[1]] \subseteq propa[c[2]]
           /\ sccCandidates \subseteq sccCandidates' /\ sccCandidates' \subseteq CGNode
           /\ \A n \in sccCandidates' : IsRep(n)
           /\ sccCandidates' # sccCandidates => copyEdges' # copyEdges
           /\ \A n \in CGNode : cgPts'[n] \subseteq cgPts[n] /\ (Emptied(n) => Emptied(n)')
           /\ \A n \in CGNode : IsRep(n) /\ cgPts'[n] # cgPts[n] => Emptied(n)'
           /\ \A o, e : version(o, e)' = version(o, e)
           /\ \A c : Linked(c) => Linked(c)'
           /\ \A e \in loadEdges : LoadDone(e) => LoadDone(e)'
           /\ \A e \in storeEdges : StoreDone(e) => StoreDone(e)'
<1>1. PICK G : /\ AddedEdges(C, copyEdges, propa, G)
               /\ copyEdges' = G.edges /\ propa' = G.propa /\ sccCandidates' = sccCandidates \union G.from
  BY DEF EdgeStep
<1>2. /\ G \in Added /\ G.edges = copyEdges \union {c \in C : c[1] # c[2]}
      /\ G.from = {c[1] : c \in {x \in C \ copyEdges : x[1] # x[2]}}
      /\ \A n \in CGNode : G.propa[n] \subseteq propa[n] /\ (n \notin G.from => G.propa[n] = propa[n])
      /\ \A c \in C \ copyEdges : c[1] # c[2] => G.propa[c[1]] \subseteq propa[c[2]]
  BY <1>1 DEF AddedEdges
<1>3. \A c \in C : c \in CGNode \X CGNode /\ c[1] \in CGNode /\ c[2] \in CGNode /\ c = <<c[1], c[2]>>
                   /\ IsRep(c[1]) /\ IsRep(c[2])
  BY DEF EdgeStep, Edges
<1>4. copyEdges \subseteq copyEdges' /\ copyEdges' \in Edges
  BY <1>1, <1>2, <1>3, ShapeTypes DEF Edges
<1>5. \A c \in copyEdges' \ copyEdges : c \in C /\ c[1] # c[2] /\ c[1] \in sccCandidates'
  BY <1>1, <1>2
<1>6. \A c \in C : Linked(c)' BY <1>1, <1>2 DEF Linked
<1>7. propa' \in [CGNode -> SUBSET Obj] BY <1>1, <1>2 DEF Added
<1>8. \A n \in CGNode : propa'[n] \subseteq propa[n] /\ (n \notin sccCandidates' => propa'[n] = propa[n])
  BY <1>1, <1>2
<1>9. \A c \in copyEdges' \ copyEdges : propa'[c[1]] \subseteq propa[c[2]] BY <1>1, <1>2
<1>10. sccCandidates \subseteq sccCandidates' /\ sccCandidates' \subseteq CGNode BY <1>1, <1>2, <1>3, ShapeTypes
<1>11. \A n \in sccCandidates' : IsRep(n)
  <2>1. \A n \in sccCandidates : IsRep(n) BY DEF SCDInv, CGShape
  <2>2. \A n \in G.from : IsRep(n) BY <1>2, <1>3
  <2> QED BY <2>1, <2>2, <1>1
<1>12. sccCandidates' # sccCandidates => copyEdges' # copyEdges BY <1>1, <1>2
<1>13. \A n \in CGNode : cgPts'[n] \subseteq cgPts[n] /\ (Emptied(n) => Emptied(n)')
  BY DEF EdgeStep, Emptied
<1>14. \A n \in CGNode : IsRep(n) /\ cgPts'[n] # cgPts[n] => Emptied(n)'
  BY DEF EdgeStep, Emptied, IsRep
<1>15. \A o, e : version(o, e)' = version(o, e)
  BY DEF EdgeStep, version, getAddrDef, Versions, indirectEdgeSet
<1>16. \A c : Linked(c) => Linked(c)' BY <1>4 DEF Linked
<1>17. prog' = prog BY DEF EdgeStep
<1>18. \A e \in loadEdges : LoadDone(e) => LoadDone(e)'
  BY <1>13, <1>15, <1>16, <1>17, ShapeTypes DEF LoadDone
<1>19. \A e \in storeEdges : StoreDone(e) => StoreDone(e)'
  BY <1>13, <1>15, <1>16, <1>17, ShapeTypes DEF StoreDone
<1> QED BY <1>3, <1>4, <1>5, <1>6, <1>7, <1>8, <1>9, <1>10, <1>11, <1>12, <1>13, <1>14, <1>15, <1>16, <1>18, <1>19

LEMMA EdgeStepKeeps ==
    ASSUME SCDInv, NEW C, EdgeStep(C)
    PROVE  CGArrived' /\ CGPending' /\ WaveAhead' /\ CycleFound'
           /\ \A c \in copyEdges' : IsRep(c[1])' /\ IsRep(c[2])' /\ c[1] # c[2]
<1>1. rep' = rep /\ prog' = prog /\ nodeStack = {} /\ nodeStack' = {} BY DEF EdgeStep
<1>2. \A n \in CGNode : IsRep(n)' <=> IsRep(n) BY <1>1 DEF IsRep
<1>3. \A c \in copyEdges' : c[1] \in CGNode /\ c[2] \in CGNode /\ IsRep(c[1]) /\ IsRep(c[2]) /\ c[1] # c[2]
  <2>1. \A c \in C : IsRep(c[1]) /\ IsRep(c[2]) BY DEF EdgeStep
  <2>2. \A c \in copyEdges' : c[1] \in CGNode /\ c[2] \in CGNode BY EdgeStepFacts DEF Edges
  <2> QED BY <2>1, <2>2, EdgeStepFacts, ShapeTypes
<1>4. CGArrived'
  <2>1. ASSUME NEW n \in CGNode, IsRep(n), ~Emptied(n)' PROVE propa'[n] \subseteq cgPts'[n]
    <3>1. cgPts'[n] = cgPts[n] /\ ~Emptied(n) /\ propa'[n] \subseteq propa[n] BY <2>1, EdgeStepFacts
    <3>2. propa[n] \subseteq cgPts[n] BY <3>1, <2>1 DEF SCDInv, CGArrived
    <3> QED BY <3>1, <3>2
  <2>2. ASSUME NEW c \in copyEdges', ~Emptied(c[2])' PROVE propa'[c[1]] \subseteq cgPts'[c[2]]
    <3>1. c[1] \in CGNode /\ c[2] \in CGNode /\ IsRep(c[2]) BY <1>3
    <3>2. cgPts'[c[2]] = cgPts[c[2]] /\ ~Emptied(c[2]) /\ propa'[c[1]] \subseteq propa[c[1]] BY <2>2, <3>1, EdgeStepFacts
    <3>3. CASE c \in copyEdges
      <4>1. propa[c[1]] \subseteq cgPts[c[2]] BY <3>2, <3>3 DEF SCDInv, CGArrived
      <4> QED BY <4>1, <3>2
    <3>4. CASE c \notin copyEdges
      <4>1. propa'[c[1]] \subseteq propa[c[2]] BY <3>4, EdgeStepFacts
      <4>2. propa[c[2]] \subseteq cgPts[c[2]] BY <3>1, <3>2 DEF SCDInv, CGArrived
      <4> QED BY <4>1, <4>2, <3>2
    <3> QED BY <3>3, <3>4
  <2>3. AddrStmts' = AddrStmts /\ \A l : stmt(l)' = stmt(l) /\ Pointer(l)' = Pointer(l)
    BY <1>1 DEF AddrStmts, stmt, Pointer
  <2>4. ASSUME NEW l \in AddrStmts, ~Emptied(rep[Pointer(l)])' PROVE stmt(l).obj \subseteq cgPts'[rep[Pointer(l)]]
    <3>0. PICK r : r = rep[Pointer(l)] OBVIOUS
    <3>1. r \in CGNode /\ IsRep(r) BY <3>0, ShapeTypes DEF SCDInv, CGShape
    <3>2. (rep[Pointer(l)])' = r BY <3>0, <2>3, <1>1
    <3>3. ~Emptied(r)' BY <3>2, <2>4 DEF Emptied
    <3>4. cgPts'[r] = cgPts[r] /\ ~Emptied(r) BY <3>1, <3>3, EdgeStepFacts
    <3> QED BY <3>0, <3>4 DEF SCDInv, CGArrived, getPts
  <2>5. \A l \in AddrStmts : Emptied(rep[Pointer(l)])' \/ stmt(l).obj \subseteq getPts(Pointer(l))'
    BY <2>3, <2>4, <1>1 DEF getPts
  <2>6. \A l \in AddrStmts : (rep[Pointer(l)])' = rep[Pointer(l)] BY <2>3, <1>1
  <2> QED BY <2>1, <2>2, <2>3, <2>5, <2>6, <1>2 DEF CGArrived
<1>5. CGPending'
  <2> SUFFICES ASSUME NEW n \in CGNode, IsRep(n), n \notin sccCandidates' PROVE cgPts'[n] \subseteq propa'[n]
    BY <1>2 DEF CGPending
  <2>1. n \notin sccCandidates /\ propa'[n] = propa[n] /\ cgPts'[n] \subseteq cgPts[n] BY EdgeStepFacts
  <2>2. cgPts[n] \subseteq propa[n] BY <2>1, <1>1 DEF SCDInv, CGPending
  <2> QED BY <2>1, <2>2
<1>6. WaveAhead' BY <1>1 DEF WaveAhead
<1>7. CycleFound'
  <2> SUFFICES ASSUME NEW a \in CGNode, NEW b \in CGNode, OnCycle(copyEdges, a, b)', cgPts'[a] # {}
               PROVE  \E k \in sccCandidates' : k = a \/ OnCycle(copyEdges, a, k)'
    BY DEF CycleFound
  <2>1. PICK E, F, N : E = copyEdges /\ F = copyEdges' /\ N = F \ E OBVIOUS
  <2>2. E \in Edges /\ F \in Edges /\ N \in Edges /\ F = E \union N BY <2>1, EdgeStepFacts, ShapeTypes DEF Edges
  <2>3. OnCycle(E \union N, a, b) BY <2>1, <2>2 DEF OnCycle, Leads
  <2>4. CASE OnCycle(E, a, b)
    <3>1. cgPts[a] # {} BY EdgeStepFacts
    <3>2. OnCycle(copyEdges, a, b) BY <2>1, <2>4
    <3>3. PICK k \in sccCandidates : k = a \/ OnCycle(copyEdges, a, k) BY <3>1, <3>2 DEF SCDInv, CycleFound
    <3>4. k \in sccCandidates' /\ k \in CGNode BY EdgeStepFacts
    <3>5. k = a \/ OnCycle(F, a, k)
      <4>1. k = a \/ OnCycle(E, a, k) BY <3>3, <2>1
      <4>2. E \subseteq F BY <2>2
      <4> QED BY <4>1, <4>2, <2>2, <3>4, LeadsOn DEF OnCycle
    <3>6. OnCycle(F, a, k) => OnCycle(copyEdges, a, k)' BY <2>1 DEF OnCycle, Leads
    <3> QED BY <3>4, <3>5, <3>6
  <2>5. CASE \E c \in N : Leads(E \union N, a, c[1]) /\ Leads(E \union N, c[1], a)
    <3>1. PICK c \in N : Leads(E \union N, a, c[1]) /\ Leads(E \union N, c[1], a) BY <2>5
    <3>2. c[1] \in sccCandidates' BY <2>1, EdgeStepFacts
    <3>3. c[1] = a \/ OnCycle(copyEdges, a, c[1])' BY <3>1, <2>1, <2>2 DEF OnCycle, Leads
    <3> QED BY <3>2, <3>3
  <2>6. OnCycle(E, a, b) \/ \E c \in N : Leads(E \union N, a, c[1]) /\ Leads(E \union N, c[1], a)
    BY ONLY <2>2, <2>3, a \in CGNode, b \in CGNode, CycleThroughNew
  <2> QED BY <2>4, <2>5, <2>6
<1>8. \A c \in copyEdges' : IsRep(c[1])' /\ IsRep(c[2])' /\ c[1] # c[2] BY <1>2, <1>3
<1> QED BY <1>4, <1>5, <1>6, <1>7, <1>8

LEMMA EdgeStepInv ==
    ASSUME SCDInv, NEW C, EdgeStep(C), Phases', AccessesDone',
           cgWorklist' \subseteq cgWorklist, dueStores' \subseteq storeEdges, cgConnected' \subseteq prog.calls,
           reanalyze' \in BOOLEAN, pc' \in {"accesses", "detect", "done"}
    PROVE  SCDInv'
<1>1. prog' = prog /\ loadEdges' = loadEdges /\ storeEdges' = storeEdges /\ rep' = rep /\ nodeStack' = {}
      /\ cgPts' \in [CGNode -> SUBSET Obj] /\ cleared' \subseteq CGNode
  BY DEF EdgeStep
<1>2. copyEdges' \in Edges /\ propa' \in [CGNode -> SUBSET Obj] /\ sccCandidates' \subseteq CGNode
      /\ \A n \in sccCandidates' : IsRep(n)
  BY EdgeStepFacts
<1>3. CGShape /\ CGTypeOK BY DEF SCDInv, CGShape
<1>4. CGTypeOK'
  <2>1. (UNION {sccCandidates, nodeStack, cgWorklist, cleared})' \subseteq CGNode BY <1>1, <1>2, ShapeTypes
  <2> QED BY <2>1, <1>1, <1>2, <1>3 DEF CGTypeOK, Edges
<1>5. CGShape'
  <2>1. \A c \in copyEdges' : IsRep(c[1])' /\ IsRep(c[2])' /\ c[1] # c[2] BY EdgeStepKeeps
  <2>2. \A n \in (sccCandidates \union nodeStack \union cgWorklist)' : IsRep(n)'
    <3>1. \A n \in cgWorklist : IsRep(n) BY <1>3 DEF CGShape
    <3> QED BY <3>1, <1>1, <1>2 DEF IsRep
  <2>3. /\ loadEdges' \in SUBSET Access /\ storeEdges' \in SUBSET Access
        /\ \A n \in CGNode : IsRep(rep[n])'
        /\ \A e \in (loadEdges \union storeEdges)' : IsRep(e.src)' /\ IsRep(e.dst)'
    BY <1>1, <1>3 DEF CGShape, IsRep
  <2> QED BY <2>1, <2>2, <2>3, <1>4 DEF CGShape
<1>6. CGArrived' /\ CGPending' /\ WaveAhead' /\ CycleFound' BY EdgeStepKeeps
<1> QED BY <1>1, <1>5, <1>6 DEF SCDInv

\* The copy edges a load, a store and new callees ask for.
LoadCopies(n) == {<<version(x[1], x[2]), x[2].dst>> :
                     x \in (cgPts[n] \ prog.const) \X {e \in loadEdges : e.src = n}}
StoreCopies(e) == {<<e.src, version(o, e)>> : o \in cgPts[e.dst] \ prog.const}
newCallees == {c \in prog.calls \ cgConnected : c.fun \in getPts(plain(c.fp))}
CalleePasses == PassCopies(prog, UNION {k.passes : k \in newCallees})
CalleeCopies == {<<rep[c[1]], rep[c[2]]>> : c \in CalleePasses}

LEMMA HandleLoadsStep ==
    ASSUME SCDInv, NEW n \in cgWorklist, handleLoads(n)
    PROVE  /\ prog' = prog /\ loadEdges' = loadEdges /\ storeEdges' = storeEdges /\ rep' = rep
           /\ nodeStack' = nodeStack /\ cgPts' = cgPts /\ cgConnected' = cgConnected /\ pc' = pc /\ cleared' = cleared
           /\ pc = "accesses" /\ cgWorklist' = cgWorklist \ {n} /\ dueStores' = {e \in storeEdges : e.dst = n}
           /\ dueStores = {} /\ reanalyze' = (reanalyze \/ copyEdges' # copyEdges)
           /\ \A o \in cgPts[n], e \in loadEdges : getAddrDef(prog, o, e.loc) \in CGNode
           /\ EdgeStep(LoadCopies(n))
<1> DEFINE C == LoadCopies(n)
<1>1. /\ prog' = prog /\ loadEdges' = loadEdges /\ storeEdges' = storeEdges /\ rep' = rep
      /\ nodeStack' = nodeStack /\ cgPts' = cgPts /\ cgConnected' = cgConnected /\ pc' = pc /\ cleared' = cleared
      /\ pc = "accesses" /\ cgWorklist' = cgWorklist \ {n} /\ dueStores' = {e \in storeEdges : e.dst = n}
      /\ dueStores = {} /\ reanalyze' = (reanalyze \/ copyEdges' # copyEdges) /\ addCopyEdges(C)
  BY DEF handleLoads, askAgain, vars, LoadCopies
<1>2. n \in CGNode /\ cgPts[n] \subseteq Obj BY ShapeTypes
<1>3. \A o \in cgPts[n], e \in loadEdges : getAddrDef(prog, o, e.loc) \in CGNode
  BY <1>2, ShapeTypes, CGTypes DEF SCDInv
<1>4. \A o \in cgPts[n], e \in loadEdges : version(o, e) \in CGNode /\ IsRep(version(o, e))
  BY <1>3, ShapeTypes DEF version, SCDInv, CGShape
<1>5. \A c \in C : c \in CGNode \X CGNode /\ IsRep(c[1]) /\ IsRep(c[2]) BY <1>4, ShapeTypes DEF LoadCopies
<1>6. C \in Edges BY <1>5 DEF Edges
<1>7. \E G : /\ AddedEdges(C, copyEdges, propa, G)
             /\ copyEdges' = G.edges /\ propa' = G.propa /\ sccCandidates' = sccCandidates \union G.from
  BY <1>1, <1>6, ShapeTypes, AddCopyEdgesStep
<1>8. nodeStack = {} BY <1>1 DEF SCDInv, Phases
<1>9. EdgeStep(C) BY <1>1, <1>5, <1>6, <1>7, <1>8, ShapeTypes DEF EdgeStep
<1> QED BY <1>1, <1>3, <1>9

LEMMA HandleLoadsInv == ASSUME SCDInv, NEW n \in cgWorklist, handleLoads(n) PROVE SCDInv'
<1> DEFINE C == LoadCopies(n)
<1>1. /\ prog' = prog /\ loadEdges' = loadEdges /\ storeEdges' = storeEdges /\ rep' = rep
      /\ nodeStack' = nodeStack /\ cgPts' = cgPts /\ cgConnected' = cgConnected /\ pc' = pc /\ cleared' = cleared
      /\ pc = "accesses" /\ cgWorklist' = cgWorklist \ {n} /\ dueStores' = {e \in storeEdges : e.dst = n}
      /\ dueStores = {} /\ reanalyze' = (reanalyze \/ copyEdges' # copyEdges)
  BY HandleLoadsStep
<1>6. EdgeStep(C) BY HandleLoadsStep
<1>7. \A o \in cgPts[n] \ prog.const : \A e \in loadEdges : e.src = n => <<version(o, e), e.dst>> \in C
  <2> SUFFICES ASSUME NEW o \in cgPts[n] \ prog.const, NEW e \in loadEdges, e.src = n
               PROVE  <<version(o, e), e.dst>> \in C
    OBVIOUS
  <2>1. PICK x \in (cgPts[n] \ prog.const) \X {f \in loadEdges : f.src = n} : x[1] = o /\ x[2] = e
    <3>1. <<o, e>> \in (cgPts[n] \ prog.const) \X {f \in loadEdges : f.src = n} OBVIOUS
    <3>2. <<o, e>>[1] = o /\ <<o, e>>[2] = e OBVIOUS
    <3> QED BY <3>1, <3>2
  <2> QED BY <2>1 DEF LoadCopies
<1> HIDE DEF C
<1>8. Phases'
  <2>1. Phases BY DEF SCDInv
  <2>2. sccCandidates' # sccCandidates => copyEdges' # copyEdges BY <1>6, EdgeStepFacts
  <2> QED BY <2>1, <2>2, <1>1 DEF Phases
<1>9. AccessesDone'
  <2>1. ASSUME NEW e \in loadEdges, e.src \notin cgWorklist' PROVE LoadDone(e)'
    <3>1. CASE e.src = n
      <4>1. \A o \in cgPts[n] \ prog.const : Linked(<<version(o, e), e.dst>>)'
        BY <3>1, <1>6, <1>7, EdgeStepFacts
      <4>2. \A o : version(o, e)' = version(o, e) BY <1>6, EdgeStepFacts
      <4> QED BY <4>1, <4>2, <3>1, <1>1 DEF LoadDone, Linked
    <3>2. CASE e.src # n
      <4>1. LoadDone(e) BY <2>1, <3>2, <1>1 DEF SCDInv, AccessesDone, ToHandle
      <4> QED BY <4>1, <1>6, EdgeStepFacts
    <3> QED BY <3>1, <3>2
  <2>2. ASSUME NEW e \in storeEdges, e.dst \notin cgWorklist', e \notin dueStores' PROVE StoreDone(e)'
    <3>1. StoreDone(e) BY <2>2, <1>1 DEF SCDInv, AccessesDone, ToHandle
    <3> QED BY <3>1, <1>6, EdgeStepFacts
  <2> QED BY <2>1, <2>2, <1>1 DEF AccessesDone, ToHandle
<1>10. reanalyze' \in BOOLEAN BY <1>1 DEF SCDInv, CGShape, CGTypeOK
<1> QED BY <1>1, <1>6, <1>8, <1>9, <1>10, ShapeTypes, EdgeStepInv

LEMMA HandleStoreStep ==
    ASSUME SCDInv, NEW e \in dueStores, handleStore(e)
    PROVE  /\ prog' = prog /\ loadEdges' = loadEdges /\ storeEdges' = storeEdges /\ rep' = rep
           /\ nodeStack' = nodeStack /\ cgWorklist' = cgWorklist /\ cgConnected' = cgConnected /\ pc' = pc
           /\ dueStores' = dueStores \ {e} /\ reanalyze' = (reanalyze \/ copyEdges' # copyEdges)
           /\ pc = "accesses"
           /\ e \in storeEdges /\ e.src \in CGNode /\ e.dst \in CGNode /\ e.loc \in Loc
           /\ \A o \in cgPts[e.dst] : getAddrDef(prog, o, e.loc) \in CGNode
           /\ EdgeStep(StoreCopies(e))
<1> DEFINE C == StoreCopies(e)
<1>1. /\ prog' = prog /\ loadEdges' = loadEdges /\ storeEdges' = storeEdges /\ rep' = rep
      /\ nodeStack' = nodeStack /\ cgWorklist' = cgWorklist /\ cgConnected' = cgConnected /\ pc' = pc
      /\ dueStores' = dueStores \ {e} /\ reanalyze' = (reanalyze \/ copyEdges' # copyEdges) /\ addCopyEdges(C)
      /\ cgPts' = [n \in CGNode |-> IF n \in emptied(e) THEN {} ELSE cgPts[n]]
      /\ cleared' = cleared \union {n \in emptied(e) : rep[n] = n}
  BY DEF handleStore, askAgain, vars, StoreCopies
<1>2. pc = "accesses" BY DEF SCDInv, Phases
<1>3. e \in storeEdges /\ e.src \in CGNode /\ e.dst \in CGNode /\ e.loc \in Loc /\ IsRep(e.src)
      /\ cgPts[e.dst] \subseteq Obj
  BY ShapeTypes
<1>4. \A o \in Obj : getAddrDef(prog, o, e.loc) \in CGNode BY <1>3, CGTypes DEF SCDInv
<1>5. \A o \in cgPts[e.dst] : version(o, e) \in CGNode /\ IsRep(version(o, e))
  BY <1>3, <1>4, ShapeTypes DEF version, SCDInv, CGShape
<1>6. \A c \in C : c \in CGNode \X CGNode /\ IsRep(c[1]) /\ IsRep(c[2]) BY <1>3, <1>5 DEF StoreCopies
<1>7. C \in Edges BY <1>6 DEF Edges
<1>8. emptied(e) \subseteq CGNode BY <1>3, <1>4 DEF emptied
<1>9. EdgeStep(C)
  <2>1. \E G : /\ AddedEdges(C, copyEdges, propa, G)
               /\ copyEdges' = G.edges /\ propa' = G.propa /\ sccCandidates' = sccCandidates \union G.from
    BY <1>1, <1>7, ShapeTypes, AddCopyEdgesStep
  <2>2. nodeStack = {} BY <1>2 DEF SCDInv, Phases
  <2>3. cleared' \subseteq CGNode /\ cleared \subseteq cleared' BY <1>1, <1>8, ShapeTypes
  <2>4. \A n \in CGNode : cgPts'[n] = cgPts[n] \/ (cgPts'[n] = {} /\ (IsRep(n) => n \in cleared'))
    BY <1>1 DEF IsRep
  <2>5. cgPts' \in [CGNode -> SUBSET Obj] BY <1>1, ShapeTypes
  <2> QED BY <2>1, <2>2, <2>3, <2>4, <2>5, <1>1, <1>6, <1>7 DEF EdgeStep
<1> QED BY <1>1, <1>2, <1>3, <1>4, <1>9

LEMMA HandleStoreInv == ASSUME SCDInv, NEW e \in dueStores, handleStore(e) PROVE SCDInv'
<1> DEFINE C == StoreCopies(e)
<1>1. /\ prog' = prog /\ loadEdges' = loadEdges /\ storeEdges' = storeEdges /\ rep' = rep
      /\ nodeStack' = nodeStack /\ cgWorklist' = cgWorklist /\ cgConnected' = cgConnected /\ pc' = pc
      /\ dueStores' = dueStores \ {e} /\ reanalyze' = (reanalyze \/ copyEdges' # copyEdges)
  BY HandleStoreStep
<1>2. pc = "accesses" BY HandleStoreStep
<1>3. e \in storeEdges /\ e.src \in CGNode /\ e.dst \in CGNode /\ e.loc \in Loc BY HandleStoreStep
<1>9. EdgeStep(C) BY HandleStoreStep
<1>10. \A o \in cgPts[e.dst] \ prog.const : <<e.src, version(o, e)>> \in C BY DEF StoreCopies
<1> HIDE DEF C
<1>11. Phases'
  <2>1. Phases BY DEF SCDInv
  <2>2. sccCandidates' # sccCandidates => copyEdges' # copyEdges BY <1>9, EdgeStepFacts
  <2> QED BY <2>1, <2>2, <1>1, <1>2 DEF Phases
<1>12. AccessesDone'
  <2>1. ASSUME NEW x \in loadEdges, x.src \notin cgWorklist PROVE LoadDone(x)'
    <3>1. LoadDone(x) BY <2>1, <1>2 DEF SCDInv, AccessesDone, ToHandle
    <3> QED BY <3>1, <1>9, EdgeStepFacts
  <2>2. StoreDone(e)'
    <3>1. \A o \in cgPts[e.dst] \ prog.const : Linked(<<e.src, version(o, e)>>)'
      BY <1>9, <1>10, EdgeStepFacts
    <3>2. \A o : version(o, e)' = version(o, e) BY <1>9, EdgeStepFacts
    <3>3. cgPts'[e.dst] \subseteq cgPts[e.dst] BY <1>3, <1>9, EdgeStepFacts
    <3> QED BY <3>1, <3>2, <3>3, <1>1 DEF StoreDone, Linked
  <2>3. ASSUME NEW x \in storeEdges, x.dst \notin cgWorklist, x \notin dueStores PROVE StoreDone(x)'
    <3>1. StoreDone(x) BY <2>3, <1>2 DEF SCDInv, AccessesDone, ToHandle
    <3> QED BY <3>1, <1>9, EdgeStepFacts
  <2> QED BY <2>1, <2>2, <2>3, <1>1 DEF AccessesDone, ToHandle
<1>13. reanalyze' \in BOOLEAN BY <1>1 DEF SCDInv, CGShape, CGTypeOK
<1>14. dueStores' \subseteq storeEdges /\ cgWorklist' \subseteq cgWorklist /\ cgConnected' \subseteq prog.calls
       /\ pc' \in {"accesses", "detect", "done"}
  BY <1>1, <1>2, ShapeTypes
<1> QED BY <1>9, <1>11, <1>12, <1>13, <1>14, EdgeStepInv

LEMMA ConnectCalleesStep ==
    ASSUME SCDInv, connectCallees
    PROVE  /\ prog' = prog /\ loadEdges' = loadEdges /\ storeEdges' = storeEdges /\ rep' = rep
           /\ nodeStack' = nodeStack /\ cgPts' = cgPts /\ cgWorklist' = cgWorklist /\ dueStores' = dueStores
           /\ cleared' = cleared /\ reanalyze' = reanalyze /\ cgConnected' = cgConnected \union newCallees
           /\ pc = "connect" /\ pc' = (IF reanalyze \/ newCallees # {} THEN "detect" ELSE "done")
           /\ newCallees = {} => CalleeCopies = {}
           /\ newCallees \subseteq prog.calls /\ CalleePasses \in Edges
           /\ EdgeStep(CalleeCopies)
<1> DEFINE C == CalleeCopies
<1>1. /\ prog' = prog /\ loadEdges' = loadEdges /\ storeEdges' = storeEdges /\ rep' = rep
      /\ nodeStack' = nodeStack /\ cgPts' = cgPts /\ cgWorklist' = cgWorklist /\ dueStores' = dueStores
      /\ cleared' = cleared /\ reanalyze' = reanalyze /\ cgConnected' = cgConnected \union newCallees
      /\ pc = "connect" /\ pc' = (IF reanalyze \/ newCallees # {} THEN "detect" ELSE "done") /\ addCopyEdges(C)
  BY DEF connectCallees, vars, newCallees, CalleePasses, CalleeCopies
<1>2. CalleePasses \in Edges
  <2>1. UNION {k.passes : k \in newCallees} \in SUBSET (prog.passes \union UNION {k.passes : k \in prog.calls})
    BY DEF newCallees
  <2> QED BY <2>1, CGTypes DEF SCDInv, CalleePasses
<1>3. newCallees = {} => CalleePasses = {}
  <2> SUFFICES ASSUME newCallees = {} PROVE CalleePasses = {} OBVIOUS
  <2>1. UNION {k.passes : k \in newCallees} = {} OBVIOUS
  <2> QED BY <2>1 DEF PassCopies, CalleePasses
<1>4. newCallees \subseteq prog.calls BY DEF newCallees
<1>5. \A c \in CalleePasses : rep[c[1]] \in CGNode /\ rep[c[2]] \in CGNode /\ IsRep(rep[c[1]]) /\ IsRep(rep[c[2]])
  BY <1>2, ShapeTypes DEF Edges, SCDInv, CGShape
<1>6. \A c \in C : c \in CGNode \X CGNode /\ IsRep(c[1]) /\ IsRep(c[2]) BY <1>5 DEF CalleeCopies
<1>7. C \in Edges BY <1>6 DEF Edges
<1>8. CalleePasses = {} => C = {} BY DEF CalleeCopies
<1> HIDE DEF C
<1>9. EdgeStep(C)
  <2>1. \E G : /\ AddedEdges(C, copyEdges, propa, G)
               /\ copyEdges' = G.edges /\ propa' = G.propa /\ sccCandidates' = sccCandidates \union G.from
    BY <1>1, <1>7, ShapeTypes, AddCopyEdgesStep
  <2>2. nodeStack = {} BY <1>1 DEF SCDInv, Phases
  <2> QED BY <2>1, <2>2, <1>1, <1>6, <1>7, ShapeTypes DEF EdgeStep
<1> QED BY <1>1, <1>2, <1>3, <1>4, <1>8, <1>9 DEF C

LEMMA ConnectCalleesInv == ASSUME SCDInv, connectCallees PROVE SCDInv'
<1> DEFINE C == CalleeCopies
<1>1. /\ prog' = prog /\ loadEdges' = loadEdges /\ storeEdges' = storeEdges /\ rep' = rep
      /\ nodeStack' = nodeStack /\ cgPts' = cgPts /\ cgWorklist' = cgWorklist /\ dueStores' = dueStores
      /\ cleared' = cleared /\ reanalyze' = reanalyze /\ cgConnected' = cgConnected \union newCallees
      /\ pc = "connect" /\ pc' = (IF reanalyze \/ newCallees # {} THEN "detect" ELSE "done")
  BY ConnectCalleesStep
<1>3. newCallees = {} => C = {} BY ConnectCalleesStep
<1>4. newCallees \subseteq prog.calls BY ConnectCalleesStep
<1>9. EdgeStep(C) BY ConnectCalleesStep
<1>10. Phases'
  <2>1. Phases BY DEF SCDInv
  <2>2. sccCandidates' # sccCandidates => copyEdges' # copyEdges BY <1>9, EdgeStepFacts
  <2>3. copyEdges' # copyEdges => C # {} BY <1>9, EdgeStepFacts
  <2>4. pc' = "done" => sccCandidates' = {} BY <2>1, <2>2, <2>3, <1>1, <1>3 DEF Phases
  <2>5. pc' \in {"detect", "done"} BY <1>1
  <2> QED BY <2>1, <2>4, <2>5, <1>1 DEF Phases
<1>11. AccessesDone'
  <2>1. cgWorklist = {} /\ dueStores = {} BY <1>1 DEF SCDInv, Phases
  <2>2. \A e \in loadEdges : LoadDone(e)'
    <3>1. \A e \in loadEdges : LoadDone(e) BY <2>1, <1>1 DEF SCDInv, AccessesDone, ToHandle
    <3> QED BY <3>1, <1>9, EdgeStepFacts
  <2>3. \A e \in storeEdges : StoreDone(e)'
    <3>1. \A e \in storeEdges : StoreDone(e) BY <2>1, <1>1 DEF SCDInv, AccessesDone, ToHandle
    <3> QED BY <3>1, <1>9, EdgeStepFacts
  <2> QED BY <2>2, <2>3, <1>1 DEF AccessesDone
<1>12. reanalyze' \in BOOLEAN BY <1>1 DEF SCDInv, CGShape, CGTypeOK
<1>13. dueStores' \subseteq storeEdges /\ cgWorklist' \subseteq cgWorklist /\ cgConnected' \subseteq prog.calls
       /\ pc' \in {"accesses", "detect", "done"}
  BY <1>1, <1>4, ShapeTypes
<1> QED BY <1>9, <1>10, <1>11, <1>12, <1>13, EdgeStepInv

\* Steps that only move on to the next part of a round.
LEMMA PhaseStepInv ==
    ASSUME SCDInv, UNCHANGED <<prog, cgGraph, cgPts, propa, sccCandidates, nodeStack, dueStores, cgConnected,
                               reanalyze, cleared>>,
           cgWorklist' \subseteq cgWorklist, Phases', AccessesDone',
           pc' \in {"detect", "wave", "accesses", "connect", "done"},
           cgWorklist' = cgWorklist \/ nodeStack = {}
    PROVE  SCDInv'
<1>1. /\ prog' = prog /\ copyEdges' = copyEdges /\ loadEdges' = loadEdges /\ storeEdges' = storeEdges /\ rep' = rep
      /\ cgPts' = cgPts /\ propa' = propa /\ sccCandidates' = sccCandidates /\ nodeStack' = nodeStack
      /\ dueStores' = dueStores /\ cgConnected' = cgConnected /\ reanalyze' = reanalyze /\ cleared' = cleared
  BY DEF cgGraph
<1>2. CGShape'
  <2>1. CGTypeOK'
    <3>1. CGTypeOK BY DEF SCDInv, CGShape
    <3>2. (UNION {sccCandidates, nodeStack, cgWorklist, cleared})' \subseteq CGNode BY <1>1, ShapeTypes
    <3> QED BY <3>1, <3>2, <1>1 DEF CGTypeOK
  <2>2. CGShape BY DEF SCDInv
  <2> QED BY <2>1, <2>2, <1>1 DEF CGShape, IsRep
<1>3. CGArrived'
  <2>1. CGArrived BY DEF SCDInv
  <2> QED BY <2>1, <1>1 DEF CGArrived, IsRep, Emptied, AddrStmts, stmt, Pointer, getPts
<1>4. CGPending'
  <2>1. CGPending BY DEF SCDInv
  <2> QED BY <2>1, <1>1 DEF CGPending, IsRep
<1>5. WaveAhead'
  <2>1. WaveAhead BY DEF SCDInv
  <2> QED BY <2>1, <1>1 DEF WaveAhead
<1>6. CycleFound'
  <2>1. CycleFound BY DEF SCDInv
  <2> QED BY <2>1, <1>1 DEF CycleFound
<1> QED BY <1>1, <1>2, <1>3, <1>4, <1>5, <1>6 DEF SCDInv

LEMMA SameAccesses ==
    ASSUME UNCHANGED <<prog, copyEdges, rep, cgPts>>
    PROVE  \A e : (LoadDone(e) => LoadDone(e)') /\ (StoreDone(e) => StoreDone(e)')
BY DEF LoadDone, StoreDone, Linked, version, getAddrDef, Versions, indirectEdgeSet

LEMMA WaveEndsInv == ASSUME SCDInv, WaveEnds PROVE SCDInv'
<1>1. UNCHANGED <<prog, cgGraph, cgPts, propa, sccCandidates, nodeStack, cgWorklist, dueStores, cgConnected,
                  reanalyze, cleared>>
      /\ pc = "wave" /\ pc' = "accesses" /\ nodeStack = {}
  BY DEF WaveEnds, vars
<1>2. Phases'
  <2>1. Phases BY DEF SCDInv
  <2> QED BY <2>1, <1>1 DEF Phases
<1>3. AccessesDone'
  <2>1. AccessesDone BY DEF SCDInv
  <2>2. \A e : (LoadDone(e) => LoadDone(e)') /\ (StoreDone(e) => StoreDone(e)') BY <1>1, SameAccesses DEF cgGraph
  <2> QED BY <2>1, <2>2, <1>1 DEF AccessesDone, ToHandle, cgGraph
<1> QED BY <1>1, <1>2, <1>3, PhaseStepInv

LEMMA AccessesEndInv == ASSUME SCDInv, AccessesEnd PROVE SCDInv'
<1>1. UNCHANGED <<prog, cgGraph, cgPts, propa, sccCandidates, nodeStack, dueStores, cgConnected,
                  reanalyze, cleared>>
      /\ pc = "accesses" /\ pc' = "connect" /\ cgWorklist' = {} /\ cgWorklist \intersect Accessed = {}
      /\ dueStores = {}
  BY DEF AccessesEnd, vars
<1>2. Phases'
  <2>1. Phases BY DEF SCDInv
  <2> QED BY <2>1, <1>1 DEF Phases
<1>3. AccessesDone'
  <2>1. AccessesDone BY DEF SCDInv
  <2>2. \A e : (LoadDone(e) => LoadDone(e)') /\ (StoreDone(e) => StoreDone(e)') BY <1>1, SameAccesses DEF cgGraph
  <2>3. \A e \in loadEdges : e.src \notin cgWorklist BY <1>1 DEF Accessed
  <2>4. \A e \in storeEdges : e.dst \notin cgWorklist BY <1>1 DEF Accessed
  <2> QED BY <2>1, <2>2, <2>3, <2>4, <1>1 DEF AccessesDone, ToHandle, cgGraph
<1>4. nodeStack = {} BY <1>1 DEF SCDInv, Phases
<1> QED BY <1>1, <1>2, <1>3, <1>4, PhaseStepInv

\* Merging the cycles S of the edges E, each into the node h gives for it.
Around(E, n) == {m \in CGNode : Leads(E, n, m) /\ Leads(E, m, n)}
Merging(E, S, h) ==
    /\ E \in Edges
    /\ \A C \in S : C \subseteq CGNode /\ h[C] \in C /\ \A n \in C : C = Around(E, n) /\ \E m \in C : m # n
MergedTo(S, h, n) == IF n \in UNION S THEN h[CHOOSE C \in S : n \in C] ELSE n
Into(S, h, n) == {n} \union UNION {C \in S : h[C] = n}
MergedEdges(S, h, E) ==
    {<<MergedTo(S, h, c[1]), MergedTo(S, h, c[2])>> :
        c \in {e \in E : MergedTo(S, h, e[1]) # MergedTo(S, h, e[2])}}

LEMMA MergedOne ==
    ASSUME NEW E, NEW S, NEW h, Merging(E, S, h)
    PROVE  /\ \A C \in S : \A n \in C : MergedTo(S, h, n) = h[C]
           /\ \A n : n \notin UNION S => MergedTo(S, h, n) = n
           /\ \A n \in CGNode : MergedTo(S, h, n) \in CGNode
<1>1. ASSUME NEW C \in S, NEW n \in C PROVE MergedTo(S, h, n) = h[C]
  <2>1. PICK D : D = CHOOSE T \in S : n \in T OBVIOUS
  <2>2. D \in S /\ n \in D BY <2>1
  <2>3. D = C BY <2>2 DEF Merging
  <2>4. n \in UNION S OBVIOUS
  <2> QED BY <2>1, <2>3, <2>4 DEF MergedTo
<1>2. \A n : n \notin UNION S => MergedTo(S, h, n) = n BY DEF MergedTo
<1>3. ASSUME NEW n \in CGNode PROVE MergedTo(S, h, n) \in CGNode
  <2>1. CASE n \in UNION S
    <3>1. PICK C \in S : n \in C BY <2>1
    <3> QED BY <3>1, <1>1 DEF Merging
  <2>2. CASE n \notin UNION S BY <2>2, <1>2
  <2> QED BY <2>1, <2>2
<1> QED BY <1>1, <1>2, <1>3

LEMMA MergedSame ==
    ASSUME NEW E, NEW S, NEW h, Merging(E, S, h), NEW n \in CGNode, NEW m \in CGNode,
           MergedTo(S, h, n) = MergedTo(S, h, m)
    PROVE  (n = m \/ \E C \in S : n \in C /\ m \in C) /\ Leads(E, n, m)
<1>1. n = m \/ \E C \in S : n \in C /\ m \in C
  <2>1. CASE n \in UNION S /\ m \in UNION S
    <3>1. PICK C \in S, D \in S : n \in C /\ m \in D BY <2>1
    <3>2. h[C] = h[D] BY <3>1, MergedOne
    <3>3. h[C] \in C /\ h[C] \in D BY <3>2 DEF Merging
    <3>4. C = D
      <4>1. C = Around(E, h[C]) BY <3>3 DEF Merging
      <4>2. D = Around(E, h[C]) BY <3>3 DEF Merging
      <4> QED BY <4>1, <4>2
    <3> QED BY <3>1, <3>4
  <2>2. CASE n \in UNION S /\ m \notin UNION S
    <3>1. PICK C \in S : n \in C BY <2>2
    <3>2. m = h[C] BY <3>1, <2>2, MergedOne
    <3> QED BY <3>2, <2>2 DEF Merging
  <2>3. CASE n \notin UNION S /\ m \in UNION S
    <3>1. PICK C \in S : m \in C BY <2>3
    <3>2. n = h[C] BY <3>1, <2>3, MergedOne
    <3> QED BY <3>2, <2>3 DEF Merging
  <2>4. CASE n \notin UNION S /\ m \notin UNION S BY <2>4, MergedOne
  <2> QED BY <2>1, <2>2, <2>3, <2>4
<1>2. Leads(E, n, m)
  <2>1. CASE n = m BY <2>1, LeadsOn DEF Merging
  <2>2. CASE \E C \in S : n \in C /\ m \in C BY <2>2 DEF Merging, Around
  <2> QED BY <1>1, <2>1, <2>2
<1> QED BY <1>1, <1>2

LEMMA MergedTwice ==
    ASSUME NEW E, NEW S, NEW h, Merging(E, S, h), NEW n \in CGNode
    PROVE  /\ MergedTo(S, h, MergedTo(S, h, n)) = MergedTo(S, h, n)
           /\ Leads(E, n, MergedTo(S, h, n)) /\ Leads(E, MergedTo(S, h, n), n)
           /\ n \in Into(S, h, MergedTo(S, h, n))
           /\ \A m \in Into(S, h, n) :
                m \in CGNode /\ (MergedTo(S, h, n) = n => MergedTo(S, h, m) = n)
                /\ (m # n => MergedTo(S, h, n) = n /\ \E C \in S : n \in C /\ m \in C)
<1> DEFINE M(x) == MergedTo(S, h, x)
<1>1. M(M(n)) = M(n) /\ n \in Into(S, h, M(n))
  <2>1. CASE n \in UNION S
    <3>1. PICK C \in S : n \in C BY <2>1
    <3>0. \A D \in S : \A m \in D : M(m) = h[D] BY MergedOne
    <3>2. h[C] \in C /\ M(n) = h[C]
      <4>1. h[C] \in C BY DEF Merging
      <4> HIDE DEF M
      <4> QED BY <3>0, <3>1, <4>1
    <3>3. M(h[C]) = h[C]
      <4> HIDE DEF M
      <4> QED BY <3>0, <3>2
    <3> QED BY <3>1, <3>2, <3>3 DEF Into
  <2>2. CASE n \notin UNION S
    <3>1. M(n) = n BY <2>2, MergedOne
    <3> QED BY <3>1 DEF Into
  <2> QED BY <2>1, <2>2
<1>2. M(n) \in CGNode BY MergedOne
<1>3. Leads(E, n, M(n)) /\ Leads(E, M(n), n) BY <1>1, <1>2, MergedSame
<1>4. ASSUME NEW m \in Into(S, h, n)
      PROVE  m \in CGNode /\ (M(n) = n => M(m) = n) /\ (m # n => M(n) = n /\ \E C \in S : n \in C /\ m \in C)
  <2>1. CASE m = n BY <2>1
  <2>2. CASE m # n
    <3>1. PICK C \in S : h[C] = n /\ m \in C BY <2>2 DEF Into
    <3>2. n \in C /\ m \in CGNode BY <3>1 DEF Merging
    <3>3. M(n) = n /\ M(m) = n BY <3>1, <3>2, MergedOne
    <3> QED BY <3>1, <3>2, <3>3
  <2> QED BY <2>1, <2>2
<1> QED BY <1>1, <1>3, <1>4

\* A path after merging was one before, and so was a cycle.
LEMMA MergedLeads ==
    ASSUME NEW E, NEW S, NEW h, Merging(E, S, h), NEW a \in CGNode, NEW b \in CGNode,
           Leads(MergedEdges(S, h, E), MergedTo(S, h, a), MergedTo(S, h, b))
    PROVE  Leads(E, a, b)
<1> DEFINE M(x) == MergedTo(S, h, x)
           T == {t \in CGNode : \A u \in CGNode : M(u) = t => Leads(E, a, u)}
<1>0. E \in Edges BY DEF Merging
<1>1. M(a) \in T
  <2>1. \A u \in CGNode : M(u) = M(a) => Leads(E, a, u) BY MergedSame
  <2>2. M(a) \in CGNode BY MergedOne
  <2> QED BY <2>1, <2>2
<1>2. ASSUME NEW x \in MergedEdges(S, h, E), x[1] \in T PROVE x[2] \in T
  <2>1. PICK c \in E : x = <<M(c[1]), M(c[2])>> BY DEF MergedEdges
  <2>2. c[1] \in CGNode /\ c[2] \in CGNode /\ x[1] = M(c[1]) /\ x[2] = M(c[2]) BY <2>1, <1>0 DEF Edges
  <2>3. Leads(E, a, c[1]) BY <2>2, <1>2
  <2>4. Leads(E, a, c[2]) BY <2>3, <1>0, LeadsOn
  <2>5. \A u \in CGNode : M(u) = M(c[2]) => Leads(E, c[2], u) BY <2>2, MergedSame
  <2>6. \A u \in CGNode : M(u) = M(c[2]) => Leads(E, a, u) BY <2>2, <2>4, <2>5, <1>0, LeadsOn
  <2>7. M(c[2]) \in CGNode BY <2>2, MergedOne
  <2> QED BY <2>2, <2>6, <2>7
<1>3. T \in SUBSET CGNode OBVIOUS
<1>4. M(b) \in T
  <2> HIDE DEF T
  <2> QED BY <1>1, <1>2, <1>3 DEF Leads
<1> QED BY <1>4

LEMMA MergedEdgeTypes ==
    ASSUME NEW E, NEW S, NEW h, Merging(E, S, h)
    PROVE  /\ MergedEdges(S, h, E) \in Edges
           /\ \A x \in MergedEdges(S, h, E) : x[1] # x[2] /\ \E c \in E : /\ c[1] \in CGNode /\ c[2] \in CGNode
                /\ x[1] = MergedTo(S, h, c[1]) /\ x[2] = MergedTo(S, h, c[2])
<1>1. \A c \in E : c[1] \in CGNode /\ c[2] \in CGNode BY DEF Merging, Edges
<1>2. \A c \in E : MergedTo(S, h, c[1]) \in CGNode /\ MergedTo(S, h, c[2]) \in CGNode BY <1>1, MergedOne
<1>3. MergedEdges(S, h, E) \in Edges BY <1>2 DEF MergedEdges, Edges
<1> QED BY <1>1, <1>3 DEF MergedEdges

LEMMA MergedCycle ==
    ASSUME NEW E, NEW S, NEW h, Merging(E, S, h), NEW a \in CGNode, NEW b \in CGNode,
           OnCycle(MergedEdges(S, h, E), a, b)
    PROVE  OnCycle(E, a, b) /\ ~\E C \in S : a \in C /\ b \in C
<1> DEFINE M(x) == MergedTo(S, h, x)
           F == MergedEdges(S, h, E)
<1>1. F \in Edges BY MergedEdgeTypes
<1>2. a # b /\ Leads(F, a, b) /\ Leads(F, b, a) BY DEF OnCycle
<1>3. \A x \in F : \E u, v \in CGNode : x[1] = M(u) /\ x[2] = M(v) BY MergedEdgeTypes
<1> HIDE DEF F
<1>4. (\E c \in F : c[1] = a) /\ (\E c \in F : c[1] = b) BY <1>1, <1>2, LeadsByEdge
<1>5. PICK u \in CGNode, v \in CGNode : a = M(u) /\ b = M(v) BY <1>3, <1>4
<1>6. M(a) = a /\ M(b) = b BY <1>5, MergedTwice
<1>7. Leads(F, M(a), M(b)) /\ Leads(F, M(b), M(a)) BY <1>2, <1>6
<1>8. Leads(E, a, b) /\ Leads(E, b, a) BY <1>7, MergedLeads DEF F
<1>9. ~\E C \in S : a \in C /\ b \in C
  <2> SUFFICES ASSUME NEW C \in S, a \in C, b \in C PROVE FALSE OBVIOUS
  <2>1. M(a) = h[C] /\ M(b) = h[C] BY MergedOne
  <2> QED BY <2>1, <1>2, <1>6
<1> QED BY <1>2, <1>8, <1>9 DEF OnCycle

\* The cycles the search finds.
LEMMA CyclesRight ==
    ASSUME copyEdges \in Edges, sccCandidates \subseteq CGNode
    PROVE  /\ ReachedFrom(sccCandidates) \subseteq CGNode
           /\ \A s \in sccCandidates : s \in ReachedFrom(sccCandidates)
           /\ \A n \in ReachedFrom(sccCandidates) : \A m \in CGNode :
                Leads(copyEdges, n, m) => m \in ReachedFrom(sccCandidates)
           /\ \A C \in Cycles : /\ C \subseteq ReachedFrom(sccCandidates) /\ \E n \in CGNode : n \in C
                                /\ \A n \in C : C = Around(copyEdges, n) /\ \E m \in C : m # n
           /\ \A n \in ReachedFrom(sccCandidates) : \A m \in CGNode :
                OnCycle(copyEdges, n, m) => \E C \in Cycles : n \in C /\ m \in C
<1>1. PICK R : R = ReachedFrom(sccCandidates) OBVIOUS
<1>2. R = {t \in CGNode : \E s \in sccCandidates : Leads(copyEdges, s, t)} BY <1>1, ReachedFromRight
<1>3. R \subseteq CGNode BY <1>2
<1>4. \A s \in sccCandidates : s \in R BY <1>2, LeadsOn
<1>5. \A n \in R : \A m \in CGNode : Leads(copyEdges, n, m) => m \in R BY <1>2, LeadsOn
<1>6. \A n \in R : ReachedFrom({n}) = {t \in CGNode : Leads(copyEdges, n, t)}
  <2> SUFFICES ASSUME NEW n \in R PROVE ReachedFrom({n}) = {t \in CGNode : Leads(copyEdges, n, t)} OBVIOUS
  <2>1. {n} \in SUBSET CGNode BY <1>3
  <2>2. ReachedFrom({n}) = {t \in CGNode : \E s \in {n} : Leads(copyEdges, s, t)} BY <2>1, ReachedFromRight
  <2> QED BY <2>2
<1> DEFINE reach == [n \in R |-> ReachedFrom({n})]
           comp(n) == {m \in reach[n] : n \in reach[m]}
<1>7. \A n \in R : comp(n) = Around(copyEdges, n) /\ comp(n) \subseteq R
  <2> SUFFICES ASSUME NEW n \in R PROVE comp(n) = Around(copyEdges, n) /\ comp(n) \subseteq R OBVIOUS
  <2>1. reach[n] = {t \in CGNode : Leads(copyEdges, n, t)} BY <1>6
  <2>2. reach[n] \subseteq R BY <2>1, <1>5
  <2>3. \A m \in reach[n] : reach[m] = {t \in CGNode : Leads(copyEdges, m, t)} BY <2>2, <1>6
  <2> QED BY <2>1, <2>2, <2>3, <1>3 DEF Around
<1>8. Cycles = {C \in {comp(n) : n \in R} : ~Single(C)} BY <1>1 DEF Cycles
<1> HIDE DEF comp
<1>9. ASSUME NEW n \in R, NEW k \in Around(copyEdges, n) PROVE Around(copyEdges, k) = Around(copyEdges, n) 
  BY <1>3, <1>9, LeadsOn DEF Around
<1>10. \A n \in R : n \in Around(copyEdges, n) BY <1>3, LeadsOn DEF Around
<1>11. ASSUME NEW C \in Cycles
       PROVE  /\ C \subseteq R /\ \E n \in CGNode : n \in C
              /\ \A n \in C : C = Around(copyEdges, n) /\ \E m \in C : m # n
  <2>1. PICK r \in R : C = Around(copyEdges, r) /\ C \subseteq R /\ ~Single(C) BY <1>7, <1>8
  <2>2. r \in C /\ r \in CGNode BY <2>1, <1>3, <1>10
  <2>3. \A n \in C : C = Around(copyEdges, n) BY <2>1, <1>9
  <2>4. \A n \in C : \E m \in C : m # n
    <3> SUFFICES ASSUME NEW n \in C, \A m \in C : m = n PROVE FALSE OBVIOUS
    <3>1. C = {n} OBVIOUS
    <3> QED BY <3>1, <2>1 DEF Single
  <2> QED BY <2>1, <2>2, <2>3, <2>4
<1>12. ASSUME NEW n \in R, NEW m \in CGNode, OnCycle(copyEdges, n, m) PROVE \E C \in Cycles : n \in C /\ m \in C
  <2>1. n \in Around(copyEdges, n) /\ m \in Around(copyEdges, n) BY <1>10, <1>12 DEF Around, OnCycle
  <2>2. n # m BY <1>12 DEF OnCycle
  <2>3. ~Single(comp(n)) BY <2>1, <2>2, <1>7 DEF Single
  <2>4. comp(n) \in Cycles BY <2>3, <1>8
  <2> QED BY <2>1, <2>4, <1>7
<1> QED BY <1>1, <1>3, <1>4, <1>5, <1>11, <1>12

\* What the collapse of cycles does, for the cycles S and their heads h.
Collapse(S, h) ==
    /\ Merging(copyEdges, S, h)
    /\ rep' = [n \in CGNode |-> MergedTo(S, h, rep[n])]
    /\ cgPts' = [n \in CGNode |-> UNION {cgPts[m] : m \in Into(S, h, n)}]
    /\ propa' = [n \in CGNode |-> propagatedByAll(Into(S, h, n))]
    /\ copyEdges' = MergedEdges(S, h, copyEdges)
    /\ \A x \in loadEdges' : \E e \in loadEdges :
         x = [e EXCEPT !.src = MergedTo(S, h, e.src), !.dst = MergedTo(S, h, e.dst)]
    /\ \A x \in storeEdges' : \E e \in storeEdges :
         x = [e EXCEPT !.src = MergedTo(S, h, e.src), !.dst = MergedTo(S, h, e.dst)]
    /\ nodeStack' = {MergedTo(S, h, n) : n \in ReachedFrom(sccCandidates)}
    /\ cgWorklist' = {MergedTo(S, h, n) : n \in sccCandidates}
    /\ sccCandidates' = {} /\ pc = "detect" /\ pc' = "wave" /\ reanalyze' = FALSE
    /\ prog' = prog /\ dueStores' = dueStores /\ cgConnected' = cgConnected /\ cleared' = cleared

LEMMA SCCDetectCollapses ==
    ASSUME SCDInv, SCCDetect
    PROVE  \E S, h : S = Cycles /\ Collapse(S, h)
<1>1. PICK S : S = Cycles OBVIOUS
<1> DEFINE Moved(T, h, X) == {[e EXCEPT !.src = MergedTo(T, h, @), !.dst = MergedTo(T, h, @)] : e \in X}
           Step(T, h) ==
             /\ rep' = [n \in CGNode |-> MergedTo(T, h, rep[n])]
             /\ cgPts' = [n \in CGNode |-> UNION {cgPts[m] : m \in Into(T, h, n)}]
             /\ propa' = [n \in CGNode |-> propagatedByAll(Into(T, h, n))]
             /\ copyEdges' = MergedEdges(T, h, copyEdges)
             /\ loadEdges' \in OneOfEach(Moved(T, h, loadEdges))
             /\ storeEdges' \in OneOfEach(Moved(T, h, storeEdges))
             /\ nodeStack' = {MergedTo(T, h, n) : n \in ReachedFrom(sccCandidates)}
             /\ cgWorklist' = {MergedTo(T, h, n) : n \in sccCandidates}
<1>2a. \E T \in {Cycles} : \E h \in {g \in [T -> UNION T] : \A C \in T : g[C] \in Entries(C)} : Step(T, h)
  BY DEF SCCDetect, MergedTo, Into, MergedEdges
<1> HIDE DEF Step
<1>2b. PICK h \in {g \in [S -> UNION S] : \A C \in S : g[C] \in Entries(C)} : Step(S, h) BY <1>1, <1>2a
<1>2c. h \in [S -> UNION S] /\ \A C \in S : h[C] \in Entries(C) BY <1>2b
<1>2. /\ rep' = [n \in CGNode |-> MergedTo(S, h, rep[n])]
      /\ cgPts' = [n \in CGNode |-> UNION {cgPts[m] : m \in Into(S, h, n)}]
      /\ propa' = [n \in CGNode |-> propagatedByAll(Into(S, h, n))]
      /\ copyEdges' = MergedEdges(S, h, copyEdges)
      /\ loadEdges' \in OneOfEach(Moved(S, h, loadEdges))
      /\ storeEdges' \in OneOfEach(Moved(S, h, storeEdges))
      /\ nodeStack' = {MergedTo(S, h, n) : n \in ReachedFrom(sccCandidates)}
      /\ cgWorklist' = {MergedTo(S, h, n) : n \in sccCandidates}
  BY <1>2b DEF Step
<1>3. sccCandidates' = {} /\ pc = "detect" /\ pc' = "wave" /\ reanalyze' = FALSE
      /\ prog' = prog /\ dueStores' = dueStores /\ cgConnected' = cgConnected /\ cleared' = cleared
  BY DEF SCCDetect, vars
<1>4. Merging(copyEdges, S, h)
  <2>1. \A C \in S : C \subseteq CGNode /\ \A n \in C : C = Around(copyEdges, n) /\ \E m \in C : m # n
    BY <1>1, ShapeTypes, CyclesRight
  <2>2. \A C \in S : h[C] \in C BY <1>2c DEF Entries
  <2> QED BY <2>1, <2>2, ShapeTypes DEF Merging
<1>5. \A x \in loadEdges' : \E e \in loadEdges :
         x = [e EXCEPT !.src = MergedTo(S, h, e.src), !.dst = MergedTo(S, h, e.dst)]
  BY <1>2 DEF OneOfEach
<1>6. \A x \in storeEdges' : \E e \in storeEdges :
         x = [e EXCEPT !.src = MergedTo(S, h, e.src), !.dst = MergedTo(S, h, e.dst)]
  BY <1>2 DEF OneOfEach
<1>7. Collapse(S, h) BY <1>2, <1>3, <1>4, <1>5, <1>6 DEF Collapse
<1> QED BY <1>1, <1>7

\* What the collapse means for the nodes and edges that were there.
LEMMA CollapseFacts ==
    ASSUME SCDInv, NEW S, NEW h, Collapse(S, h)
    PROVE  /\ \A n \in CGNode : /\ MergedTo(S, h, n) \in CGNode
                                /\ IsRep(n)' <=> IsRep(n) /\ MergedTo(S, h, n) = n
                                /\ IsRep(n) => IsRep(MergedTo(S, h, n))'
                                /\ Emptied(n) => Emptied(MergedTo(S, h, n))'
                                /\ cgPts[n] \subseteq cgPts'[MergedTo(S, h, n)]
                                /\ propa'[MergedTo(S, h, n)] \subseteq propa[n]
           /\ rep' \in [CGNode -> CGNode] /\ cgPts' \in [CGNode -> SUBSET Obj] /\ propa' \in [CGNode -> SUBSET Obj]
           /\ copyEdges' \in Edges
<1> DEFINE M(x) == MergedTo(S, h, x)
<1>2. Collapse(S, h) /\ Merging(copyEdges, S, h) BY DEF Collapse
<1>3. \A n \in CGNode : /\ M(n) \in CGNode /\ M(M(n)) = M(n) /\ Leads(copyEdges, n, M(n)) /\ Leads(copyEdges, M(n), n)
                        /\ n \in Into(S, h, M(n)) /\ Into(S, h, n) \subseteq CGNode /\ n \in Into(S, h, n)
  <2>1. \A n \in CGNode : M(n) \in CGNode BY <1>2, MergedOne
  <2>2. \A n \in CGNode : n \in Into(S, h, n) BY DEF Into
  <2>3. \A n \in CGNode : /\ M(M(n)) = M(n) /\ Leads(copyEdges, n, M(n)) /\ Leads(copyEdges, M(n), n)
                          /\ n \in Into(S, h, M(n)) /\ \A m \in Into(S, h, n) : m \in CGNode
    BY <1>2, MergedTwice
  <2> QED BY <2>1, <2>2, <2>3
<1>4. rep' = [n \in CGNode |-> M(rep[n])] /\ rep \in [CGNode -> CGNode] BY <1>2, ShapeTypes DEF Collapse
<1> HIDE DEF M
<1>5. \A n \in CGNode : IsRep(n) => IsRep(M(n))
  <2> SUFFICES ASSUME NEW n \in CGNode, IsRep(n), M(n) # n PROVE IsRep(M(n)) OBVIOUS
  <2>1. M(n) \in CGNode /\ Leads(copyEdges, M(n), n) BY <1>3
  <2>2. \E c \in copyEdges : c[1] = M(n) BY <2>1, ShapeTypes, LeadsByEdge
  <2> QED BY <2>2, ShapeTypes
<1>6. \A n \in CGNode : rep'[n] = M(rep[n]) /\ rep[n] \in CGNode /\ rep[rep[n]] = rep[n]
  BY <1>4 DEF SCDInv, CGShape, IsRep
<1>7. \A n \in CGNode : IsRep(n)' <=> IsRep(n) /\ M(n) = n
  <2> SUFFICES ASSUME NEW n \in CGNode PROVE rep'[n] = n <=> rep[n] = n /\ M(n) = n BY DEF IsRep
  <2>1. ASSUME rep'[n] = n PROVE rep[n] = n /\ M(n) = n
    <3>1. PICK r \in CGNode : r = rep[n] BY <1>6
    <3>2. M(r) = n /\ rep[r] = r BY <3>1, <1>6, <2>1
    <3>3. M(n) = n BY <3>2, <1>3
    <3>4. rep[n] = n BY <3>2, <1>5 DEF IsRep
    <3> QED BY <3>3, <3>4
  <2>2. ASSUME rep[n] = n, M(n) = n PROVE rep'[n] = n BY <1>6, <2>2
  <2> QED BY <2>1, <2>2
<1>8. \A n \in CGNode : IsRep(n) => IsRep(M(n))'
  <2> SUFFICES ASSUME NEW n \in CGNode, IsRep(n) PROVE rep'[M(n)] = M(n) BY <1>4 DEF IsRep, M
  <2>1. M(n) \in CGNode /\ M(M(n)) = M(n) /\ rep[M(n)] = M(n) BY <1>3, <1>5 DEF IsRep
  <2> QED BY <2>1, <1>6
<1>9. \A n \in CGNode : Emptied(n) => \E x \in cleared' : rep'[x] = M(n)
  <2> SUFFICES ASSUME NEW n \in CGNode, Emptied(n) PROVE \E x \in cleared' : rep'[x] = M(n) OBVIOUS
  <2>1. PICK x \in cleared : rep[x] = n BY DEF Emptied
  <2>2. x \in CGNode /\ cleared' = cleared BY <1>2, ShapeTypes DEF Collapse
  <2> QED BY <2>1, <2>2, <1>6
<1>10. cgPts' = [n \in CGNode |-> UNION {cgPts[m] : m \in Into(S, h, n)}]
       /\ propa' = [n \in CGNode |-> propagatedByAll(Into(S, h, n))]
  BY <1>2 DEF Collapse
<1>11. \A n \in CGNode : cgPts[n] \subseteq cgPts'[M(n)]
  <2> SUFFICES ASSUME NEW n \in CGNode PROVE cgPts[n] \subseteq cgPts'[M(n)] OBVIOUS
  <2>1. cgPts'[M(n)] = UNION {cgPts[m] : m \in Into(S, h, M(n))} BY <1>3, <1>10
  <2> QED BY <2>1, <1>3
<1>12. \A n \in CGNode : propa'[M(n)] \subseteq propa[n]
  <2> SUFFICES ASSUME NEW n \in CGNode PROVE propa'[M(n)] \subseteq propa[n] OBVIOUS
  <2>1. propa'[M(n)] = propagatedByAll(Into(S, h, M(n))) BY <1>3, <1>10
  <2> QED BY <2>1, <1>3 DEF propagatedByAll
<1>13. rep' \in [CGNode -> CGNode] BY <1>3, <1>4
<1>14. cgPts' \in [CGNode -> SUBSET Obj]
  <2>1. \A n \in CGNode : UNION {cgPts[m] : m \in Into(S, h, n)} \subseteq Obj
    <3>1. \A m \in CGNode : cgPts[m] \subseteq Obj BY ShapeTypes
    <3> QED BY <3>1, <1>3
  <2> QED BY <2>1, <1>10
<1>15. propa' \in [CGNode -> SUBSET Obj]
  <2>1. \A n \in CGNode : propagatedByAll(Into(S, h, n)) \subseteq Obj
    <3>1. \A m \in CGNode : propa[m] \subseteq Obj BY ShapeTypes
    <3> QED BY <3>1, <1>3 DEF propagatedByAll
  <2> QED BY <2>1, <1>10
<1>16. copyEdges' \in Edges
  <2>1. PICK E : E = copyEdges OBVIOUS
  <2>2. MergedEdges(S, h, E) \in Edges BY <2>1, <1>2, MergedEdgeTypes
  <2> QED BY <2>1, <2>2, <1>2 DEF Collapse
<1>17. \A n \in CGNode : Emptied(n) => Emptied(M(n))'
  <2> SUFFICES ASSUME NEW n \in CGNode, Emptied(n) PROVE Emptied(M(n))' OBVIOUS
  <2>1. \E x \in cleared' : rep'[x] = M(n) BY <1>9
  <2>2. PICK y : y = M(n) OBVIOUS
  <2>3. (M(n))' = MergedTo(S, h, n) BY DEF M
  <2>4. (M(n))' = y BY <2>2, <2>3 DEF M
  <2> QED BY <2>1, <2>2, <2>4 DEF Emptied
<1> QED BY <1>3, <1>7, <1>8, <1>11, <1>12, <1>13, <1>14, <1>15, <1>16, <1>17 DEF M

\* A node that is merged with a candidate is to be handled; the others of a
\* cycle without candidates have nothing to hand over.
LEMMA MergedNews ==
    ASSUME SCDInv, NEW S, NEW h, S = Cycles, Collapse(S, h), NEW n \in CGNode, NEW m \in Into(S, h, n), m # n
    PROVE  n \in cgWorklist' \/ (cgPts[m] = {} /\ cgPts[n] = {})
<1>1. Merging(copyEdges, S, h) BY DEF Collapse
<1>2. MergedTo(S, h, n) = n /\ \E C \in S : n \in C /\ m \in C BY <1>1, MergedTwice
<1>3. PICK C \in S : n \in C /\ m \in C BY <1>2
<1>4. C = Around(copyEdges, n) /\ C = Around(copyEdges, m) /\ h[C] = n /\ m \in CGNode
  <2>1. C = Around(copyEdges, n) /\ C = Around(copyEdges, m) /\ m \in CGNode BY <1>1, <1>3 DEF Merging
  <2>2. MergedTo(S, h, n) = h[C] BY <1>1, <1>3, MergedOne
  <2> QED BY <2>1, <2>2, <1>2
<1>5. OnCycle(copyEdges, n, m) /\ OnCycle(copyEdges, m, n) BY <1>3, <1>4 DEF Around, OnCycle
<1>6. cgWorklist' = {MergedTo(S, h, k) : k \in sccCandidates} BY DEF Collapse
<1>7. \A k \in sccCandidates : k \in C => n \in cgWorklist' BY <1>1, <1>4, <1>6, MergedOne
<1>8. (cgPts[n] = {} \/ \E k \in sccCandidates : k = n \/ OnCycle(copyEdges, n, k))
      /\ (cgPts[m] = {} \/ \E k \in sccCandidates : k = m \/ OnCycle(copyEdges, m, k))
  BY <1>4, <1>5 DEF SCDInv, CycleFound
<1>9. \A k \in sccCandidates : (k = n \/ OnCycle(copyEdges, n, k)) \/ (k = m \/ OnCycle(copyEdges, m, k)) => k \in C
  BY <1>3, <1>4, ShapeTypes DEF Around, OnCycle
<1> QED BY <1>7, <1>8, <1>9

LEMMA CollapseShape ==
    ASSUME SCDInv, NEW S, NEW h, S = Cycles, Collapse(S, h)
    PROVE  CGShape' /\ Phases'
<1> DEFINE M(x) == MergedTo(S, h, x)
<1>1. Merging(copyEdges, S, h) BY DEF Collapse
<1>2. /\ nodeStack' = {M(n) : n \in ReachedFrom(sccCandidates)} /\ cgWorklist' = {M(n) : n \in sccCandidates}
      /\ sccCandidates' = {} /\ pc = "detect" /\ pc' = "wave" /\ reanalyze' = FALSE
      /\ prog' = prog /\ dueStores' = dueStores /\ cgConnected' = cgConnected /\ cleared' = cleared
  BY DEF Collapse
<1>3. \A n \in CGNode : M(n) \in CGNode /\ (IsRep(n) => IsRep(M(n))') BY CollapseFacts
<1>4. rep' \in [CGNode -> CGNode] /\ cgPts' \in [CGNode -> SUBSET Obj] /\ propa' \in [CGNode -> SUBSET Obj]
      /\ copyEdges' \in Edges
  BY CollapseFacts
<1>5. \A c \in copyEdges' : IsRep(c[1])' /\ IsRep(c[2])' /\ c[1] # c[2]
  <2> SUFFICES ASSUME NEW x \in copyEdges' PROVE IsRep(x[1])' /\ IsRep(x[2])' /\ x[1] # x[2] OBVIOUS
  <2>1. PICK c \in copyEdges : x[1] = M(c[1]) /\ x[2] = M(c[2]) /\ x[1] # x[2]
    <3>1. PICK E : E = copyEdges OBVIOUS
    <3>2. x \in MergedEdges(S, h, E) BY <3>1 DEF Collapse
    <3>3. Merging(E, S, h) BY <1>1, <3>1
    <3>4. x[1] # x[2] /\ \E c \in E : x[1] = M(c[1]) /\ x[2] = M(c[2]) BY <3>2, <3>3, MergedEdgeTypes
    <3> QED BY <3>1, <3>4
  <2>2. c[1] \in CGNode /\ c[2] \in CGNode /\ IsRep(c[1]) /\ IsRep(c[2]) BY ShapeTypes
  <2>3. PICK u, v : u = M(c[1]) /\ v = M(c[2]) /\ x[1] = u /\ x[2] = v BY <2>1
  <2>4. IsRep(u)' /\ IsRep(v)' BY <2>2, <2>3, <1>3 DEF IsRep
  <2> QED BY <2>1, <2>3, <2>4
<1>6. ASSUME NEW e \in loadEdges \union storeEdges, NEW x,
             x = [e EXCEPT !.src = MergedTo(S, h, e.src), !.dst = MergedTo(S, h, e.dst)]
      PROVE  x \in Access /\ x.src = M(e.src) /\ x.dst = M(e.dst) /\ x.loc = e.loc
             /\ IsRep(x.src)' /\ IsRep(x.dst)'
  <2>1. e \in Access /\ e.src \in CGNode /\ e.dst \in CGNode /\ IsRep(e.src) /\ IsRep(e.dst) BY ShapeTypes
  <2>2. M(e.src) \in CGNode /\ M(e.dst) \in CGNode BY <2>1, <1>3
  <2>3. x \in Access /\ x.src = M(e.src) /\ x.dst = M(e.dst) /\ x.loc = e.loc BY <2>1, <2>2, <1>6 DEF Access
  <2>4. IsRep(x.src)' /\ IsRep(x.dst)'
    <3>1. PICK u, v : u = M(e.src) /\ v = M(e.dst) OBVIOUS
    <3>2. PICK s \in CGNode, d \in CGNode : s = e.src /\ d = e.dst /\ IsRep(s) /\ IsRep(d) BY <2>1
    <3>3. IsRep(M(s))' /\ IsRep(M(d))' BY <1>3, <3>2
    <3>4. M(s) = u /\ M(d) = v BY <3>1, <3>2
    <3>5. IsRep(u)' /\ IsRep(v)' BY <3>3, <3>4 DEF IsRep
    <3> QED BY <3>1, <3>5, <2>3 DEF IsRep
  <2> QED BY <2>3, <2>4
<1>7. \A x \in loadEdges' \union storeEdges' : x \in Access /\ IsRep(x.src)' /\ IsRep(x.dst)'
  <2> SUFFICES ASSUME NEW x \in loadEdges' \union storeEdges' PROVE x \in Access /\ IsRep(x.src)' /\ IsRep(x.dst)'
    OBVIOUS
  <2>1. PICK e \in loadEdges \union storeEdges :
          x = [e EXCEPT !.src = MergedTo(S, h, e.src), !.dst = MergedTo(S, h, e.dst)]
    BY DEF Collapse
  <2> QED BY <2>1, <1>6
<1>8. \A n \in CGNode : IsRep(rep[n])'
  <2> SUFFICES ASSUME NEW n \in CGNode PROVE IsRep(rep[n])' OBVIOUS
  <2>1. PICK r \in CGNode : r = rep[n] /\ IsRep(r) BY ShapeTypes DEF SCDInv, CGShape
  <2>2. PICK q : q = M(r) OBVIOUS
  <2>3. rep'[n] = q BY <2>1, <2>2 DEF Collapse
  <2>4. rep'[q] = q BY <2>1, <2>2, <1>3 DEF IsRep
  <2> QED BY <2>3, <2>4 DEF IsRep
<1>9. \A n \in ReachedFrom(sccCandidates) : n \in CGNode /\ IsRep(n)
  <2>1. PICK C : C = sccCandidates OBVIOUS
  <2>2. ReachedFrom(C) = {t \in CGNode : \E s \in C : Leads(copyEdges, s, t)} BY <2>1, ShapeTypes, ReachedFromRight
  <2> SUFFICES ASSUME NEW n \in ReachedFrom(C) PROVE n \in CGNode /\ IsRep(n) BY <2>1
  <2>3. PICK s \in C : Leads(copyEdges, s, n) /\ n \in CGNode BY <2>2
  <2>4. s \in CGNode /\ IsRep(s) BY <2>1, ShapeTypes DEF SCDInv, CGShape
  <2>5. CASE s = n BY <2>3, <2>4, <2>5
  <2>6. CASE s # n
    <3>1. \E c \in copyEdges : c[2] = n BY <2>3, <2>4, <2>6, ShapeTypes, LeadsByEdge
    <3> QED BY <3>1, <2>3, ShapeTypes
  <2> QED BY <2>5, <2>6
<1>10. \A n \in (nodeStack \union cgWorklist)' : n \in CGNode /\ IsRep(n)'
  <2> SUFFICES ASSUME NEW n \in (nodeStack \union cgWorklist)' PROVE n \in CGNode /\ IsRep(n)' OBVIOUS
  <2>1. PICK k \in CGNode : IsRep(k) /\ n = M(k)
    <3>1. \A k \in sccCandidates : k \in CGNode /\ IsRep(k) BY ShapeTypes DEF SCDInv, CGShape
    <3> QED BY <3>1, <1>2, <1>9
  <2> QED BY <2>1, <1>3 DEF IsRep
<1>11. dueStores = {} BY <1>2 DEF SCDInv, Phases
<1>12. CGTypeOK'
  <2>1. CGTypeOK BY DEF SCDInv, CGShape
  <2>2. (UNION {sccCandidates, nodeStack, cgWorklist, cleared})' \subseteq CGNode
    <3>1. cleared \subseteq CGNode BY ShapeTypes
    <3> QED BY <3>1, <1>2, <1>10
  <2>3. \A x \in loadEdges' \union storeEdges' : {x.src, x.dst} \subseteq CGNode /\ x.loc \in Loc BY <1>7 DEF Access
  <2> QED BY <2>1, <2>2, <2>3, <1>2, <1>4, <1>11 DEF CGTypeOK, Edges
<1>13. CGShape'
  <2>1. loadEdges' \in SUBSET Access /\ storeEdges' \in SUBSET Access BY <1>7
  <2>2. \A n \in (sccCandidates \union nodeStack \union cgWorklist)' : IsRep(n)' BY <1>2, <1>10
  <2> QED BY <2>1, <2>2, <1>5, <1>7, <1>8, <1>12 DEF CGShape
<1>14. Phases' BY <1>2, <1>11 DEF Phases
<1> QED BY <1>13, <1>14

LEMMA CollapseArrived ==
    ASSUME SCDInv, NEW S, NEW h, S = Cycles, Collapse(S, h)
    PROVE  CGArrived' /\ CGPending'
<1> DEFINE M(x) == MergedTo(S, h, x)
<1>1. Merging(copyEdges, S, h) BY DEF Collapse
<1>2. \A n \in CGNode : /\ M(n) \in CGNode /\ cgPts[n] \subseteq cgPts'[M(n)] /\ propa'[M(n)] \subseteq propa[n]
                        /\ Emptied(n) => Emptied(M(n))'
                        /\ IsRep(n)' <=> IsRep(n) /\ M(n) = n
  BY CollapseFacts
<1>3. ASSUME NEW n \in CGNode, IsRep(n)', ~Emptied(n)' PROVE propa'[n] \subseteq cgPts'[n]
  <2>1. IsRep(n) /\ M(n) = n BY <1>2, <1>3
  <2>2. ~Emptied(n) BY <1>2, <1>3, <2>1 DEF Emptied
  <2>3. propa[n] \subseteq cgPts[n] BY <2>1, <2>2 DEF SCDInv, CGArrived
  <2> QED BY <2>1, <2>3, <1>2
<1>4. ASSUME NEW x \in copyEdges', ~Emptied(x[2])' PROVE propa'[x[1]] \subseteq cgPts'[x[2]]
  <2>1. PICK c \in copyEdges : x[1] = M(c[1]) /\ x[2] = M(c[2])
    <3>1. PICK E : E = copyEdges OBVIOUS
    <3>2. x \in MergedEdges(S, h, E) /\ Merging(E, S, h) BY <1>1, <3>1 DEF Collapse
    <3>3. \E c \in E : x[1] = M(c[1]) /\ x[2] = M(c[2]) BY <3>2, MergedEdgeTypes
    <3> QED BY <3>1, <3>3
  <2>2. c[1] \in CGNode /\ c[2] \in CGNode BY ShapeTypes
  <2>3. PICK d, y : d \in CGNode /\ d = c[2] /\ y = M(d) /\ x[2] = y BY <2>1, <2>2
  <2>4. ~Emptied(d)
    <3>1. Emptied(d) => Emptied(y)' BY <2>3, <1>2 DEF Emptied
    <3> QED BY <3>1, <2>3, <1>4 DEF Emptied
  <2>5. propa[c[1]] \subseteq cgPts[c[2]] BY <2>3, <2>4 DEF SCDInv, CGArrived
  <2> QED BY <2>1, <2>2, <2>5, <1>2
<1>5. ASSUME NEW l \in AddrStmts, ~Emptied(rep[Pointer(l)])' PROVE stmt(l).obj \subseteq cgPts'[rep'[Pointer(l)]]
  <2>1. PICK r, y : r \in CGNode /\ r = rep[Pointer(l)] /\ y = M(r) BY ShapeTypes
  <2>2. Pointer(l)' = Pointer(l) /\ Pointer(l) \in CGNode BY ShapeTypes DEF Pointer, stmt, Collapse
  <2>3. rep'[Pointer(l)] = y BY <2>1, <2>2 DEF Collapse
  <2>4. ~Emptied(y)' BY <2>2, <2>3, <1>5 DEF Emptied
  <2>5. ~Emptied(r)
    <3>1. Emptied(r) => Emptied(y)' BY <2>1, <1>2 DEF Emptied
    <3> QED BY <3>1, <2>4
  <2>6. stmt(l).obj \subseteq cgPts[r] BY <2>1, <2>5 DEF SCDInv, CGArrived, getPts
  <2> QED BY <2>1, <2>3, <2>6, <1>2
<1>6. CGArrived'
  <2>1. prog' = prog BY DEF Collapse
  <2>2. AddrStmts' = AddrStmts /\ \A l : stmt(l)' = stmt(l) /\ Pointer(l)' = Pointer(l)
    BY <2>1 DEF AddrStmts, stmt, Pointer
  <2>3. \A l \in AddrStmts : Emptied(rep[Pointer(l)])' \/ stmt(l).obj \subseteq getPts(Pointer(l))'
    BY <1>5, <2>2 DEF getPts
  <2> QED BY <1>3, <1>4, <2>2, <2>3 DEF CGArrived
<1>7. CGPending'
  <2> SUFFICES ASSUME NEW n \in CGNode, IsRep(n)', ~(cgPts'[n] \subseteq propa'[n])
               PROVE  n \in nodeStack' /\ n \in cgWorklist'
    BY DEF CGPending
  <2>1. IsRep(n) /\ M(n) = n BY <1>2
  <2>2. cgPts'[n] = UNION {cgPts[m] : m \in Into(S, h, n)} /\ propa'[n] = propagatedByAll(Into(S, h, n))
    BY DEF Collapse
  <2>3. cgWorklist' = {M(k) : k \in sccCandidates} /\ nodeStack' = {M(k) : k \in ReachedFrom(sccCandidates)}
    BY DEF Collapse
  <2>4. cgWorklist' \subseteq nodeStack'
    <3>1. \A k \in sccCandidates : k \in ReachedFrom(sccCandidates) BY ShapeTypes, CyclesRight
    <3> QED BY <3>1, <2>3
  <2>5. n \in cgWorklist'
    <3>1. CASE \E m \in Into(S, h, n) : m # n
      <4>1. PICK o \in cgPts'[n] : o \notin propa'[n] OBVIOUS
      <4>2. PICK m \in Into(S, h, n) : o \in cgPts[m] BY <4>1, <2>2
      <4>3. PICK k \in Into(S, h, n) : k # n BY <3>1
      <4>4. CASE m # n BY <4>2, <4>4, MergedNews
      <4>5. CASE m = n BY <4>2, <4>3, <4>5, MergedNews
      <4> QED BY <4>4, <4>5
    <3>2. CASE \A m \in Into(S, h, n) : m = n
      <4>1. Into(S, h, n) = {n} BY <3>2 DEF Into
      <4>2. cgPts'[n] = cgPts[n] /\ propa'[n] = propa[n] BY <4>1, <2>2 DEF propagatedByAll
      <4>3. n \in sccCandidates
        <5>1. nodeStack = {} BY DEF Collapse, SCDInv, Phases
        <5> QED BY <5>1, <4>2, <2>1 DEF SCDInv, CGPending
      <4> QED BY <4>3, <2>1, <2>3
    <3> QED BY <3>1, <3>2
  <2> QED BY <2>4, <2>5
<1> QED BY <1>6, <1>7

LEMMA CollapseCycles ==
    ASSUME SCDInv, NEW S, NEW h, S = Cycles, Collapse(S, h)
    PROVE  WaveAhead' /\ CycleFound'
<1> DEFINE M(x) == MergedTo(S, h, x)
<1>1. PICK E, R, F : E = copyEdges /\ R = ReachedFrom(sccCandidates) /\ F = copyEdges' OBVIOUS
<1>2. Merging(E, S, h) /\ E \in Edges /\ F = MergedEdges(S, h, E) BY <1>1, ShapeTypes DEF Collapse
<1>3. /\ R \subseteq CGNode /\ \A s \in sccCandidates : s \in R
      /\ \A n \in R : \A m \in CGNode : Leads(E, n, m) => m \in R
      /\ \A C \in S : C \subseteq R
      /\ \A n \in R : \A m \in CGNode : OnCycle(E, n, m) => \E C \in S : n \in C /\ m \in C
  BY <1>1, ShapeTypes, CyclesRight
\* What the search has reached has no cycles any more.
<1>4. ASSUME NEW a \in CGNode, NEW b \in CGNode, OnCycle(F, a, b) PROVE OnCycle(E, a, b) /\ a \notin R
  <2>1. OnCycle(E, a, b) /\ ~\E C \in S : a \in C /\ b \in C BY <1>2, <1>4, MergedCycle
  <2> QED BY <2>1, <1>3
<1>5. \A n \in R : M(n) \in R /\ M(n) \in CGNode /\ Leads(E, n, M(n)) /\ Leads(E, M(n), n)
  <2>1. \A n \in R : M(n) \in CGNode BY <1>2, <1>3, MergedOne
  <2>2. \A n \in R : Leads(E, n, M(n)) /\ Leads(E, M(n), n) BY <1>2, <1>3, MergedTwice
  <2> QED BY <2>1, <2>2, <1>3
<1>6. nodeStack' = {M(n) : n \in R} /\ sccCandidates' = {}
      /\ cgPts' = [n \in CGNode |-> UNION {cgPts[m] : m \in Into(S, h, n)}]
  BY <1>1 DEF Collapse
<1>7. \A n \in nodeStack' : \A m \in CGNode : ~OnCycle(F, n, m) BY <1>4, <1>5, <1>6
<1>8. ASSUME NEW x \in F, x[1] \in nodeStack' PROVE x[2] \in nodeStack'
  <2>1. PICK c \in E : c[1] \in CGNode /\ c[2] \in CGNode /\ x[1] = M(c[1]) /\ x[2] = M(c[2])
    BY <1>2, MergedEdgeTypes
  <2>2. PICK n \in R : M(n) = M(c[1]) BY <2>1, <1>6, <1>8
  <2>3. Leads(E, n, c[1]) BY <2>1, <2>2, <1>2, <1>3, MergedSame
  <2>4. Leads(E, n, c[2]) BY <2>3, <1>2, <1>3, LeadsOn
  <2>5. c[2] \in R BY <2>1, <2>4, <1>3
  <2> QED BY <2>1, <2>5, <1>6
<1>9. WaveAhead'
  <2>1. \A n \in nodeStack' : \A m \in CGNode : ~OnCycle(copyEdges, n, m)' BY <1>1, <1>7 DEF OnCycle, Leads
  <2> QED BY <2>1, <1>1, <1>8 DEF WaveAhead
<1>10. CycleFound'
  <2> SUFFICES ASSUME NEW a \in CGNode, NEW b \in CGNode, OnCycle(copyEdges, a, b)' PROVE cgPts'[a] = {}
    BY DEF CycleFound
  <2>1. OnCycle(F, a, b) BY <1>1 DEF OnCycle, Leads
  <2>2. OnCycle(E, a, b) /\ a \notin R BY <2>1, <1>4
  <2>3. cgPts[a] = {}
    <3>1. OnCycle(copyEdges, a, b) BY <2>2, <1>1
    <3>2. cgPts[a] = {} \/ \E k \in sccCandidates : k = a \/ OnCycle(copyEdges, a, k)
      BY <3>1 DEF SCDInv, CycleFound
    <3>3. \A k \in sccCandidates : k \in R /\ (OnCycle(copyEdges, a, k) => a \in R)
      BY <1>1, <1>3, ShapeTypes DEF OnCycle
    <3> QED BY <3>2, <3>3, <2>2
  <2>4. Into(S, h, a) = {a}
    <3>1. \A C \in S : h[C] \in C BY <1>2 DEF Merging
    <3> QED BY <3>1, <2>2, <1>3 DEF Into
  <2> QED BY <2>3, <2>4, <1>6
<1> QED BY <1>9, <1>10

LEMMA CollapseAccesses ==
    ASSUME SCDInv, NEW S, NEW h, S = Cycles, Collapse(S, h)
    PROVE  AccessesDone'
<1> DEFINE M(x) == MergedTo(S, h, x)
<1>1. PICK E, F : E = copyEdges /\ F = copyEdges' OBVIOUS
<1>2. Merging(E, S, h) /\ F = MergedEdges(S, h, E) /\ E \in Edges BY <1>1, ShapeTypes DEF Collapse
<1>3. /\ prog' = prog /\ pc = "detect" /\ pc' = "wave" /\ rep' = [n \in CGNode |-> M(rep[n])]
      /\ cgPts' = [n \in CGNode |-> UNION {cgPts[m] : m \in Into(S, h, n)}]
      /\ cgWorklist' = {M(k) : k \in sccCandidates} /\ dueStores' = dueStores
  BY DEF Collapse
<1>4. cgWorklist = {} /\ dueStores = {} BY <1>3 DEF SCDInv, Phases
\* A node that is not to be handled has what it had before.
<1>5. ASSUME NEW n \in CGNode, M(n) \notin cgWorklist' PROVE cgPts'[M(n)] \subseteq cgPts[n]
  <2>1. M(n) \in CGNode BY <1>2, MergedOne
  <2>2. PICK k \in CGNode : k = M(n) BY <2>1
  <2>3. n \in Into(S, h, k) BY <1>2, <2>2, MergedTwice
  <2>4. cgPts'[k] = UNION {cgPts[m] : m \in Into(S, h, k)} BY <1>3, <2>2
  <2>5. \A m \in Into(S, h, k) : m # k => cgPts[m] = {} /\ cgPts[k] = {}
    BY <1>5, <2>2, MergedNews
  <2>6. ASSUME NEW m \in Into(S, h, k) PROVE cgPts[m] \subseteq cgPts[n]
    <3>1. CASE m # k BY <3>1, <2>5
    <3>2. CASE m = k /\ n = k BY <3>2
    <3>3. CASE m = k /\ n # k BY <3>3, <2>3, <2>5
    <3> QED BY <3>1, <3>2, <3>3
  <2> QED BY <2>2, <2>4, <2>6
<1>6. \A x, y \in CGNode : Linked(<<x, y>>) => M(x) = M(y) \/ <<M(x), M(y)>> \in F
  <2> SUFFICES ASSUME NEW x \in CGNode, NEW y \in CGNode, Linked(<<x, y>>), M(x) # M(y) PROVE <<M(x), M(y)>> \in F
    OBVIOUS
  <2>1. <<x, y>> \in E BY <1>1 DEF Linked
  <2>2. PICK e \in E : e[1] = x /\ e[2] = y BY <2>1
  <2> QED BY <2>2, <1>2 DEF MergedEdges
<1>7. \A o \in Obj, l \in Loc : /\ getAddrDef(prog, o, l) \in CGNode
                                /\ getAddrDef(prog, o, l)' = getAddrDef(prog, o, l)
  BY <1>3, CGTypes DEF SCDInv, getAddrDef, Versions, indirectEdgeSet
<1>8. \A o \in Obj, l \in Loc :
        /\ rep[getAddrDef(prog, o, l)] \in CGNode
        /\ (rep[getAddrDef(prog, o, l)])' = M(rep[getAddrDef(prog, o, l)])
  BY <1>3, <1>7, ShapeTypes
<1> HIDE DEF M
<1>9. ASSUME NEW x \in loadEdges', x.src \notin cgWorklist' PROVE LoadDone(x)'
  <2>1. PICK e \in loadEdges : x = [e EXCEPT !.src = MergedTo(S, h, e.src), !.dst = MergedTo(S, h, e.dst)]
    BY DEF Collapse
  <2>2. e \in Access /\ e.src \in CGNode /\ e.dst \in CGNode /\ e.loc \in Loc BY ShapeTypes
  <2>3. x.src = M(e.src) /\ x.dst = M(e.dst) /\ x.loc = e.loc BY <2>1, <2>2 DEF Access, M
  <2>4. e.src \notin sccCandidates BY <2>3, <1>3, <1>9
  <2>5. LoadDone(e) BY <2>4, <1>4 DEF SCDInv, AccessesDone, ToHandle
  <2>6. cgPts'[x.src] \subseteq cgPts[e.src] BY <2>2, <2>3, <1>5, <1>9
  <2>7. ASSUME NEW o \in cgPts'[x.src] \ prog.const
        PROVE  LET v == (rep[getAddrDef(prog, o, x.loc)])' IN v = x.dst \/ <<v, x.dst>> \in F
    <3>1. o \in Obj /\ o \in cgPts[e.src] \ prog.const BY <2>2, <2>6, ShapeTypes
    <3>2. Linked(<<version(o, e), e.dst>>) BY <3>1, <2>5 DEF LoadDone
    <3>3. PICK v \in CGNode : v = version(o, e) BY <3>1, <2>2, <1>8 DEF version
    <3>4. M(v) = M(e.dst) \/ <<M(v), M(e.dst)>> \in F BY <3>2, <3>3, <2>2, <1>6
    <3>5. (rep[getAddrDef(prog, o, e.loc)])' = M(v) BY <3>1, <3>3, <2>2, <1>8 DEF version
    <3>6. (rep[getAddrDef(prog, o, x.loc)])' = M(v) BY <3>5, <2>3 DEF getAddrDef, Versions, indirectEdgeSet
    <3> QED BY <3>4, <3>6, <2>3
  <2> QED BY <2>7, <1>1, <1>3 DEF LoadDone, Linked, version
<1>10. ASSUME NEW x \in storeEdges', x.dst \notin cgWorklist' PROVE StoreDone(x)'
  <2>1. PICK e \in storeEdges : x = [e EXCEPT !.src = MergedTo(S, h, e.src), !.dst = MergedTo(S, h, e.dst)]
    BY DEF Collapse
  <2>2. e \in Access /\ e.src \in CGNode /\ e.dst \in CGNode /\ e.loc \in Loc BY ShapeTypes
  <2>3. x.src = M(e.src) /\ x.dst = M(e.dst) /\ x.loc = e.loc BY <2>1, <2>2 DEF Access, M
  <2>4. e.dst \notin sccCandidates BY <2>3, <1>3, <1>10
  <2>5. StoreDone(e) BY <2>4, <1>4 DEF SCDInv, AccessesDone, ToHandle
  <2>6. cgPts'[x.dst] \subseteq cgPts[e.dst] BY <2>2, <2>3, <1>5, <1>10
  <2>7. ASSUME NEW o \in cgPts'[x.dst] \ prog.const
        PROVE  LET v == (rep[getAddrDef(prog, o, x.loc)])' IN x.src = v \/ <<x.src, v>> \in F
    <3>1. o \in Obj /\ o \in cgPts[e.dst] \ prog.const BY <2>2, <2>6, ShapeTypes
    <3>2. Linked(<<e.src, version(o, e)>>) BY <3>1, <2>5 DEF StoreDone
    <3>3. PICK v \in CGNode : v = version(o, e) BY <3>1, <2>2, <1>8 DEF version
    <3>4. M(e.src) = M(v) \/ <<M(e.src), M(v)>> \in F BY <3>2, <3>3, <2>2, <1>6
    <3>5. (rep[getAddrDef(prog, o, e.loc)])' = M(v) BY <3>1, <3>3, <2>2, <1>8 DEF version
    <3>6. (rep[getAddrDef(prog, o, x.loc)])' = M(v) BY <3>5, <2>3 DEF getAddrDef, Versions, indirectEdgeSet
    <3> QED BY <3>4, <3>6, <2>3
  <2> QED BY <2>7, <1>1, <1>3 DEF StoreDone, Linked, version
<1> QED BY <1>9, <1>10, <1>3 DEF AccessesDone, ToHandle

LEMMA SCCDetectInv == ASSUME SCDInv, SCCDetect PROVE SCDInv'
<1>1. PICK S, h : S = Cycles /\ Collapse(S, h) BY SCCDetectCollapses
<1>2. prog' = prog BY <1>1 DEF Collapse
<1>3. CGShape' /\ Phases' BY <1>1, CollapseShape
<1>4. CGArrived' /\ CGPending' BY <1>1, CollapseArrived
<1>5. WaveAhead' /\ CycleFound' BY <1>1, CollapseCycles
<1>6. AccessesDone' BY <1>1, CollapseAccesses
<1> QED BY <1>2, <1>3, <1>4, <1>5, <1>6 DEF SCDInv

\* No step changes the program.
LEMMA SameProgram == ASSUME [Next]_vars PROVE prog' = prog
<1>1. ASSUME InitWorklist PROVE prog' = prog BY <1>1 DEF InitWorklist
<1>2. ASSUME processNode PROVE prog' = prog
  BY <1>2 DEF processNode, processSVFGNode, processAddr, processCopy, processLoad, processStore, skipStore,
              processMSSA, processPass, processReceive, graphVars
<1>3. ASSUME SolveEnds PROVE prog' = prog BY <1>3 DEF SolveEnds
<1>4. ASSUME updateCallGraph PROVE prog' = prog BY <1>4 DEF updateCallGraph
<1>5. ASSUME Finished \/ UNCHANGED vars PROVE prog' = prog BY <1>5 DEF Finished, vars
<1> QED BY <1>1, <1>2, <1>3, <1>4, <1>5 DEF Next

\* What the sparse analysis does leaves the constraint graph as it is.
LEMMA SameGraphInv == ASSUME SCDInv, prog' = prog, UNCHANGED cgVars PROVE SCDInv'
<1>1. UNCHANGED <<prog, cgGraph, cgPts, propa, sccCandidates, nodeStack, dueStores, cgConnected, reanalyze, cleared>>
      /\ cgWorklist' = cgWorklist /\ pc' = pc
  BY DEF cgVars
<1>2. Phases'
  <2>1. Phases BY DEF SCDInv
  <2> QED BY <2>1, <1>1 DEF Phases
<1>3. AccessesDone'
  <2>1. AccessesDone BY DEF SCDInv
  <2>2. \A e : (LoadDone(e) => LoadDone(e)') /\ (StoreDone(e) => StoreDone(e)') BY <1>1, SameAccesses DEF cgGraph
  <2> QED BY <2>1, <2>2, <1>1 DEF AccessesDone, ToHandle, cgGraph
<1>4. pc' \in {"detect", "wave", "accesses", "connect", "done"} BY <1>1 DEF SCDInv, CGShape, CGTypeOK
<1> QED BY <1>1, <1>2, <1>3, <1>4, PhaseStepInv

LEMMA CGStepInv == ASSUME SCDInv, [BothNext]_allVars PROVE SCDInv'
<1>1. ASSUME Next, UNCHANGED cgVars PROVE SCDInv' BY <1>1, SameProgram, SameGraphInv
<1>2. ASSUME UNCHANGED allVars PROVE SCDInv'
  <2>1. UNCHANGED cgVars /\ prog' = prog BY <1>2 DEF allVars, vars
  <2> QED BY <2>1, SameGraphInv
<1>3. ASSUME CGNext PROVE SCDInv'
  BY <1>3, SCCDetectInv, HandleCopyGepInv, WaveEndsInv, HandleLoadsInv, HandleStoreInv, AccessesEndInv,
     ConnectCalleesInv DEF CGNext
<1> QED BY <1>1, <1>2, <1>3 DEF BothNext

\* The constraint graph is solved when its analysis ends, for every program:
\* searching only from the sources of new edges and propagating only what a node
\* has not propagated leaves no constraint open, but for nodes a strong update
\* has emptied (solveWorklist, addCopyEdge, processStore).
THEOREM ConstraintGraphSolved == BothSpec => []SolvedUnlessEmptied
<1>1. BothInit => SCDInv
  BY CGInitInv DEF BothInit, Init
<1>2. SCDInv /\ [BothNext]_allVars => SCDInv'
  BY CGStepInv
<1>3. SCDInv => SolvedUnlessEmptied
  BY SCDDone
<1> QED BY <1>1, <1>2, <1>3, PTL DEF BothSpec

\* The sparse analysis that runs before it keeps its promise: each step of both
\* is a step of it or leaves it alone, and the answers the second is compared
\* with are the exact ones (FlowSensitive's solveConstraints).
THEOREM ComparedWithExact == BothSpec => []Exact
<1>1. BothInit => Init
  BY DEF BothInit
<1>2. [BothNext]_allVars => [Next]_vars
  BY DEF BothNext, CGNext, SCCDetect, handleCopyGep, WaveEnds, handleLoads, handleStore, AccessesEnd,
         connectCallees, allVars
<1> QED BY <1>1, <1>2, StepsExact, PTL DEF BothSpec

-----------------------------------------------------------------------------
(* The two analyses compared.  SparsePts is what the sparse analysis ended  *)
(* with for what a node stands for; nothing bounds an object without        *)
(* version.                                                                 *)
SparsePts(n) ==
    IF n[2] = Plain THEN (IF n[1] \in Var THEN pts[n[1]] ELSE Obj)
    ELSE IF stmt(n[2]).kind = "store" THEN outPts[n[2]][n[1]] ELSE inPts[n[2]][n[1]]
Comparable == NothingHeldBack /\ LoadsVersioned /\ ReturnsApart

\* Every edge leads to a node that stands for more, also those that loads and
\* stores may still add; so merged nodes stand for the same.
BoundedEdges(E) == \A c \in E : SparsePts(c[1]) \subseteq SparsePts(c[2])
BoundedLoad(e) == \A o \in SparsePts(e.src) \ prog.const :
    SparsePts(getAddrDef(prog, o, e.loc)) \subseteq SparsePts(e.dst)
BoundedStore(e) == \A o \in SparsePts(e.dst) \ prog.const :
    SparsePts(e.src) \subseteq SparsePts(getAddrDef(prog, o, e.loc))
Bounded ==
    /\ \A n \in CGNode : cgPts[n] \subseteq SparsePts(n) /\ SparsePts(rep[n]) = SparsePts(n)
    /\ BoundedEdges(copyEdges)
    /\ \A e \in loadEdges : BoundedLoad(e)
    /\ \A e \in storeEdges : BoundedStore(e)
\* The graph the sparse analysis has built: what the program came with and what
\* the connected callees added.
GraphBuilt == /\ passes = prog.passes \union UNION {c.passes : c \in connected}
              /\ flows = prog.flows \union UNION {c.flows : c \in connected}

\* Accesses are where their edge says they are.
LEMMA AccessAt ==
    ASSUME prog \in Programs, NEW kind, NEW e \in AccessEdges(prog, kind)
    PROVE  \E v, w \in Var : /\ e.loc \in Loc /\ stmt(e.loc).kind = kind
                             /\ stmt(e.loc).src = {v} /\ stmt(e.loc).dst = {w}
                             /\ e.src = plain(v) /\ e.dst = plain(w)
<1> DEFINE places(v, w) == {l \in Loc : prog.stmt[l].kind = kind /\ prog.stmt[l].src = {v} /\ prog.stmt[l].dst = {w}}
<1>1. AccessEdges(prog, kind)
      = {[src |-> plain(c[1]), dst |-> plain(c[2]), loc |-> Max(places(c[1], c[2]))] :
           c \in {x \in Var \X Var : places(x[1], x[2]) # {}}}
  BY DEF AccessEdges
<1>2. \A v, w : places(v, w) \in SUBSET Loc
  OBVIOUS
<1>3. PICK c \in Var \X Var : /\ places(c[1], c[2]) # {}
                              /\ e = [src |-> plain(c[1]), dst |-> plain(c[2]), loc |-> Max(places(c[1], c[2]))]
  <2> HIDE DEF places
  <2> QED BY <1>1
<1>4. Max(places(c[1], c[2])) \in places(c[1], c[2])
  <2> HIDE DEF places
  <2> QED BY <1>2, <1>3, MaxIn
<1>5. e.loc \in places(c[1], c[2]) /\ e.src = plain(c[1]) /\ e.dst = plain(c[2])
  <2> HIDE DEF places
  <2> QED BY <1>3, <1>4
<1>6. c[1] \in Var /\ c[2] \in Var
  OBVIOUS
<1> QED BY <1>5, <1>6 DEF stmt

\* What passes along a parameter edge of the graph has arrived.
LEMMA PassesBounded ==
    ASSUME Inv, phase = "done", NEW E \in SUBSET passes
    PROVE  BoundedEdges(PassCopies(prog, E))
<1>1. TypeOK /\ GraphShape /\ \A l \in Loc : DoneWith(l)
  BY DEF Inv, AtRest, NoNewsLost, Due
<1> SUFFICES ASSUME NEW e \in E, NEW c \in Pairs(prog.stmt[e[1]].src, prog.stmt[e[2]].dst)
             PROVE  SparsePts(c[1]) \subseteq SparsePts(c[2])
  BY DEF BoundedEdges, PassCopies
<1>2. PICK v \in stmt(e[1]).src, w \in stmt(e[2]).dst : c[1] = plain(v) /\ c[2] = plain(w)
  BY DEF Pairs, stmt
<1>3. e[1] \in Loc /\ e[2] \in Loc /\ e = <<e[1], e[2]>> /\ e \in passes
  BY <1>1 DEF TypeOK
<1>4. stmt(e[1]).kind = "pass" /\ stmt(e[2]).kind = "receive"
  BY <1>1, <1>3 DEF GraphShape
<1>5. PtsOf(stmt(e[1]).src) \subseteq PtsOf(stmt(e[2]).dst)
  BY <1>1, <1>3, <1>4 DEF DoneWith
<1>6. stmt(e[2]).dst = {w} /\ v \in Var /\ w \in Var
  BY <1>1, <1>2, <1>3, <1>4, Operands, StmtType
<1>7. pts[v] \subseteq pts[w]
  BY <1>2, <1>5, <1>6 DEF PtsOf
<1> QED BY <1>2, <1>6, <1>7 DEF SparsePts, plain

LEMMA InitBounded ==
    ASSUME Inv, GraphBuilt, phase = "done", Comparable, CGInit
    PROVE  Bounded
<1>1. TypeOK /\ GraphShape /\ StoresDelivered /\ \A l \in Loc : DoneWith(l)
  BY DEF Inv, AtRest, NoNewsLost, Due
<1>2. prog \in Programs /\ prog \in Program /\ WellFormed(prog)
  BY <1>1, ProgramsAssumption DEF TypeOK
<1>3. \A v \in Var : SparsePts(plain(v)) = pts[v]
  BY DEF SparsePts, plain
<1>4. \A o \in Obj : SparsePts(plain(o)) = Obj
  BY FSConsGAssumption DEF SparsePts, plain
<1>5. \A o \in Obj, l \in Loc :
        SparsePts(<<o, l>>) = IF stmt(l).kind = "store" THEN outPts[l][o] ELSE inPts[l][o]
  BY FSConsGAssumption DEF SparsePts
<1>6. rep = [n \in CGNode |-> n] /\ copyEdges = CopyEdges(prog)
      /\ loadEdges = AccessEdges(prog, "load") /\ storeEdges = AccessEdges(prog, "store")
      /\ cgPts = [n \in CGNode |-> UNION {stmt(l).obj : l \in {k \in AddrStmts : n = Pointer(k)}}]
  BY DEF CGInit
<1>7. \A v \in Var : pts[v] \subseteq Obj
  BY <1>1 DEF TypeOK
<1>8. ASSUME NEW l \in AddrStmts PROVE stmt(l).obj \subseteq SparsePts(Pointer(l))
  <2>1. l \in Loc /\ stmt(l).kind = "addr"
    BY DEF AddrStmts
  <2>2. PICK v \in Var : stmt(l).dst = {v}
    BY <1>1, <2>1, Operands
  <2>3. Pointer(l) = plain(v)
    BY <2>2 DEF Pointer, Only
  <2>4. stmt(l).obj \subseteq pts[v]
    BY <1>1, <2>1, <2>2 DEF DoneWith, PtsOf
  <2> QED BY <1>3, <2>3, <2>4
<1>9. \A n \in CGNode : cgPts[n] \subseteq SparsePts(n) /\ SparsePts(rep[n]) = SparsePts(n)
  BY <1>6, <1>8
<1>10. BoundedEdges(copyEdges)
  <2> DEFINE R == PassCopies(prog, {e \in prog.passes : e[1] \in FormalRet})
             A == UNION {Pairs(prog.stmt[l].src, prog.stmt[l].dst) : l \in {k \in Loc : prog.stmt[k].kind = "copy"}}
             B == {<<c[2], c[1]>> : c \in R}
             F == {<<<<f.obj, f.from>>, <<f.obj, f.to>>>> : f \in indirectEdgeSet(prog)}
  <2>1. CopyEdges(prog) \subseteq A \union PassCopies(prog, prog.passes) \union B \union F
    BY DEF CopyEdges
  <2>2. BoundedEdges(A)
    <3> SUFFICES ASSUME NEW l \in Loc, stmt(l).kind = "copy", NEW c \in Pairs(stmt(l).src, stmt(l).dst)
                 PROVE  SparsePts(c[1]) \subseteq SparsePts(c[2])
      BY DEF BoundedEdges, stmt
    <3>1. PICK v \in stmt(l).src, w \in stmt(l).dst : c[1] = plain(v) /\ c[2] = plain(w)
      BY DEF Pairs
    <3>2. v \in Var /\ w \in Var /\ stmt(l).dst = {w}
      BY <1>1, <3>1, Operands, StmtType
    <3>3. PtsOf(stmt(l).src) \subseteq PtsOf(stmt(l).dst)
      BY <1>1 DEF DoneWith
    <3>4. pts[v] \subseteq pts[w]
      BY <3>1, <3>2, <3>3 DEF PtsOf
    <3> QED BY <1>3, <3>1, <3>2, <3>4
  <2>3. BoundedEdges(PassCopies(prog, prog.passes))
    BY PassesBounded DEF GraphBuilt
  <2>4. BoundedEdges(B)
    <3> SUFFICES ASSUME NEW e \in prog.passes, e[1] \in FormalRet,
                        NEW c \in Pairs(stmt(e[1]).src, stmt(e[2]).dst)
                 PROVE  SparsePts(c[2]) \subseteq SparsePts(c[1])
      BY DEF BoundedEdges, PassCopies, stmt
    <3>1. PICK v \in stmt(e[1]).src, w \in stmt(e[2]).dst : c[1] = plain(v) /\ c[2] = plain(w)
      BY DEF Pairs
    <3>2. e \in passes /\ e[1] \in Loc /\ e[2] \in Loc
      BY <1>1 DEF GraphBuilt, TypeOK
    <3>3. stmt(e[1]).kind = "pass"
      BY <1>1, <3>2 DEF GraphShape
    <3>4. stmt(e[1]).src = {v} /\ v \in Var /\ w \in Var
      BY <1>1, <3>1, <3>2, <3>3, Operands, StmtType
    <3>5. PtsOf(stmt(e[2]).dst) \subseteq PtsOf(stmt(e[1]).src)
      BY DEF Comparable, ReturnsApart
    <3>6. pts[w] \subseteq pts[v]
      BY <3>1, <3>4, <3>5 DEF PtsOf
    <3> QED BY <1>3, <3>1, <3>4, <3>6
  <2>5. BoundedEdges(F)
    <3> SUFFICES ASSUME NEW f \in indirectEdgeSet(prog)
                 PROVE  SparsePts(<<f.obj, f.from>>) \subseteq SparsePts(<<f.obj, f.to>>)
      BY DEF BoundedEdges
    <3>1. f \in flows /\ f.from \in Loc /\ f.to \in Loc /\ f.obj \in Obj
      BY <1>1 DEF indirectEdgeSet, GraphBuilt, TypeOK, Flow
    <3>2. stmt(f.from).kind \in {"store", "mssa"}
      BY <1>1, <3>1 DEF GraphShape
    <3>3. SparsePts(<<f.obj, f.from>>) \subseteq inPts[f.to][f.obj]
      <4>1. CASE stmt(f.from).kind = "store"
        BY <1>1, <1>5, <3>1, <4>1 DEF StoresDelivered
      <4>2. CASE stmt(f.from).kind = "mssa"
        BY <1>1, <1>5, <3>1, <4>2 DEF DoneWith
      <4> QED BY <3>2, <4>1, <4>2
    <3>4. inPts[f.to][f.obj] \subseteq SparsePts(<<f.obj, f.to>>)
      <4>1. CASE stmt(f.to).kind = "store"
        <5>1. ~blocked(f.to) /\ f.obj \notin overwritten(f.to)
          BY <4>1 DEF Comparable, NothingHeldBack
        <5> QED BY <1>1, <1>5, <3>1, <4>1, <5>1 DEF DoneWith
      <4>2. CASE stmt(f.to).kind # "store"
        BY <1>5, <3>1, <4>2
      <4> QED BY <4>1, <4>2
    <3> QED BY <3>3, <3>4
  <2> HIDE DEF A, B, F
  <2> QED BY <1>6, <2>1, <2>2, <2>3, <2>4, <2>5 DEF BoundedEdges
<1>11. ASSUME NEW e \in loadEdges PROVE BoundedLoad(e)
  <2>1. PICK v \in Var, w \in Var : /\ e.loc \in Loc /\ stmt(e.loc).kind = "load"
                                    /\ stmt(e.loc).src = {v} /\ stmt(e.loc).dst = {w}
                                    /\ e.src = plain(v) /\ e.dst = plain(w)
    BY <1>2, <1>6, AccessAt
  <2>2. SparsePts(e.src) = pts[v] /\ SparsePts(e.dst) = pts[w]
    BY <1>3, <2>1
  <2>3. Touched(stmt(e.loc).src) = pts[v] \ prog.const
    BY <2>1 DEF Touched, PtsOf
  <2>4. ASSUME NEW o \in pts[v] \ prog.const PROVE SparsePts(getAddrDef(prog, o, e.loc)) \subseteq pts[w]
    <3>1. getAddrDef(prog, o, e.loc) = <<o, e.loc>>
      BY <2>1, <2>3 DEF Comparable, LoadsVersioned, getAddrDef
    <3>2. inPts[e.loc][o] \subseteq PtsOf(stmt(e.loc).dst)
      BY <1>1, <2>1, <2>3 DEF DoneWith
    <3>3. SparsePts(<<o, e.loc>>) = inPts[e.loc][o]
      BY <1>5, <1>7, <2>1
    <3> QED BY <2>1, <3>1, <3>2, <3>3 DEF PtsOf
  <2> QED BY <2>2, <2>4 DEF BoundedLoad
<1>12. ASSUME NEW e \in storeEdges PROVE BoundedStore(e)
  <2>1. PICK v \in Var, w \in Var : /\ e.loc \in Loc /\ stmt(e.loc).kind = "store"
                                    /\ stmt(e.loc).src = {v} /\ stmt(e.loc).dst = {w}
                                    /\ e.src = plain(v) /\ e.dst = plain(w)
    BY <1>2, <1>6, AccessAt
  <2>2. SparsePts(e.src) = pts[v] /\ SparsePts(e.dst) = pts[w]
    BY <1>3, <2>1
  <2>3. Touched(stmt(e.loc).dst) = pts[w] \ prog.const
    BY <2>1 DEF Touched, PtsOf
  <2>4. ASSUME NEW o \in pts[w] \ prog.const PROVE pts[v] \subseteq SparsePts(getAddrDef(prog, o, e.loc))
    <3>1. CASE getAddrDef(prog, o, e.loc) = <<o, e.loc>>
      <4>1. PtsOf(stmt(e.loc).src) \subseteq outPts[e.loc][o]
        BY <1>1, <2>1, <2>3 DEF DoneWith
      <4>2. SparsePts(<<o, e.loc>>) = outPts[e.loc][o]
        BY <1>5, <1>7, <2>1
      <4> QED BY <2>1, <3>1, <4>1, <4>2 DEF PtsOf
    <3>2. CASE getAddrDef(prog, o, e.loc) = plain(o)
      BY <1>4, <1>7, <3>2
    <3> QED BY <3>1, <3>2 DEF getAddrDef
  <2> QED BY <2>2, <2>4 DEF BoundedStore
<1> QED BY <1>9, <1>10, <1>11, <1>12 DEF Bounded

\* The sparse analysis has ended, and what it ended with stays.
LEMMA SparseStill ==
    ASSUME UNCHANGED vars
    PROVE  /\ prog' = prog /\ \A l : stmt(l)' = stmt(l)
           /\ \A n : SparsePts(n)' = SparsePts(n)
           /\ Comparable' <=> Comparable
           /\ \A o, l : getAddrDef(prog, o, l)' = getAddrDef(prog, o, l)
<1>1. prog' = prog /\ pts' = pts /\ inPts' = inPts /\ outPts' = outPts
  BY DEF vars
<1>2. \A n : SparsePts(n)' = SparsePts(n)
  BY <1>1 DEF SparsePts, stmt
<1>3. \A l : stmt(l)' = stmt(l) /\ blocked(l)' = blocked(l) /\ overwritten(l)' = overwritten(l)
  BY <1>1 DEF stmt, blocked, overwritten, PtsOf
<1>4. \A V : PtsOf(V)' = PtsOf(V) /\ Touched(V)' = Touched(V)
  BY <1>1 DEF PtsOf, Touched
<1>5. NothingHeldBack' <=> NothingHeldBack
  BY <1>1, <1>3 DEF NothingHeldBack, indirectEdgeSet
<1>6. LoadsVersioned' <=> LoadsVersioned
  BY <1>1, <1>3, <1>4 DEF LoadsVersioned, Versions, indirectEdgeSet, stmt, Touched, PtsOf
<1>7. ReturnsApart' <=> ReturnsApart
  BY <1>1 DEF ReturnsApart, stmt, PtsOf
<1>8. \A o, l : getAddrDef(prog, o, l)' = getAddrDef(prog, o, l)
  BY <1>1 DEF getAddrDef, Versions, indirectEdgeSet
<1> QED BY <1>1, <1>2, <1>3, <1>5, <1>6, <1>7, <1>8 DEF Comparable

LEMMA AccessStill ==
    ASSUME UNCHANGED vars, NEW e
    PROVE  (BoundedLoad(e)' <=> BoundedLoad(e)) /\ (BoundedStore(e)' <=> BoundedStore(e))
<1>1. /\ \A n : SparsePts(n)' = SparsePts(n)
      /\ \A o, l : getAddrDef(prog, o, l)' = getAddrDef(prog, o, l)
      /\ prog' = prog
  BY SparseStill
<1>2. \A o : SparsePts(getAddrDef(prog, o, e.loc))' = SparsePts(getAddrDef(prog, o, e.loc))
  <2> TAKE o
  <2>1. PICK y : y = getAddrDef(prog, o, e.loc)
    OBVIOUS
  <2>2. getAddrDef(prog, o, e.loc)' = y /\ SparsePts(y)' = SparsePts(y)
    BY <1>1, <2>1
  <2>3. SparsePts(getAddrDef(prog, o, e.loc))' = SparsePts(y)'
    BY <2>2 DEF SparsePts
  <2> QED BY <2>1, <2>2, <2>3
<1>3. SparsePts(e.src)' = SparsePts(e.src) /\ SparsePts(e.dst)' = SparsePts(e.dst)
  <2>1. PICK x, y : x = e.src /\ y = e.dst
    OBVIOUS
  <2> QED BY <1>1, <2>1
<1>4. BoundedLoad(e)' <=> BoundedLoad(e)
  BY <1>1, <1>2, <1>3 DEF BoundedLoad
<1>5. BoundedStore(e)' <=> BoundedStore(e)
  BY <1>1, <1>2, <1>3 DEF BoundedStore
<1> QED BY <1>4, <1>5

\* Copy edges of a step, and steps that leave the edges alone.
LEMMA BoundedNext ==
    ASSUME Bounded, UNCHANGED vars,
           rep' = rep, loadEdges' = loadEdges, storeEdges' = storeEdges,
           BoundedEdges(copyEdges'), \A n \in CGNode : cgPts'[n] \subseteq SparsePts(n)
    PROVE  Bounded'
<1>1. /\ \A n : SparsePts(n)' = SparsePts(n)
      /\ \A o, l : getAddrDef(prog, o, l)' = getAddrDef(prog, o, l)
      /\ prog' = prog
  BY SparseStill
<1>2. \A n \in CGNode : cgPts'[n] \subseteq SparsePts(n)' /\ SparsePts(rep[n])' = SparsePts(n)'
  <2> SUFFICES ASSUME NEW n \in CGNode PROVE SparsePts(rep[n])' = SparsePts(n)
    BY <1>1
  <2>1. PICK r : r = rep[n]
    OBVIOUS
  <2>2. rep'[n] = r /\ SparsePts(r) = SparsePts(n)
    BY <2>1 DEF Bounded
  <2>3. SparsePts(rep[n])' = SparsePts(r)'
    BY <2>2 DEF SparsePts
  <2> QED BY <1>1, <2>2, <2>3
<1>3. BoundedEdges(copyEdges)'
  <2>1. PICK E : E = copyEdges'
    OBVIOUS
  <2>2. \A c \in E : SparsePts(c[1])' \subseteq SparsePts(c[2])'
    BY <1>1, <2>1 DEF BoundedEdges
  <2> QED BY <2>1, <2>2 DEF BoundedEdges
<1>4. \A e \in loadEdges' : BoundedLoad(e)'
  <2> SUFFICES ASSUME NEW e \in loadEdges PROVE BoundedLoad(e)'
    OBVIOUS
  <2>1. BoundedLoad(e)
    BY DEF Bounded
  <2> QED BY <2>1, AccessStill
<1>5. \A e \in storeEdges' : BoundedStore(e)'
  <2> SUFFICES ASSUME NEW e \in storeEdges PROVE BoundedStore(e)'
    OBVIOUS
  <2>1. BoundedStore(e)
    BY DEF Bounded
  <2> QED BY <2>1, AccessStill
<1> QED BY <1>2, <1>3, <1>4, <1>5 DEF Bounded

LEMMA EdgeStepBounded ==
    ASSUME SCDInv, Bounded, UNCHANGED vars, NEW C, EdgeStep(C), BoundedEdges(C)
    PROVE  Bounded'
<1>1. rep' = rep /\ loadEdges' = loadEdges /\ storeEdges' = storeEdges
  BY DEF EdgeStep
<1>2. BoundedEdges(copyEdges')
  <2>1. \A c \in copyEdges' \ copyEdges : c \in C
    BY EdgeStepFacts
  <2> QED BY <2>1 DEF Bounded, BoundedEdges
<1>3. \A n \in CGNode : cgPts'[n] \subseteq SparsePts(n)
  <2>1. \A n \in CGNode : cgPts'[n] \subseteq cgPts[n]
    BY EdgeStepFacts
  <2> QED BY <2>1 DEF Bounded
<1> QED BY <1>1, <1>2, <1>3, BoundedNext

LEMMA HandleLoadsBounded ==
    ASSUME SCDInv, Bounded, UNCHANGED vars, NEW n \in cgWorklist, handleLoads(n)
    PROVE  Bounded'
<1>1. EdgeStep(LoadCopies(n)) /\ \A o \in cgPts[n], e \in loadEdges : getAddrDef(prog, o, e.loc) \in CGNode
  BY HandleLoadsStep
<1>2. ASSUME NEW x \in (cgPts[n] \ prog.const) \X {e \in loadEdges : e.src = n}
      PROVE  SparsePts(version(x[1], x[2])) \subseteq SparsePts(x[2].dst)
  <2>1. PICK o, e : o = x[1] /\ e = x[2] /\ o \in cgPts[n] \ prog.const /\ e \in loadEdges /\ e.src = n
    OBVIOUS
  <2>2. n \in CGNode
    BY ShapeTypes
  <2>3. o \in SparsePts(e.src) \ prog.const
    BY <2>1, <2>2 DEF Bounded
  <2>4. SparsePts(getAddrDef(prog, o, e.loc)) \subseteq SparsePts(e.dst)
    BY <2>1, <2>3 DEF Bounded, BoundedLoad
  <2>5. SparsePts(version(o, e)) = SparsePts(getAddrDef(prog, o, e.loc))
    BY <1>1, <2>1 DEF Bounded, version
  <2> QED BY <2>1, <2>4, <2>5
<1>3. BoundedEdges(LoadCopies(n))
  BY <1>2 DEF BoundedEdges, LoadCopies
<1> QED BY <1>1, <1>3, EdgeStepBounded

LEMMA HandleStoreBounded ==
    ASSUME SCDInv, Bounded, UNCHANGED vars, NEW e \in dueStores, handleStore(e)
    PROVE  Bounded'
<1>1. /\ EdgeStep(StoreCopies(e)) /\ e \in storeEdges /\ e.dst \in CGNode
      /\ \A o \in cgPts[e.dst] : getAddrDef(prog, o, e.loc) \in CGNode
  BY HandleStoreStep
<1>2. ASSUME NEW o \in cgPts[e.dst] \ prog.const PROVE SparsePts(e.src) \subseteq SparsePts(version(o, e))
  <2>1. o \in SparsePts(e.dst) \ prog.const
    BY <1>1 DEF Bounded
  <2>2. SparsePts(e.src) \subseteq SparsePts(getAddrDef(prog, o, e.loc))
    BY <1>1, <2>1 DEF Bounded, BoundedStore
  <2> QED BY <1>1, <2>2 DEF Bounded, version
<1>3. BoundedEdges(StoreCopies(e))
  BY <1>2 DEF BoundedEdges, StoreCopies
<1> QED BY <1>1, <1>3, EdgeStepBounded

\* A callee that the graph's solver finds has been connected by the sparse
\* analysis.
LEMMA ConnectCalleesBounded ==
    ASSUME SCDInv, Inv, GraphBuilt, phase = "done", Bounded, UNCHANGED vars, connectCallees
    PROVE  Bounded'
<1>1. EdgeStep(CalleeCopies) /\ newCallees \subseteq prog.calls /\ CalleePasses \in Edges
  BY ConnectCalleesStep
<1>2. prog \in Program
  BY ProgramsAssumption DEF SCDInv
<1>3. ASSUME NEW k \in newCallees PROVE k.passes \subseteq passes
  <2>1. k \in prog.calls /\ k.fun \in cgPts[rep[plain(k.fp)]]
    BY DEF newCallees, getPts
  <2>2. k.fp \in Var
    BY <1>2, <2>1 DEF Program, Call
  <2>3. plain(k.fp) \in CGNode
    BY <2>2 DEF CGNode
  <2>4. rep[plain(k.fp)] \in CGNode
    BY <2>3, ShapeTypes
  <2>5. k.fun \in SparsePts(plain(k.fp))
    BY <2>1, <2>3, <2>4 DEF Bounded
  <2>6. SparsePts(plain(k.fp)) = pts[k.fp]
    BY <2>2 DEF SparsePts, plain
  <2>7. newCalls = {}
    BY DEF Inv, AtRest
  <2>8. k \in connected
    BY <2>1, <2>5, <2>6, <2>7 DEF newCalls
  <2> QED BY <2>8 DEF GraphBuilt
<1>4. UNION {k.passes : k \in newCallees} \in SUBSET passes
  BY <1>3
<1>5. BoundedEdges(CalleePasses)
  BY <1>4, PassesBounded DEF CalleePasses
<1>6. BoundedEdges(CalleeCopies)
  <2> SUFFICES ASSUME NEW c \in CalleePasses PROVE SparsePts(rep[c[1]]) \subseteq SparsePts(rep[c[2]])
    BY DEF BoundedEdges, CalleeCopies
  <2>1. c[1] \in CGNode /\ c[2] \in CGNode
    BY <1>1 DEF Edges
  <2> QED BY <1>5, <2>1 DEF BoundedEdges, Bounded
<1> QED BY <1>1, <1>6, EdgeStepBounded

LEMMA HandleCopyGepBounded ==
    ASSUME SCDInv, Bounded, UNCHANGED vars, handleCopyGep
    PROVE  Bounded'
<1>1. copyEdges' = copyEdges /\ rep' = rep /\ loadEdges' = loadEdges /\ storeEdges' = storeEdges
  BY DEF handleCopyGep, cgGraph
<1>2. PICK n : \/ cgPts' = cgPts
               \/ cgPts' = [m \in CGNode |-> cgPts[m] \union IF <<n, m>> \in copyEdges THEN cgPts[n] \ propa[n] ELSE {}]
  <2> DEFINE k == CHOOSE m \in nodeStack : \A j \in nodeStack : <<j, m>> \notin copyEdges
  <2>1. \/ cgPts' = cgPts
        \/ cgPts' = [m \in CGNode |-> cgPts[m] \union IF <<k, m>> \in copyEdges THEN cgPts[k] \ propa[k] ELSE {}]
    BY DEF handleCopyGep
  <2> HIDE DEF k
  <2> QED BY <2>1
<1>3. \A m \in CGNode : cgPts'[m] \subseteq SparsePts(m)
  <2>1. CASE cgPts' = cgPts
    BY <2>1 DEF Bounded
  <2>2. CASE cgPts' = [m \in CGNode |-> cgPts[m] \union IF <<n, m>> \in copyEdges THEN cgPts[n] \ propa[n] ELSE {}]
    <3>1. ASSUME NEW m \in CGNode, <<n, m>> \in copyEdges PROVE cgPts[n] \subseteq SparsePts(m)
      <4>1. n \in CGNode
        BY <3>1, ShapeTypes DEF Edges
      <4>2. SparsePts(n) \subseteq SparsePts(m)
        <5>1. PICK c \in copyEdges : c[1] = n /\ c[2] = m
          BY <3>1
        <5> QED BY <5>1 DEF Bounded, BoundedEdges
      <4> QED BY <4>1, <4>2 DEF Bounded
    <3> QED BY <2>2, <3>1 DEF Bounded
  <2> QED BY <1>2, <2>1, <2>2
<1> QED BY <1>1, <1>3, BoundedNext DEF Bounded

LEMMA LeadsBounded ==
    ASSUME NEW E \in Edges, BoundedEdges(E), NEW a \in CGNode, NEW b \in CGNode, Leads(E, a, b)
    PROVE  SparsePts(a) \subseteq SparsePts(b)
<1> DEFINE T == {t \in CGNode : SparsePts(a) \subseteq SparsePts(t)}
<1>1. a \in T /\ T \in SUBSET CGNode
  OBVIOUS
<1>2. \A c \in E : c[1] \in T => c[2] \in T
  <2> SUFFICES ASSUME NEW c \in E, c[1] \in T PROVE c[2] \in T
    OBVIOUS
  <2>1. c[2] \in CGNode
    BY DEF Edges
  <2> QED BY <2>1 DEF BoundedEdges
<1>3. b \in T
  <2> HIDE DEF T
  <2> QED BY <1>1, <1>2 DEF Leads
<1> QED BY <1>3

LEMMA SCCDetectBounded ==
    ASSUME SCDInv, Bounded, UNCHANGED vars, SCCDetect
    PROVE  Bounded'
<1>1. PICK S, h : Collapse(S, h)
  BY SCCDetectCollapses
<1> DEFINE M(x) == MergedTo(S, h, x)
<1>2. PICK E, F, L : E = copyEdges /\ F = copyEdges' /\ L = rep
  OBVIOUS
<1>3. Merging(E, S, h) /\ E \in Edges /\ F = MergedEdges(S, h, E) /\ BoundedEdges(E) /\ L \in [CGNode -> CGNode]
  BY <1>1, <1>2, ShapeTypes DEF Collapse, Bounded
<1>4. \A n \in CGNode : M(n) \in CGNode /\ SparsePts(M(n)) = SparsePts(n)
  <2> SUFFICES ASSUME NEW n \in CGNode PROVE M(n) \in CGNode /\ SparsePts(M(n)) = SparsePts(n)
    OBVIOUS
  <2>1. Leads(E, n, M(n)) /\ Leads(E, M(n), n) /\ M(n) \in CGNode
    BY <1>3, MergedTwice, MergedOne
  <2> HIDE DEF M
  <2> QED BY <1>3, <2>1, LeadsBounded
<1>5. /\ \A n : SparsePts(n)' = SparsePts(n)
      /\ \A o, l : getAddrDef(prog, o, l)' = getAddrDef(prog, o, l)
      /\ prog' = prog
  BY SparseStill
<1>6. ASSUME NEW n \in CGNode PROVE cgPts'[n] \subseteq SparsePts(n)
  <2>1. cgPts'[n] = UNION {cgPts[m] : m \in Into(S, h, n)}
    BY <1>1 DEF Collapse
  <2>2. ASSUME NEW m \in Into(S, h, n) PROVE m \in CGNode /\ SparsePts(m) = SparsePts(n)
    <3>1. m \in CGNode /\ (M(n) = n => M(m) = n) /\ (m # n => M(n) = n)
      BY <1>3, MergedTwice
    <3> HIDE DEF M
    <3> QED BY <1>4, <3>1
  <2> QED BY <2>1, <2>2 DEF Bounded
<1>7. ASSUME NEW n \in CGNode PROVE SparsePts(rep[n])' = SparsePts(n)
  <2>1. PICK r \in CGNode : r = L[n]
    BY <1>3
  <2>2. rep'[n] = M(r)
    BY <1>1, <1>2, <2>1 DEF Collapse
  <2>3. SparsePts(r) = SparsePts(n)
    BY <1>2, <2>1 DEF Bounded
  <2>4. PICK s : s = M(r) /\ SparsePts(s) = SparsePts(r)
    BY <1>4
  <2>5. SparsePts(rep[n])' = SparsePts(s)'
    BY <2>2, <2>4 DEF SparsePts
  <2> QED BY <1>5, <2>3, <2>4, <2>5
<1>8. ASSUME NEW x \in F PROVE SparsePts(x[1]) \subseteq SparsePts(x[2])
  <2>1. PICK c \in E : c[1] \in CGNode /\ c[2] \in CGNode /\ x[1] = M(c[1]) /\ x[2] = M(c[2])
    BY <1>3, MergedEdgeTypes
  <2> HIDE DEF M
  <2> QED BY <1>3, <1>4, <2>1 DEF BoundedEdges
<1>9. ASSUME NEW x \in loadEdges' PROVE BoundedLoad(x)'
  <2>1. PICK e \in loadEdges : x = [e EXCEPT !.src = M(e.src), !.dst = M(e.dst)]
    BY <1>1 DEF Collapse
  <2>2. e \in Access /\ e.src \in CGNode /\ e.dst \in CGNode
    BY ShapeTypes
  <2> HIDE DEF M
  <2>3. x.src = M(e.src) /\ x.dst = M(e.dst) /\ x.loc = e.loc
    BY <2>1, <2>2 DEF Access
  <2>4. SparsePts(x.src) = SparsePts(e.src) /\ SparsePts(x.dst) = SparsePts(e.dst)
    BY <1>4, <2>2, <2>3
  <2>5. BoundedLoad(e)
    BY DEF Bounded
  <2>6. \A o \in SparsePts(x.src) \ prog.const : SparsePts(getAddrDef(prog, o, x.loc)) \subseteq SparsePts(x.dst)
    BY <2>3, <2>4, <2>5 DEF BoundedLoad
  <2>7. PICK y : y = x
    OBVIOUS
  <2>8. BoundedLoad(y)'
    BY <2>6, <2>7, AccessStill DEF BoundedLoad
  <2> QED BY <2>7, <2>8
<1>10. ASSUME NEW x \in storeEdges' PROVE BoundedStore(x)'
  <2>1. PICK e \in storeEdges : x = [e EXCEPT !.src = M(e.src), !.dst = M(e.dst)]
    BY <1>1 DEF Collapse
  <2>2. e \in Access /\ e.src \in CGNode /\ e.dst \in CGNode
    BY ShapeTypes
  <2> HIDE DEF M
  <2>3. x.src = M(e.src) /\ x.dst = M(e.dst) /\ x.loc = e.loc
    BY <2>1, <2>2 DEF Access
  <2>4. SparsePts(x.src) = SparsePts(e.src) /\ SparsePts(x.dst) = SparsePts(e.dst)
    BY <1>4, <2>2, <2>3
  <2>5. BoundedStore(e)
    BY DEF Bounded
  <2>6. \A o \in SparsePts(x.dst) \ prog.const : SparsePts(x.src) \subseteq SparsePts(getAddrDef(prog, o, x.loc))
    BY <2>3, <2>4, <2>5 DEF BoundedStore
  <2>7. PICK y : y = x
    OBVIOUS
  <2>8. BoundedStore(y)'
    BY <2>6, <2>7, AccessStill DEF BoundedStore
  <2> QED BY <2>7, <2>8
<1>11. BoundedEdges(copyEdges)'
  <2>1. \A c \in F : SparsePts(c[1])' \subseteq SparsePts(c[2])'
    BY <1>5, <1>8
  <2> QED BY <1>2, <2>1 DEF BoundedEdges
<1>12. \A n \in CGNode : (cgPts[n] \subseteq SparsePts(n))' /\ (SparsePts(rep[n]) = SparsePts(n))'
  BY <1>5, <1>6, <1>7
<1> QED BY <1>9, <1>10, <1>11, <1>12 DEF Bounded

LEMMA CGNextBounded ==
    ASSUME SCDInv, Inv, GraphBuilt, phase = "done", Bounded, CGNext
    PROVE  Bounded'
<1>1. UNCHANGED vars
  BY DEF CGNext, SCCDetect, handleCopyGep, WaveEnds, handleLoads, handleStore, AccessesEnd, connectCallees
<1>2. ASSUME WaveEnds \/ AccessesEnd PROVE Bounded'
  <2>1. copyEdges' = copyEdges /\ rep' = rep /\ loadEdges' = loadEdges /\ storeEdges' = storeEdges /\ cgPts' = cgPts
    BY <1>2 DEF WaveEnds, AccessesEnd, cgGraph
  <2> QED BY <1>1, <2>1, BoundedNext DEF Bounded
<1> QED BY <1>1, <1>2, SCCDetectBounded, HandleCopyGepBounded, HandleLoadsBounded, HandleStoreBounded,
           ConnectCalleesBounded DEF CGNext

LEMMA InitBuilt == ASSUME Init PROVE GraphBuilt
BY DEF Init, GraphBuilt

LEMMA StepBuilt == ASSUME GraphBuilt, [Next]_vars PROVE GraphBuilt'
<1>1. ASSUME InitWorklist \/ SolveEnds \/ Finished \/ UNCHANGED vars PROVE GraphBuilt'
  <2>1. UNCHANGED <<prog, passes, flows, connected>>
    BY <1>1 DEF InitWorklist, SolveEnds, Finished, vars
  <2> QED BY <2>1 DEF GraphBuilt
<1>2. ASSUME processNode PROVE GraphBuilt'
  <2>1. UNCHANGED graphVars
    BY <1>2 DEF processNode, processSVFGNode, processAddr, processCopy, processLoad, processStore, skipStore,
                processMSSA, processPass, processReceive, graphVars
  <2> QED BY <2>1 DEF GraphBuilt, graphVars
<1>3. ASSUME updateCallGraph PROVE GraphBuilt'
  <2>1. /\ prog' = prog /\ connected' = connected \union newCalls
        /\ passes' = passes \union UNION {c.passes : c \in newCalls}
        /\ flows' = flows \union UNION {c.flows : c \in newCalls}
    BY <1>3 DEF updateCallGraph
  <2> QED BY <2>1 DEF GraphBuilt
<1> QED BY <1>1, <1>2, <1>3 DEF Next

\* Both analyses together: the second has not begun, or stays within the first.
WithinInv == /\ SCDInv /\ Inv /\ GraphBuilt
             /\ CGInit \/ (phase = "done" /\ (Comparable => Bounded))

LEMMA StepWithin == ASSUME WithinInv, [BothNext]_allVars PROVE WithinInv'
<1>1. [Next]_vars
  BY DEF BothNext, CGNext, SCCDetect, handleCopyGep, WaveEnds, handleLoads, handleStore, AccessesEnd,
         connectCallees, allVars
<1>2. SCDInv' /\ Inv' /\ GraphBuilt'
  BY <1>1, CGStepInv, StepInv, StepBuilt DEF WithinInv
<1>3. phase = "done" => (Comparable => Bounded)
  BY InitBounded DEF WithinInv
<1>4. CASE phase # "done" /\ Next /\ UNCHANGED cgVars
  <2>1. CGInit /\ prog' = prog
    BY <1>1, <1>4, SameProgram DEF WithinInv
  <2>2. CGInit'
    BY <1>4, <2>1 DEF CGInit, cgVars, cgGraph, stmt, AddrStmts, Pointer
  <2> QED BY <1>2, <2>2 DEF WithinInv
<1>5. CASE phase = "done" /\ CGNext
  <2>1. UNCHANGED vars
    BY <1>5 DEF CGNext, SCCDetect, handleCopyGep, WaveEnds, handleLoads, handleStore, AccessesEnd, connectCallees
  <2>2. phase' = "done" /\ (Comparable' <=> Comparable)
    BY <1>5, <2>1, SparseStill DEF vars
  <2>3. Comparable => Bounded'
    BY <1>3, <1>5, CGNextBounded DEF WithinInv
  <2> QED BY <1>2, <2>2, <2>3 DEF WithinInv
<1>6. CASE UNCHANGED allVars
  <2>1. UNCHANGED vars /\ UNCHANGED cgVars
    BY <1>6 DEF allVars
  <2>2. CASE CGInit
    <3>1. CGInit'
      BY <2>1, <2>2 DEF CGInit, vars, cgVars, cgGraph, stmt, AddrStmts, Pointer
    <3> QED BY <1>2, <3>1 DEF WithinInv
  <2>3. CASE phase = "done"
    <3>1. phase' = "done" /\ (Comparable' <=> Comparable)
      BY <2>1, <2>3, SparseStill DEF vars
    <3>2. Bounded => Bounded'
      BY <2>1, BoundedNext DEF Bounded, cgVars, cgGraph
    <3> QED BY <1>2, <1>3, <2>3, <3>1, <3>2 DEF WithinInv
  <2> QED BY <2>2, <2>3 DEF WithinInv
<1> QED BY <1>4, <1>5, <1>6 DEF BothNext

LEMMA InitWithin == ASSUME BothInit PROVE WithinInv
<1>1. Init /\ CGInit /\ prog \in Programs
  BY DEF BothInit, Init
<1> QED BY <1>1, InitInv, InitBuilt, CGInitInv DEF WithinInv

\* The constraint graph keeps the precision of the sparse analysis, however its
\* cycles are merged, at every moment: the versions express the flow
\* (buildSVFG2CG, getAddrDef, mergeSccCycle).
THEOREM KeepsPrecision == BothSpec => []WithinSparse
<1>1. BothInit => WithinInv
  BY InitWithin
<1>2. WithinInv /\ [BothNext]_allVars => WithinInv'
  BY StepWithin
<1>3. WithinInv => WithinSparse
  <2> SUFFICES ASSUME WithinInv, phase = "done", Comparable, NEW v \in Var
               PROVE  getPts(plain(v)) \subseteq pts[v]
    BY DEF WithinSparse, Comparable
  <2>1. Bounded
    BY InitBounded DEF WithinInv
  <2>2. plain(v) \in CGNode /\ SparsePts(plain(v)) = pts[v]
    BY DEF CGNode, SparsePts, plain
  <2>3. rep[plain(v)] \in CGNode
    BY <2>2, ShapeTypes DEF WithinInv
  <2> QED BY <2>1, <2>2, <2>3 DEF Bounded, getPts
<1> QED BY <1>1, <1>2, <1>3, PTL DEF BothSpec

-----------------------------------------------------------------------------
(* The constraint graph loses nothing.  Whatever was merged, each edge of the *)
(* graph as it was built is still there, between what represents its ends,    *)
(* and an access is still one of the statement it remembers.                  *)
AccessOf(e, kind) ==
    \E v, w \in Var : /\ stmt(e.loc).kind = kind /\ stmt(e.loc).src = {v} /\ stmt(e.loc).dst = {w}
                      /\ e.src = rep[plain(v)] /\ e.dst = rep[plain(w)]
BuiltInv ==
    /\ \A c \in CopyEdges(prog) : Linked(<<rep[c[1]], rep[c[2]]>>)
    /\ \A e \in loadEdges : AccessOf(e, "load")
    /\ \A e \in storeEdges : AccessOf(e, "store")

LEMMA InitKeeps == ASSUME prog \in Programs, CGInit PROVE BuiltInv
<1>1. /\ rep = [n \in CGNode |-> n] /\ copyEdges = CopyEdges(prog)
      /\ loadEdges = AccessEdges(prog, "load") /\ storeEdges = AccessEdges(prog, "store")
  BY DEF CGInit
<1>2. \A c \in CopyEdges(prog) : Linked(<<rep[c[1]], rep[c[2]]>>)
  BY <1>1, CGTypes DEF Edges, Linked
<1>3. \A v \in Var : rep[plain(v)] = plain(v)
  BY <1>1 DEF CGNode
<1>4. ASSUME NEW kind, NEW e \in AccessEdges(prog, kind) PROVE AccessOf(e, kind)
  BY <1>3, AccessAt DEF AccessOf
<1> QED BY <1>1, <1>2, <1>4 DEF BuiltInv

\* Steps that add edges or none.
LEMMA SameRepKeeps ==
    ASSUME BuiltInv, prog' = prog, rep' = rep, loadEdges' = loadEdges, storeEdges' = storeEdges,
           copyEdges \subseteq copyEdges'
    PROVE  BuiltInv'
<1>1. ASSUME NEW e, NEW kind, AccessOf(e, kind) PROVE AccessOf(e, kind)'
  BY <1>1 DEF AccessOf, stmt
<1>2. ASSUME NEW c \in CopyEdges(prog) PROVE Linked(<<rep[c[1]], rep[c[2]]>>)'
  BY DEF BuiltInv, Linked
<1>3. CopyEdges(prog)' = CopyEdges(prog)
  BY DEF CopyEdges, PassCopies, indirectEdgeSet
<1> QED BY <1>1, <1>2, <1>3 DEF BuiltInv

LEMMA CollapseKeeps ==
    ASSUME SCDInv, BuiltInv, SCCDetect
    PROVE  BuiltInv'
<1>1. PICK S, h : Collapse(S, h)
  BY SCCDetectCollapses
<1> DEFINE M(x) == MergedTo(S, h, x)
<1>2. PICK E, F, L, P : E = copyEdges /\ F = copyEdges' /\ L = rep /\ P = prog
  OBVIOUS
<1>3. /\ Merging(E, S, h) /\ F = MergedEdges(S, h, E) /\ L \in [CGNode -> CGNode]
      /\ rep' = [n \in CGNode |-> M(L[n])] /\ prog' = P
  BY <1>1, <1>2, ShapeTypes DEF Collapse
<1>4. \A x, y \in CGNode : x = y \/ <<x, y>> \in E => M(x) = M(y) \/ <<M(x), M(y)>> \in F
  <2> SUFFICES ASSUME NEW x \in CGNode, NEW y \in CGNode, <<x, y>> \in E, M(x) # M(y) PROVE <<M(x), M(y)>> \in F
    OBVIOUS
  <2>1. PICK e \in E : e[1] = x /\ e[2] = y
    OBVIOUS
  <2> QED BY <2>1, <1>3 DEF MergedEdges
<1>5. CopyEdges(P) \in Edges
  BY <1>2, CGTypes DEF SCDInv
<1>6. ASSUME NEW c \in CopyEdges(P) PROVE rep'[c[1]] = rep'[c[2]] \/ <<rep'[c[1]], rep'[c[2]]>> \in F
  <2>1. c[1] \in CGNode /\ c[2] \in CGNode
    BY <1>5 DEF Edges
  <2>2. L[c[1]] = L[c[2]] \/ <<L[c[1]], L[c[2]]>> \in E
    BY <1>2 DEF BuiltInv, Linked
  <2>3. M(L[c[1]]) = M(L[c[2]]) \/ <<M(L[c[1]]), M(L[c[2]])>> \in F
    <3> HIDE DEF M
    <3> QED BY <1>3, <1>4, <2>1, <2>2
  <2>4. rep'[c[1]] = M(L[c[1]]) /\ rep'[c[2]] = M(L[c[2]])
    BY <1>3, <2>1
  <2> QED BY <2>3, <2>4
<1>7. \A c \in CopyEdges(prog)' : Linked(<<rep[c[1]], rep[c[2]]>>)'
  <2>1. CopyEdges(prog)' = CopyEdges(P)
    BY <1>3 DEF CopyEdges, PassCopies, indirectEdgeSet
  <2> QED BY <1>2, <1>6, <2>1 DEF Linked
<1>8. ASSUME NEW e \in Access, NEW kind, AccessOf(e, kind),
             NEW x, x = [e EXCEPT !.src = M(e.src), !.dst = M(e.dst)]
      PROVE  AccessOf(x, kind)'
  <2>1. PICK v \in Var, w \in Var :
           /\ stmt(e.loc).kind = kind /\ stmt(e.loc).src = {v} /\ stmt(e.loc).dst = {w}
           /\ e.src = L[plain(v)] /\ e.dst = L[plain(w)]
    BY <1>2, <1>8 DEF AccessOf
  <2>2. plain(v) \in CGNode /\ plain(w) \in CGNode
    BY DEF CGNode
  <2>3. x.src = M(e.src) /\ x.dst = M(e.dst) /\ x.loc = e.loc
    <3> HIDE DEF M
    <3> QED BY <1>8 DEF Access
  <2>4. x.src = rep'[plain(v)] /\ x.dst = rep'[plain(w)]
    BY <1>3, <2>1, <2>2, <2>3
  <2>5. PICK y : y = x
    OBVIOUS
  <2>6. stmt(y.loc)' = stmt(e.loc)
    BY <1>2, <1>3, <2>3, <2>5 DEF stmt
  <2>7. AccessOf(y, kind)'
    BY <2>1, <2>4, <2>5, <2>6 DEF AccessOf
  <2> QED BY <2>5, <2>7
<1>9. \A x \in loadEdges' : AccessOf(x, "load")'
  <2> SUFFICES ASSUME NEW x \in loadEdges' PROVE AccessOf(x, "load")'
    OBVIOUS
  <2>1. PICK e \in loadEdges : x = [e EXCEPT !.src = M(e.src), !.dst = M(e.dst)]
    BY <1>1 DEF Collapse
  <2> QED BY <1>8, <2>1, ShapeTypes DEF BuiltInv
<1>10. \A x \in storeEdges' : AccessOf(x, "store")'
  <2> SUFFICES ASSUME NEW x \in storeEdges' PROVE AccessOf(x, "store")'
    OBVIOUS
  <2>1. PICK e \in storeEdges : x = [e EXCEPT !.src = M(e.src), !.dst = M(e.dst)]
    BY <1>1 DEF Collapse
  <2> QED BY <1>8, <2>1, ShapeTypes DEF BuiltInv
<1> QED BY <1>7, <1>9, <1>10 DEF BuiltInv

LEMMA StepKeeps == ASSUME SCDInv, BuiltInv, [BothNext]_allVars PROVE BuiltInv'
<1>1. ASSUME UNCHANGED <<prog, cgGraph>> PROVE BuiltInv'
  BY <1>1, SameRepKeeps DEF cgGraph
<1>2. ASSUME NEW C, EdgeStep(C) PROVE BuiltInv'
  <2>1. prog' = prog /\ rep' = rep /\ loadEdges' = loadEdges /\ storeEdges' = storeEdges
    BY <1>2 DEF EdgeStep
  <2>2. copyEdges \subseteq copyEdges'
    BY <1>2, EdgeStepFacts
  <2> QED BY <2>1, <2>2, SameRepKeeps
<1>3. ASSUME NEW n \in cgWorklist, handleLoads(n) PROVE BuiltInv'
  BY <1>2, <1>3, HandleLoadsStep
<1>4. ASSUME NEW e \in dueStores, handleStore(e) PROVE BuiltInv'
  BY <1>2, <1>4, HandleStoreStep
<1>5. ASSUME connectCallees PROVE BuiltInv'
  BY <1>2, <1>5, ConnectCalleesStep
<1>6. ASSUME handleCopyGep \/ WaveEnds \/ AccessesEnd PROVE BuiltInv'
  <2>1. UNCHANGED <<prog, cgGraph>>
    BY <1>6 DEF handleCopyGep, WaveEnds, AccessesEnd, vars
  <2> QED BY <1>1, <2>1
<1>7. ASSUME Next, UNCHANGED cgVars PROVE BuiltInv'
  BY <1>1, <1>7, SameProgram DEF cgVars
<1>8. ASSUME UNCHANGED allVars PROVE BuiltInv'
  BY <1>1, <1>8 DEF allVars, vars, cgVars
<1> QED BY <1>3, <1>4, <1>5, <1>6, <1>7, <1>8, CollapseKeeps DEF BothNext, CGNext

\* What the solved graph says of the equations: the sets of its versions, and
\* nothing known after a store that has no version of an object.
GraphPts(o, l, other) == IF <<o, l>> \in Versions(prog) THEN getPts(<<o, l>>) ELSE other
GraphResult ==
    [pts    |-> [v \in Var |-> getPts(plain(v))],
     inPts  |-> [l \in Loc |-> [o \in Obj |-> GraphPts(o, l, {})]],
     outPts |-> [l \in Loc |-> [o \in Obj |-> GraphPts(o, l, Obj)]]]

LEMMA GraphHolds ==
    ASSUME SCDInv, Inv, GraphBuilt, BuiltInv, pc = "done", cleared = {}, prog.calls = {},
           flows \subseteq indirectEdgeSet(prog), PlacesKept
    PROVE  GraphResult \in Solution /\ Holds(GraphResult)
<1> DEFINE S == GraphResult
<1>1. TypeOK /\ prog \in Program /\ WellFormed(prog)
  BY ProgramsAssumption DEF Inv, TypeOK
<1>2. SolvedUnlessEmptied /\ \A n : ~Emptied(n)
  BY SCDDone DEF Emptied
<1>3. \A n \in CGNode : getPts(n) \subseteq Obj /\ rep[n] \in CGNode
  BY ShapeTypes DEF getPts
<1>4. (\A v \in Var : plain(v) \in CGNode) /\ (\A o \in Obj, l \in Loc : <<o, l>> \in CGNode)
  BY DEF CGNode
<1>5. \A o \in Obj, l \in Loc : GraphPts(o, l, {}) \subseteq Obj /\ GraphPts(o, l, Obj) \subseteq Obj
  BY <1>3, <1>4 DEF GraphPts
<1>6. /\ \A v \in Var : S.pts[v] = getPts(plain(v))
      /\ \A l \in Loc, o \in Obj : S.inPts[l][o] = GraphPts(o, l, {}) /\ S.outPts[l][o] = GraphPts(o, l, Obj)
  BY DEF GraphResult
<1>7. S \in Solution
  BY <1>3, <1>4, <1>5 DEF GraphResult, Solution, DFPts
<1> HIDE DEF S
\* Required edges hold between the sets.
<1>8. ASSUME NEW m \in CGNode, NEW n \in CGNode, Linked(<<m, n>>) PROVE cgPts[m] \subseteq cgPts[n]
  <2>1. CASE m = n
    BY <2>1
  <2>2. CASE <<m, n>> \in copyEdges
    <3>1. PICK c \in copyEdges : c[1] = m /\ c[2] = n
      BY <2>2
    <3> QED BY <1>2, <3>1 DEF SolvedUnlessEmptied
  <2> QED BY <1>8, <2>1, <2>2 DEF Linked
<1>9. ASSUME NEW m \in CGNode, NEW n \in CGNode, m = n \/ <<m, n>> \in CopyEdges(prog)
      PROVE  getPts(m) \subseteq getPts(n)
  <2>1. CASE m = n
    BY <2>1
  <2>2. CASE <<m, n>> \in CopyEdges(prog)
    <3>1. PICK c \in CopyEdges(prog) : c[1] = m /\ c[2] = n
      BY <2>2
    <3>2. Linked(<<rep[m], rep[n]>>)
      BY <3>1 DEF BuiltInv
    <3> QED BY <1>3, <1>8, <3>2 DEF getPts
  <2> QED BY <1>9, <2>1, <2>2
<1>10. ASSUME NEW V \in SUBSET Var, NEW w \in Var,
              \A v \in V : v = w \/ <<plain(v), plain(w)>> \in CopyEdges(prog)
       PROVE  AnyPts(S, V) \subseteq getPts(plain(w))
  <2>1. ASSUME NEW v \in V PROVE getPts(plain(v)) \subseteq getPts(plain(w))
    BY <1>4, <1>9, <1>10
  <2> QED BY <1>6, <2>1 DEF AnyPts
\* What the edges of the graph are.
<1>11. ASSUME NEW V \in SUBSET Var, NEW W \in SUBSET Var, NEW v \in V, NEW w \in W
       PROVE  <<plain(v), plain(w)>> \in Pairs(V, W)
  BY DEF Pairs
<1>12. \A m, n : m # n /\ ( \/ \E l \in Loc : stmt(l).kind = "copy" /\ <<m, n>> \in Pairs(stmt(l).src, stmt(l).dst)
                            \/ \E e \in prog.passes : <<m, n>> \in Pairs(stmt(e[1]).src, stmt(e[2]).dst)
                            \/ \E f \in indirectEdgeSet(prog) : m = <<f.obj, f.from>> /\ n = <<f.obj, f.to>>)
                => <<m, n>> \in CopyEdges(prog)
  <2> DEFINE A == UNION {Pairs(prog.stmt[l].src, prog.stmt[l].dst) : l \in {k \in Loc : prog.stmt[k].kind = "copy"}}
             F == {<<<<f.obj, f.from>>, <<f.obj, f.to>>>> : f \in indirectEdgeSet(prog)}
             P == PassCopies(prog, prog.passes)
  <2>1. \A c \in A \union P \union F : c[1] # c[2] => c \in CopyEdges(prog)
    BY DEF CopyEdges
  <2> TAKE m, n
  <2>2. ASSUME NEW l \in Loc, stmt(l).kind = "copy", <<m, n>> \in Pairs(stmt(l).src, stmt(l).dst) PROVE <<m, n>> \in A
    BY <2>2 DEF stmt
  <2>3. ASSUME NEW e \in prog.passes, <<m, n>> \in Pairs(stmt(e[1]).src, stmt(e[2]).dst) PROVE <<m, n>> \in P
    BY <2>3 DEF stmt, PassCopies
  <2>4. ASSUME NEW f \in indirectEdgeSet(prog), m = <<f.obj, f.from>>, n = <<f.obj, f.to>> PROVE <<m, n>> \in F
    BY <2>4
  <2> HIDE DEF A, F, P
  <2> QED BY <2>1, <2>2, <2>3, <2>4
<1>13. ASSUME NEW l \in Loc, NEW v \in Defs(stmt(l)) PROVE Defined(S, l) \subseteq getPts(plain(v))
  <2>1. v \in Var /\ stmt(l).src \in SUBSET Var
    BY <1>1, StmtType
  <2>2. stmt(l).kind \in {"addr", "copy", "load", "receive"} => stmt(l).dst = {v}
    BY <1>1, Operands DEF Defs
  <2>3. CASE stmt(l).kind = "addr"
    <3>1. Pointer(l) = plain(v) /\ l \in AddrStmts
      BY <2>2, <2>3 DEF Pointer, Only, AddrStmts
    <3>2. stmt(l).obj \subseteq getPts(Pointer(l))
      BY <1>2, <3>1 DEF SolvedUnlessEmptied
    <3> QED BY <2>3, <3>1, <3>2, DefinedBy
  <2>4. CASE stmt(l).kind = "copy"
    <3>1. ASSUME NEW u \in stmt(l).src PROVE u = v \/ <<plain(u), plain(v)>> \in CopyEdges(prog)
      <4>1. <<plain(u), plain(v)>> \in Pairs(stmt(l).src, stmt(l).dst)
        BY <2>2, <2>4 DEF Pairs
      <4> QED BY <1>12, <2>4, <4>1 DEF plain
    <3>2. AnyPts(S, stmt(l).src) \subseteq getPts(plain(v))
      BY <1>10, <2>1, <3>1
    <3> QED BY <2>4, <3>2, DefinedBy
  <2>5. CASE stmt(l).kind = "load"
    <3>1. PICK u \in Var : stmt(l).src = {u}
      BY <1>1, <2>5, Operands
    <3>2. AnyPts(S, stmt(l).src) = getPts(plain(u))
      BY <1>6, <3>1 DEF AnyPts
    <3>3. PICK e \in loadEdges : e.loc = l
      BY <2>5 DEF PlacesKept
    <3>4. e.src = rep[plain(u)] /\ e.dst = rep[plain(v)]
      <4>1. AccessOf(e, "load")
        BY DEF BuiltInv
      <4> QED BY <2>2, <2>5, <3>1, <3>3, <4>1 DEF AccessOf
    <3>5. ASSUME NEW o \in getPts(plain(u)) \ prog.const PROVE S.inPts[l][o] \subseteq getPts(plain(v))
      <4>1. o \in Obj
        BY <1>3, <1>4
      <4>2. CASE <<o, l>> \in Versions(prog)
        <5>1. Linked(<<version(o, e), e.dst>>)
          BY <1>2, <3>4, <3>5 DEF SolvedUnlessEmptied, getPts
        <5>2. version(o, e) = rep[<<o, l>>]
          BY <3>3, <4>2 DEF version, getAddrDef
        <5>3. rep[<<o, l>>] \in CGNode /\ e.dst \in CGNode
          BY <1>3, <1>4, <4>1, ShapeTypes
        <5>4. cgPts[rep[<<o, l>>]] \subseteq cgPts[e.dst]
          BY <1>8, <5>1, <5>2, <5>3
        <5> QED BY <1>6, <3>4, <4>1, <4>2, <5>4 DEF GraphPts, getPts
      <4>3. CASE <<o, l>> \notin Versions(prog)
        BY <1>6, <4>1, <4>3 DEF GraphPts
      <4> QED BY <4>2, <4>3
    <3>6. Defined(S, l) = UNION {S.inPts[l][o] : o \in AnyPts(S, stmt(l).src) \ prog.const}
      BY <2>5, DefinedBy
    <3> QED BY <3>2, <3>5, <3>6
  <2>6. CASE stmt(l).kind = "receive"
    <3>1. passes = prog.passes
      BY <1>1 DEF GraphBuilt, TypeOK
    <3>2. ASSUME NEW m \in Loc, <<m, l>> \in passes PROVE AnyPts(S, stmt(m).src) \subseteq getPts(plain(v))
      <4>1. ASSUME NEW u \in stmt(m).src PROVE u = v \/ <<plain(u), plain(v)>> \in CopyEdges(prog)
        <5>1. <<plain(u), plain(v)>> \in Pairs(stmt(m).src, stmt(l).dst)
          BY <2>2, <2>6 DEF Pairs
        <5>2. PICK e \in prog.passes : e[1] = m /\ e[2] = l
          BY <3>1, <3>2
        <5> QED BY <1>12, <5>1, <5>2 DEF plain
      <4>2. stmt(m).src \in SUBSET Var
        BY <1>1, StmtType
      <4> QED BY <1>10, <2>1, <4>1, <4>2
    <3>3. Defined(S, l) = UNION {AnyPts(S, stmt(m).src) : m \in {k \in Loc : <<k, l>> \in passes}}
      BY <2>6, DefinedBy
    <3> QED BY <3>2, <3>3
  <2>7. CASE stmt(l).kind \notin {"addr", "copy", "load", "receive"}
    BY <2>7, DefinedBy
  <2> QED BY <2>3, <2>4, <2>5, <2>6, <2>7
<1>14. ASSUME NEW f \in flows PROVE Carried(S, f) \subseteq S.inPts[f.to][f.obj]
  <2>1. f \in indirectEdgeSet(prog) /\ f.from \in Loc /\ f.to \in Loc /\ f.obj \in Obj
    BY <1>1 DEF TypeOK, Flow
  <2>2. <<f.obj, f.from>> \in Versions(prog) /\ <<f.obj, f.to>> \in Versions(prog)
    BY <2>1 DEF Versions
  <2>3. Carried(S, f) = getPts(<<f.obj, f.from>>)
    BY <1>6, <2>1, <2>2 DEF Carried, GraphPts
  <2>4. S.inPts[f.to][f.obj] = getPts(<<f.obj, f.to>>)
    BY <1>6, <2>1, <2>2 DEF GraphPts
  <2>5. getPts(<<f.obj, f.from>>) \subseteq getPts(<<f.obj, f.to>>)
    <3>1. PICK m \in CGNode, n \in CGNode : m = <<f.obj, f.from>> /\ n = <<f.obj, f.to>>
      BY <1>4, <2>1
    <3>2. m = n \/ <<m, n>> \in CopyEdges(prog)
      BY <1>12, <2>1, <3>1
    <3> QED BY <1>9, <3>1, <3>2
  <2> QED BY <2>3, <2>4, <2>5
<1>15. ASSUME NEW l \in Loc, NEW o \in Obj PROVE Written(S, l, o) \subseteq S.outPts[l][o]
  <2> DEFINE P == AnyPts(S, stmt(l).dst)
  <2>1. CASE stmt(l).kind # "store" \/ P = {}
    BY <2>1, WrittenBy
  <2>2. CASE stmt(l).kind = "store" /\ P # {}
    <3>1. PICK u \in Var, w \in Var : stmt(l).src = {u} /\ stmt(l).dst = {w}
      BY <1>1, <2>2, Operands
    <3>2. AnyPts(S, stmt(l).src) = getPts(plain(u)) /\ P = getPts(plain(w))
      BY <1>6, <3>1 DEF AnyPts
    <3>3. Written(S, l, o) \subseteq (IF o \in P \ prog.const THEN AnyPts(S, stmt(l).src) ELSE {}) \union S.inPts[l][o]
      <4>1. Written(S, l, o) \subseteq (IF o \in P \ prog.const THEN AnyPts(S, stmt(l).src) ELSE {})
                                   \union (IF P = {o} /\ o \notin prog.weak THEN {} ELSE S.inPts[l][o])
        BY <2>2, WrittenBy
      <4> HIDE DEF P
      <4> QED BY <4>1
    <3>4. CASE <<o, l>> \in Versions(prog)
      <4>1. S.inPts[l][o] = getPts(<<o, l>>) /\ S.outPts[l][o] = getPts(<<o, l>>)
        BY <1>6, <3>4 DEF GraphPts
      <4>2. PICK e \in storeEdges : e.loc = l
        BY <2>2 DEF PlacesKept
      <4>3. e.src = rep[plain(u)] /\ e.dst = rep[plain(w)]
        <5>1. AccessOf(e, "store")
          BY DEF BuiltInv
        <5> QED BY <2>2, <3>1, <4>2, <5>1 DEF AccessOf
      <4>4. ASSUME o \in P \ prog.const PROVE getPts(plain(u)) \subseteq getPts(<<o, l>>)
        <5>1. Linked(<<e.src, version(o, e)>>)
          BY <1>2, <3>2, <4>3, <4>4 DEF SolvedUnlessEmptied, getPts
        <5>2. version(o, e) = rep[<<o, l>>]
          BY <3>4, <4>2 DEF version, getAddrDef
        <5>3. rep[<<o, l>>] \in CGNode /\ e.src \in CGNode
          BY <1>3, <1>4, ShapeTypes
        <5> QED BY <1>8, <4>3, <5>1, <5>2, <5>3 DEF getPts
      <4> HIDE DEF P
      <4> QED BY <3>2, <3>3, <4>1, <4>4
    <3>5. CASE <<o, l>> \notin Versions(prog)
      <4>1. S.outPts[l][o] = Obj /\ S.inPts[l][o] = {}
        BY <1>6, <3>5 DEF GraphPts
      <4>2. getPts(plain(u)) \subseteq Obj
        BY <1>3, <1>4
      <4> QED BY <3>2, <3>3, <4>1, <4>2
    <3> QED BY <3>4, <3>5
  <2> QED BY <2>1, <2>2
<1> QED BY <1>6, <1>7, <1>13, <1>14, <1>15, StmtType, <1>1 DEF Holds, S

\* The constraint graph loses nothing either where objects stay inside one
\* function and no strong update emptied a version: its sets solve the equations
\* of the sparse analysis, which are those of its least solution
\* (solveConstraints).
THEOREM LosesNothing == BothSpec => []CoversSparse
<1> DEFINE I == WithinInv /\ BuiltInv /\ PreciseInv
<1>1. BothInit => I
  BY InitWithin, InitPrecise, InitKeeps DEF BothInit, Init
<1>2. I /\ [BothNext]_allVars => I'
  <2> SUFFICES ASSUME I, [BothNext]_allVars PROVE I'
    OBVIOUS
  <2>1. [Next]_vars
    BY DEF BothNext, CGNext, SCCDetect, handleCopyGep, WaveEnds, handleLoads, handleStore, AccessesEnd,
           connectCallees, allVars
  <2>2. WithinInv'
    BY StepWithin
  <2>3. BuiltInv'
    BY StepKeeps DEF WithinInv
  <2>4. PreciseInv'
    BY <2>1, <2>2, StepPrecise DEF WithinInv
  <2> QED BY <2>2, <2>3, <2>4
<1>3. I => CoversSparse
  <2> SUFFICES ASSUME I, pc = "done", cleared = {}, prog.calls = {}, flows \subseteq indirectEdgeSet(prog),
                      PlacesKept, NEW v \in Var
               PROVE  pts[v] \subseteq getPts(plain(v))
    BY DEF CoversSparse
  <2>1. GraphResult \in Solution /\ Holds(GraphResult)
    BY GraphHolds DEF WithinInv
  <2>2. Below(GraphResult)
    BY <2>1 DEF PreciseInv
  <2>3. GraphResult.pts[v] = getPts(plain(v))
    BY DEF GraphResult
  <2> QED BY <2>2, <2>3 DEF Below
<1> HIDE DEF I
<1> QED BY <1>1, <1>2, <1>3, PTL DEF BothSpec

\* Both ways: for every program whose versions express its flow the analysis on
\* the constraint graph has the precision of the sparse one, and where objects
\* stay inside functions its answers (FlowSensitiveSCD's solveConstraints).
THEOREM SameAnswers == BothSpec => []AgreesWithSparse
<1>1. WithinSparse /\ CoversSparse => AgreesWithSparse
  BY DEF AgreesWithSparse
<1> QED BY <1>1, KeepsPrecision, LosesNothing, PTL
=============================================================================
