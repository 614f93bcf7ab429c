---------------------- MODULE AndersenWaveDiff_proofs ----------------------
(***************************************************************************)
(* For every set of programs, objects and field offsets: merging nodes     *)
(* never damages the constraint graph, no propagated target is lost, no    *)
(* pointer keeps a field of a collapsed structure, one wave suffices, and  *)
(* what the solver ends with is closed under the statements of the program *)
(* and lies within every solution of them.                                 *)
(***************************************************************************)
EXTENDS AndersenWaveDiff, Iteration_proofs

(* The inductive invariant.  Besides the graph itself it says that whatever *)
(* the solver still holds in its hands is alive: the targets of pointers,   *)
(* the merges and the copy edges it has still to do, the node it collapses  *)
(* into; and that it does only one of these things at a time.               *)
RepsLive == \A n \in Node : rep[n] # n => rep[n] \in alive /\ n \notin alive
SubsInverse == \A n, r \in Node : n \in subs[r] <=> rep[n] = r /\ n # r
EdgesLive == \A e \in edges : e.src \in alive /\ e.dst \in alive
PwcLive == pwc \subseteq alive
Represented == \A n \in Node : n \in Var \/ ~isField(n) => rep[n] \in alive
TargetsLive == \A n \in Node : \A o \in pts[n] : rep[o] \in alive
CopiesLive == \A c \in newCopies : c[1] \in alive /\ c[2] \in alive
MergesDisjoint ==
    \A p \in merges : /\ p[1] \in alive /\ p[2] \in alive
                      /\ \A q \in merges : p[1] # q[2] /\ (p[1] = q[1] => p[2] = q[2])
CollapsingLive ==
    /\ \A r \in collapsing.rep : r \in alive /\ collapsing.rep = {r}
    /\ \A f \in collapsing.fields : rep[f] \in alive
    /\ \A b \in collapsing.base : /\ b \in fi /\ baseOf[b] = b
                                  /\ \A f \in collapsing.fields : baseOf[f] = b
OneAtATime ==
    /\ merges # {} => pc = "wave" /\ collapsing = NotCollapsing /\ pendingPts = {}
    /\ newCopies # {} => pc \in {"post", "connect"}
    /\ pc \notin {"wave", "visit"} => /\ collapsing = NotCollapsing /\ pendingPts = {}
                                      /\ toCollapse = {}

GraphInv == RepsLive /\ SubsInverse /\ EdgesLive /\ PwcLive /\ Represented
AgendaInv == TargetsLive /\ CopiesLive /\ MergesDisjoint /\ CollapsingLive /\ OneAtATime
TypeInv == prog \in Programs /\ TypeOK
IInv == TypeInv /\ GraphInv /\ AgendaInv

-----------------------------------------------------------------------------
(* Moving the edges of s to r leaves edges that avoid s. *)
LEMMA MoveIn ==
    ASSUME NEW E \in SUBSET Edge, NEW s \in Node, NEW r \in Node, s # r,
           NEW e \in moveInEdgesToRepNode(E, s, r)
    PROVE  /\ e \in Edge
           /\ e.dst # s
           /\ \E x \in E : /\ e.kind = x.kind /\ e.off = x.off /\ e.src = x.src
                           /\ x.dst # s => e.dst = x.dst
                           /\ x.dst = s => e.dst = r
  <1>1. CASE e \in E \ InEdge(E, s)
    BY <1>1 DEF InEdge
  <1>2. CASE \E x \in InEdge(E, s) : e = [x EXCEPT !.dst = r]
    <2>1. PICK x \in InEdge(E, s) : e = [x EXCEPT !.dst = r]
      BY <1>2
    <2>2. x \in E /\ x.dst = s /\ x \in Edge
      BY DEF InEdge
    <2> QED
      BY <2>1, <2>2 DEF Edge
  <1> QED
    BY <1>1, <1>2 DEF moveInEdgesToRepNode, addEdges

LEMMA MoveOut ==
    ASSUME NEW E \in SUBSET Edge, NEW s \in Node, NEW r \in Node, s # r,
           NEW e \in moveOutEdgesToRepNode(E, s, r)
    PROVE  /\ e \in Edge
           /\ e.src # s
           /\ \E x \in E : /\ e.kind = x.kind /\ e.off = x.off /\ e.dst = x.dst
                           /\ x.src # s => e.src = x.src
                           /\ x.src = s => e.src = r
  <1>1. CASE e \in E \ OutEdge(E, s)
    BY <1>1 DEF OutEdge
  <1>2. CASE \E x \in OutEdge(E, s) : e = [x EXCEPT !.src = r]
    <2>1. PICK x \in OutEdge(E, s) : e = [x EXCEPT !.src = r]
      BY <1>2
    <2>2. x \in E /\ x.src = s /\ x \in Edge
      BY DEF OutEdge
    <2> QED
      BY <2>1, <2>2 DEF Edge
  <1> QED
    BY <1>1, <1>2 DEF moveOutEdgesToRepNode, addEdges

LEMMA MoveEdges ==
    ASSUME NEW E \in SUBSET Edge, NEW s \in Node, NEW r \in Node, s # r,
           NEW e \in moveEdgesToRepNode(E, s, r)
    PROVE  /\ e \in Edge
           /\ e.dst # s /\ e.src # s
           /\ \E x \in E : /\ e.kind = x.kind /\ e.off = x.off
                           /\ e.src = IF x.src = s THEN r ELSE x.src
                           /\ e.dst = IF x.dst = s THEN r ELSE x.dst
  <1> DEFINE I == moveInEdgesToRepNode(E, s, r)
  <1>1. I \in SUBSET Edge
    BY MoveIn
  <1>2. e \in moveOutEdgesToRepNode(I, s, r)
    BY DEF moveEdgesToRepNode
  <1> HIDE DEF I
  <1>3. PICK y \in I : /\ e.kind = y.kind /\ e.off = y.off /\ e.dst = y.dst
                       /\ y.src # s => e.src = y.src
                       /\ y.src = s => e.src = r
    BY <1>1, <1>2, MoveOut
  <1>4. e \in Edge /\ e.src # s
    BY <1>1, <1>2, MoveOut
  <1>5. y \in moveInEdgesToRepNode(E, s, r)
    BY DEF I
  <1>6. y.dst # s
    BY <1>5, MoveIn
  <1>7. PICK x \in E : /\ y.kind = x.kind /\ y.off = x.off /\ y.src = x.src
                       /\ x.dst # s => y.dst = x.dst
                       /\ x.dst = s => y.dst = r
    BY <1>5, MoveIn
  <1> QED
    BY <1>3, <1>4, <1>6, <1>7

-----------------------------------------------------------------------------
(* Merging a live node into another one. *)
LEMMA MergeTypes ==
    ASSUME TypeInv, NEW s \in Node, NEW r \in Node, s # r,
           NEW P \in [Node -> SUBSET Obj], mergeSrcToTgt(s, r, P)
    PROVE  /\ propa' \in [Node -> SUBSET Obj] /\ pts' \in [Node -> SUBSET Obj]
           /\ edges' \subseteq Edge
           /\ rep' \in [Node -> Node] /\ subs' \in [Node -> SUBSET Node]
           /\ pwc' \subseteq Node /\ alive' \subseteq Node
  <1> USE DEF TypeInv, TypeOK, mergeSrcToTgt
  <1>1. propa' \in [Node -> SUBSET Obj]
    BY DEF propaAfterMerge
  <1>2. edges' \subseteq Edge
    BY MoveEdges
  <1>3. rep' \in [Node -> Node]
    BY DEF repAfterMerge
  <1>4. pwc' \subseteq Node
    <2>1. pwc' \subseteq pwc \union {r}
      OBVIOUS
    <2> QED
      BY <2>1
  <1> QED
    BY <1>1, <1>2, <1>3, <1>4

LEMMA MergeKeepsGraph ==
    ASSUME TypeInv, GraphInv, NEW s \in alive, NEW r \in alive, s # r,
           NEW P \in [Node -> SUBSET Obj], mergeSrcToTgt(s, r, P)
    PROVE  /\ GraphInv'
           /\ alive' = alive \ {s}
           /\ \A n \in Node : rep'[n] = IF rep[n] = s THEN r ELSE rep[n]
           /\ \A n \in Node : rep[n] \in alive => rep'[n] \in alive'
  <1> USE DEF TypeInv, TypeOK, GraphInv
  <1>1. s \in Node /\ r \in Node /\ alive' = alive \ {s} /\ rep[s] = s /\ rep[r] = r
    BY DEF mergeSrcToTgt, RepsLive
  <1>2. \A n \in Node : rep'[n] = IF rep[n] = s THEN r ELSE rep[n]
    <2>1. \A n \in Node : rep'[n] = IF n \in subs[s] \union {s} THEN r ELSE rep[n]
      BY DEF mergeSrcToTgt, repAfterMerge
    <2>2. \A n \in Node : n \in subs[s] \union {s} <=> rep[n] = s
      BY <1>1 DEF SubsInverse
    <2> QED
      BY <2>1, <2>2
  <1>3. \A n \in Node : rep[n] \in alive => rep'[n] \in alive'
    BY <1>1, <1>2
  <1>4. RepsLive'
    BY <1>1, <1>2, <1>3 DEF RepsLive
  <1>5. SubsInverse'
    <2>1. \A q \in Node : subs'[q] = IF q = s THEN {}
                                    ELSE IF q = r THEN subs[r] \union subs[s] \union {s}
                                    ELSE subs[q]
      BY <1>1 DEF mergeSrcToTgt
    <2> SUFFICES ASSUME NEW n \in Node, NEW q \in Node
                 PROVE  n \in subs'[q] <=> rep'[n] = q /\ n # q
      BY DEF SubsInverse
    <2>2. CASE q = s
      BY <1>1, <1>2, <2>1, <2>2
    <2>3. CASE q = r
      BY <1>1, <1>2, <2>1, <2>3 DEF SubsInverse
    <2>4. CASE q # s /\ q # r
      BY <1>1, <1>2, <2>1, <2>4 DEF SubsInverse
    <2> QED
      BY <2>2, <2>3, <2>4
  <1>6. EdgesLive'
    <2> SUFFICES ASSUME NEW e \in edges'
                 PROVE  e.src \in alive' /\ e.dst \in alive'
      BY DEF EdgesLive
    <2>1. e \in moveEdgesToRepNode(edges, s, r)
      BY DEF mergeSrcToTgt
    <2>2. e.dst # s /\ e.src # s
      BY <1>1, <2>1, MoveEdges
    <2>3. PICK x \in edges : /\ e.src = IF x.src = s THEN r ELSE x.src
                             /\ e.dst = IF x.dst = s THEN r ELSE x.dst
      BY <1>1, <2>1, MoveEdges
    <2> QED
      BY <1>1, <2>2, <2>3 DEF EdgesLive
  <1>7. PwcLive'
    <2>1. pwc' \subseteq (pwc \union {r}) \ {s}
      BY DEF mergeSrcToTgt
    <2> QED
      BY <1>1, <2>1 DEF PwcLive
  <1>8. Represented'
    BY <1>3 DEF Represented, isField
  <1> QED
    BY <1>1, <1>2, <1>3, <1>4, <1>5, <1>6, <1>7, <1>8

-----------------------------------------------------------------------------
LEMMA InitInv == Init => IInv
  <1> SUFFICES ASSUME Init PROVE IInv
    OBVIOUS
  <1>p. prog \in Programs
    BY DEF Init
  <1>0. /\ prog.stmts \subseteq Edge
        /\ \A e \in prog.stmts : e.kind = "addr" => e.src \in Obj /\ baseOf[e.src] = e.src /\ e.dst \in Var
        /\ \A e \in prog.stmts : e.kind # "addr" => e.src \in Var /\ e.dst \in Var
    BY <1>p, AndersenAssumption DEF AndersenAssumption
  <1>1. current \in Var
    <2>1. Var # {} /\ current = (CHOOSE v \in Var : TRUE)
      BY ConsGAssumption DEF ConsGAssumption, Init
    <2> QED
      BY <2>1
  <1>2. \A n \in Node : pts[n] \subseteq {o \in Obj : ~isField(o)}
    <2> SUFFICES ASSUME NEW n \in Node, NEW o \in pts[n]
                 PROVE  o \in Obj /\ ~isField(o)
      OBVIOUS
    <2>1. PICK e \in prog.stmts : e.kind = "addr" /\ e.src = o
      BY DEF Init, OfKind
    <2> QED
      BY <1>0, <2>1 DEF isField
  <1> USE DEF Init
  <1>3. TypeInv
    <2>1. worklist \subseteq Node
      BY <1>0 DEF OfKind, Node
    <2>2. pts \in [Node -> SUBSET Obj]
      BY <1>0 DEF OfKind
    <2>3. collapsing \in [base : SUBSET Obj, rep : SUBSET Node, fields : SUBSET Obj]
      BY DEF NotCollapsing
    <2>4. alive \subseteq Node
      BY DEF Node
    <2> QED
      BY <1>0, <1>1, <2>1, <2>2, <2>3, <2>4 DEF TypeInv, TypeOK, Node
  <1>4. RepsLive /\ SubsInverse /\ PwcLive /\ Represented
    BY DEF RepsLive, SubsInverse, PwcLive, Represented, Node
  <1>5. EdgesLive
    BY <1>0 DEF EdgesLive, isField
  <1>6. TargetsLive
    BY <1>2 DEF TargetsLive, Node
  <1>7. CopiesLive /\ MergesDisjoint
    BY DEF CopiesLive, MergesDisjoint
  <1>8. CollapsingLive /\ OneAtATime
    BY DEF CollapsingLive, OneAtATime, NotCollapsing, pendingPts
  <1> QED
    BY <1>3, <1>4, <1>5, <1>6, <1>7, <1>8 DEF IInv, GraphInv, AgendaInv

-----------------------------------------------------------------------------
(* Steps that leave the graph and the points-to sets alone. *)
LEMMA SameGraph ==
    ASSUME GraphInv, UNCHANGED graph
    PROVE  GraphInv'
  BY DEF graph, GraphInv, RepsLive, SubsInverse, EdgesLive, PwcLive, Represented, isField

LEMMA SameTargets ==
    ASSUME TargetsLive, UNCHANGED <<rep, alive, pts>>
    PROVE  TargetsLive'
  BY DEF TargetsLive

LEMMA SameCollapsing ==
    ASSUME CollapsingLive, UNCHANGED <<rep, alive, fi, collapsing>>
    PROVE  CollapsingLive'
  BY DEF CollapsingLive

LEMMA StutterInv ==
    ASSUME IInv, UNCHANGED vars
    PROVE  IInv'
  <1> USE DEF IInv, AgendaInv
  <1>1. UNCHANGED graph /\ UNCHANGED facts /\ UNCHANGED control /\ UNCHANGED <<prog, worklist, reanalyze, resolved>>
    BY DEF vars
  <1>2. TypeInv'
    BY <1>1 DEF TypeInv, TypeOK, graph, facts, control
  <1>3. GraphInv' /\ TargetsLive' /\ CollapsingLive'
    BY <1>1, SameGraph, SameTargets, SameCollapsing DEF graph, facts, control
  <1>4. CopiesLive' /\ MergesDisjoint' /\ OneAtATime'
    BY <1>1 DEF CopiesLive, MergesDisjoint, OneAtATime, graph, facts, control, pendingPts, isFieldInsensitive
  <1> QED
    BY <1>2, <1>3, <1>4

LEMMA ReachTransitive ==
    ASSUME NEW E, NEW N, NEW n \in N, NEW m \in N, NEW k \in N,
           <<n, m>> \in Reaches(E, N), <<m, k>> \in Reaches(E, N)
    PROVE  <<n, k>> \in Reaches(E, N)
  <1> SUFFICES ASSUME <<n, k>> \in Apart(E, N) PROVE FALSE
    BY DEF Reaches
  <1>1. PICK S \in ClosedSets(E, N) : n \in S /\ k \in N \ S
    BY DEF Apart
  <1>2. S \subseteq N
    BY DEF ClosedSets
  <1>3. m \in S
    <2> SUFFICES ASSUME m \notin S PROVE FALSE
      OBVIOUS
    <2>1. <<n, m>> \in Apart(E, N)
      BY <1>1 DEF Apart
    <2> QED
      BY <2>1 DEF Reaches
  <1>4. <<m, k>> \in Apart(E, N)
    BY <1>1, <1>3 DEF Apart
  <1> QED
    BY <1>4 DEF Reaches

LEMMA SCCDetectInv == IInv /\ SCCDetect => IInv'
  <1> SUFFICES ASSUME IInv, SCCDetect PROVE IInv'
    OBVIOUS
  <1> USE DEF IInv, AgendaInv
  <1>1. UNCHANGED graph /\ UNCHANGED facts /\ UNCHANGED <<prog, newCopies, toCollapse, agenda, collapsing>>
    BY DEF SCCDetect
  <1>2. PICK R \in SUBSET alive :
           /\ \A r, q \in R : sameSCC(Reaches(edges, alive), r, q) => r = q
           /\ merges' = {p \in (alive \ R) \X R : sameSCC(Reaches(edges, alive), p[1], p[2])}
           /\ left' = R
           /\ before' = inOrder(Reaches(edges, alive), R)
    BY DEF SCCDetect
  <1>3. TypeInv'
    <2>1. alive \subseteq Node
      BY DEF TypeInv, TypeOK
    <2>2. merges' \subseteq Node \X Node /\ left' \subseteq Node /\ before' \subseteq Node \X Node
      BY <1>2, <2>1 DEF inOrder
    <2> QED
      BY <2>2 DEF TypeInv, TypeOK, SCCDetect, graph, facts
  <1>4. GraphInv'
    BY <1>1, SameGraph
  <1>5. TargetsLive' /\ CopiesLive' /\ CollapsingLive'
    BY <1>1, SameTargets, SameCollapsing DEF CopiesLive, graph, facts
  <1>6. MergesDisjoint'
    <2> SUFFICES ASSUME NEW p \in merges'
                 PROVE  /\ p[1] \in alive /\ p[2] \in alive
                        /\ \A q \in merges' : p[1] # q[2] /\ (p[1] = q[1] => p[2] = q[2])
      BY <1>1 DEF MergesDisjoint, graph
    <2>1. p[1] \in alive \ R /\ p[2] \in R
      BY <1>2
    <2>2. ASSUME NEW q \in merges', p[1] = q[1]
          PROVE  p[2] = q[2]
      <3> DEFINE reach == Reaches(edges, alive)
      <3>1. /\ <<p[2], p[1]>> \in reach /\ <<p[1], p[2]>> \in reach
            /\ <<q[2], p[1]>> \in reach /\ <<p[1], q[2]>> \in reach
            /\ q[2] \in R
        BY <1>2, <2>2 DEF sameSCC
      <3>2. <<p[2], q[2]>> \in reach /\ <<q[2], p[2]>> \in reach
        <4>1. p[1] \in alive /\ p[2] \in alive /\ q[2] \in alive
          BY <2>1, <3>1
        <4> QED
          BY <3>1, <4>1, ReachTransitive
      <3> QED
        BY <1>2, <2>1, <3>1, <3>2 DEF sameSCC
    <2>3. \A q \in merges' : p[1] # q[2]
      BY <1>2, <2>1
    <2> QED
      BY <2>1, <2>2, <2>3
  <1>7. OneAtATime'
    BY <1>1 DEF OneAtATime, SCCDetect, pendingPts, isFieldInsensitive, facts
  <1> QED
    BY <1>3, <1>4, <1>5, <1>6, <1>7

LEMMA VisitInv == IInv /\ (\E n \in Node : visit(n)) => IInv'
  <1> SUFFICES ASSUME IInv, NEW n \in Node, visit(n) PROVE IInv'
    OBVIOUS
  <1> USE DEF IInv, AgendaInv, visit
  <1>1. UNCHANGED graph /\ UNCHANGED facts
    OBVIOUS
  <1>2. TypeInv'
    <2>1. agenda' \subseteq Obj
      BY DEF TypeInv, TypeOK, getPts
    <2> QED
      BY <2>1 DEF TypeInv, TypeOK, graph, facts
  <1>3. GraphInv' /\ TargetsLive' /\ CollapsingLive'
    BY <1>1, SameGraph, SameTargets, SameCollapsing DEF graph, facts
  <1>4. CopiesLive' /\ MergesDisjoint' /\ OneAtATime'
    BY DEF CopiesLive, MergesDisjoint, OneAtATime, idle, graph
  <1> QED
    BY <1>2, <1>3, <1>4

LEMMA EndWaveInv == IInv /\ endWave => IInv'
  <1> SUFFICES ASSUME IInv, endWave PROVE IInv'
    OBVIOUS
  <1> USE DEF IInv, AgendaInv, endWave
  <1>1. UNCHANGED graph /\ UNCHANGED facts
    OBVIOUS
  <1>2. TypeInv'
    BY DEF TypeInv, TypeOK, graph, facts
  <1>3. GraphInv' /\ TargetsLive' /\ CollapsingLive'
    BY <1>1, SameGraph, SameTargets, SameCollapsing DEF graph, facts
  <1>4. CopiesLive' /\ MergesDisjoint' /\ OneAtATime'
    BY DEF CopiesLive, MergesDisjoint, OneAtATime, idle, graph, facts, pendingPts, isFieldInsensitive
  <1> QED
    BY <1>2, <1>3, <1>4

LEMMA PostProcessInv == IInv /\ (\E n \in Node : postProcessNode(n)) => IInv'
  <1> SUFFICES ASSUME IInv, NEW n \in Node, postProcessNode(n) PROVE IInv'
    OBVIOUS
  <1> USE DEF IInv, AgendaInv, postProcessNode
  <1>1. UNCHANGED graph /\ UNCHANGED facts
    OBVIOUS
  <1>2. alive \subseteq Node /\ rep \in [Node -> Node] /\ pts \in [Node -> SUBSET Obj]
    BY DEF TypeInv, TypeOK
  <1>3. CopiesLive' /\ \A c \in newCopies' : c \in alive \X alive
    <2> SUFFICES ASSUME NEW c \in newCopies'
                 PROVE  c \in alive \X alive
      BY <1>1 DEF CopiesLive, graph
    <2>1. c \in loadCopies(rep[n]) \/ c \in storeCopies(rep[n])
      BY DEF newCopyEdges
    <2>2. rep[n] \in Node
      BY <1>2
    <2>3. CASE c \in loadCopies(rep[n])
      <3>1. PICK o \in pts[rep[n]], e \in edges : c = <<rep[o], e.dst>>
        BY <2>3 DEF loadCopies, OfKind
      <3> QED
        BY <3>1, <2>2 DEF TargetsLive, GraphInv, EdgesLive
    <2>4. CASE c \in storeCopies(rep[n])
      <3>1. PICK o \in pts[rep[n]], e \in edges : c = <<e.src, rep[o]>>
        BY <2>4 DEF storeCopies, OfKind
      <3> QED
        BY <3>1, <2>2 DEF TargetsLive, GraphInv, EdgesLive
    <2> QED
      BY <2>1, <2>3, <2>4
  <1>4. TypeInv'
    BY <1>2, <1>3 DEF TypeInv, TypeOK, graph, facts
  <1>5. GraphInv' /\ TargetsLive' /\ CollapsingLive'
    BY <1>1, SameGraph, SameTargets, SameCollapsing DEF graph, facts
  <1>6. MergesDisjoint' /\ OneAtATime'
    BY DEF MergesDisjoint, OneAtATime, graph, facts, pendingPts, isFieldInsensitive
  <1> QED
    BY <1>3, <1>4, <1>5, <1>6

LEMMA UpdateCallGraphInv == IInv /\ updateCallGraph => IInv'
  <1> SUFFICES ASSUME IInv, updateCallGraph PROVE IInv'
    OBVIOUS
  <1> USE DEF IInv, AgendaInv, updateCallGraph
  <1>1. UNCHANGED graph /\ UNCHANGED facts
    OBVIOUS
  <1>2. alive \subseteq Node /\ rep \in [Node -> Node] /\ prog \in Programs
    BY DEF TypeInv, TypeOK
  <1>3. \A v \in Var : rep[v] \in alive
    BY DEF GraphInv, Represented, Node
  <1>4. \A cs \in prog.calls : cs \in CallSite
    BY <1>2, AndersenAssumption DEF AndersenAssumption
  <1>5. \A f \in DOMAIN formal : formal[f] \in Var /\ funRet[f] \in Var
    BY AndersenAssumption DEF AndersenAssumption
  <1>6. CopiesLive' /\ \A c \in newCopies' : c \in alive \X alive
    <2> SUFFICES ASSUME NEW c \in newCopies'
                 PROVE  c \in alive \X alive
      BY <1>1 DEF CopiesLive, graph
    <2>1. PICK d \in newCallEdges : c \in paramCopies(d[1], d[2])
      BY DEF newCopyEdges
    <2>2. d[1] \in CallSite /\ d[2] \in DOMAIN formal
      BY <2>1, <1>4 DEF newCallEdges
    <2>3. d[1].arg \in Var /\ d[1].res \in Var
      BY <2>2 DEF CallSite
    <2> QED
      BY <2>1, <2>2, <2>3, <1>3, <1>5 DEF paramCopies
  <1>7. TypeInv'
    <2>1. resolved' \subseteq prog.calls \X DOMAIN formal
      BY DEF TypeInv, TypeOK, newCallEdges
    <2>2. newCopies' \subseteq Node \X Node /\ reanalyze' \in BOOLEAN
      BY <1>2, <1>6 DEF TypeInv, TypeOK
    <2> QED
      BY <2>1, <2>2 DEF TypeInv, TypeOK, graph, facts
  <1>8. GraphInv' /\ TargetsLive' /\ CollapsingLive'
    BY <1>1, SameGraph, SameTargets, SameCollapsing DEF graph, facts
  <1>9. MergesDisjoint' /\ OneAtATime'
    BY DEF MergesDisjoint, OneAtATime, graph, facts, pendingPts, isFieldInsensitive
  <1> QED
    BY <1>6, <1>7, <1>8, <1>9

LEMMA EndRoundInv == IInv /\ endRound => IInv'
  <1> SUFFICES ASSUME IInv, endRound PROVE IInv'
    OBVIOUS
  <1> USE DEF IInv, AgendaInv, endRound
  <1>1. UNCHANGED graph /\ UNCHANGED facts
    OBVIOUS
  <1>2. TypeInv'
    BY DEF TypeInv, TypeOK, graph, facts
  <1>3. GraphInv' /\ TargetsLive' /\ CollapsingLive'
    BY <1>1, SameGraph, SameTargets, SameCollapsing DEF graph, facts
  <1>4. CopiesLive' /\ MergesDisjoint' /\ OneAtATime'
    BY DEF CopiesLive, MergesDisjoint, OneAtATime, graph, facts, pendingPts, isFieldInsensitive
  <1> QED
    BY <1>2, <1>3, <1>4

LEMMA AddCopyEdgeInv == IInv /\ (\E s, d \in Node : addCopyEdge(s, d)) => IInv'
  <1> SUFFICES ASSUME IInv, NEW s \in Node, NEW d \in Node, addCopyEdge(s, d) PROVE IInv'
    OBVIOUS
  <1> USE DEF IInv, AgendaInv, addCopyEdge
  <1>1. s \in alive /\ d \in alive /\ pc \in {"post", "connect"}
    BY DEF CopiesLive, OneAtATime
  <1>2. PlainEdge("copy", s, d) \in Edge
    BY DEF PlainEdge, Edge, Kind, DirectKind
  <1>3. TypeInv'
    <2>1. propa' \in [Node -> SUBSET Obj]
      BY DEF TypeInv, TypeOK, propaAfterEdge
    <2>2. edges' \subseteq Edge
      BY <1>2 DEF TypeInv, TypeOK
    <2>3. reanalyze' \in BOOLEAN /\ worklist' \subseteq Node
      BY DEF TypeInv, TypeOK
    <2> QED
      BY <2>1, <2>2, <2>3 DEF TypeInv, TypeOK
  <1>4. GraphInv'
    <2>1. EdgesLive'
      BY <1>1 DEF GraphInv, EdgesLive, PlainEdge
    <2> QED
      BY <2>1 DEF GraphInv, RepsLive, SubsInverse, PwcLive, Represented, isField
  <1>5. TargetsLive' /\ CollapsingLive'
    BY SameTargets, SameCollapsing
  <1>6. CopiesLive' /\ MergesDisjoint' /\ OneAtATime'
    BY DEF CopiesLive, MergesDisjoint, OneAtATime, pendingPts, isFieldInsensitive
  <1> QED
    BY <1>3, <1>4, <1>5, <1>6

LEMMA MergeSccInv == IInv /\ (\E s, r \in Node : mergeSccNode(s, r)) => IInv'
  <1> SUFFICES ASSUME IInv, NEW s \in Node, NEW r \in Node, mergeSccNode(s, r) PROVE IInv'
    OBVIOUS
  <1> USE DEF IInv, AgendaInv, mergeSccNode
  <1>1. s \in alive /\ r \in alive /\ s # r
    BY DEF MergesDisjoint
  <1>2. pts \in [Node -> SUBSET Obj] /\ mergeSrcToTgt(s, r, pts)
    BY DEF TypeInv, TypeOK
  <1>3. /\ GraphInv'
        /\ alive' = alive \ {s}
        /\ \A n \in Node : rep[n] \in alive => rep'[n] \in alive'
    BY <1>1, <1>2, MergeKeepsGraph
  <1>4. TypeInv'
    BY <1>1, <1>2, MergeTypes DEF TypeInv, TypeOK
  <1>5. TargetsLive'
    <2>1. \A n \in Node : pts'[n] = IF n = r THEN pts[r] \union pts[s] ELSE pts[n]
      BY <1>2 DEF mergeSrcToTgt
    <2>2. \A n \in Node : \A o \in pts'[n] : o \in Node /\ rep[o] \in alive
      BY <2>1, <1>2 DEF TargetsLive, Node
    <2> QED
      BY <1>3, <2>2 DEF TargetsLive
  <1>6. CopiesLive' /\ CollapsingLive' /\ OneAtATime'
    BY DEF CopiesLive, CollapsingLive, OneAtATime, NotCollapsing, pendingPts, isFieldInsensitive
  <1>7. MergesDisjoint'
    <2>1. \A p \in merges' : p \in merges /\ p # <<s, r>> /\ p \in Node \X Node
      BY DEF TypeInv, TypeOK
    <2> QED
      BY <1>3, <2>1 DEF MergesDisjoint
  <1> QED
    BY <1>3, <1>4, <1>5, <1>6, <1>7

LEMMA CollapseFieldInv == IInv /\ (\E o \in Obj : collapseField(o)) => IInv'
  <1> SUFFICES ASSUME IInv, NEW o \in Obj, collapseField(o) PROVE IInv'
    OBVIOUS
  <1> USE DEF IInv, AgendaInv
  <1> DEFINE base == baseOf[o]
  <1>1. base \in Obj /\ baseOf[base] = base /\ base \in Node
    BY ConsGAssumption DEF ConsGAssumption, Node
  <1>2. rep[base] \in alive /\ rep[base] \in Node
    BY <1>1 DEF TypeInv, TypeOK, GraphInv, Represented, isField
  <1>3. /\ UNCHANGED graph /\ UNCHANGED <<prog, pts, propa, pc, merges, newCopies>>
        /\ fi' = fi \union {base}
        /\ collapsing' = [base |-> {base}, rep |-> {rep[base]},
                          fields |-> {f \in Obj : baseOf[f] = base /\ f # base /\ onGraph(f)}]
    BY DEF collapseField
  <1>4. merges = {} /\ newCopies = {} /\ pc \in {"wave", "visit"}
    BY DEF collapseField, OneAtATime
  <1>5. \A f \in Obj : onGraph(f) => rep[f] \in alive
    BY DEF onGraph, GraphInv, RepsLive, Node
  <1>6. TypeInv'
    <2>1. collapsing' \in [base : SUBSET Obj, rep : SUBSET Node, fields : SUBSET Obj]
      BY <1>1, <1>2, <1>3
    <2>2. fi' \subseteq Obj /\ toCollapse' \subseteq Obj
      BY <1>1, <1>3 DEF TypeInv, TypeOK, collapseField
    <2> QED
      BY <2>1, <2>2 DEF TypeInv, TypeOK, collapseField, graph
  <1>7. GraphInv' /\ TargetsLive'
    BY <1>3, SameGraph, SameTargets DEF graph
  <1>8. CollapsingLive'
    BY <1>1, <1>2, <1>3, <1>5 DEF CollapsingLive, graph
  <1>9. CopiesLive' /\ MergesDisjoint' /\ OneAtATime'
    BY <1>3, <1>4 DEF CopiesLive, MergesDisjoint, OneAtATime
  <1> QED
    BY <1>6, <1>7, <1>8, <1>9

(* Replacing field f by base in every points-to set. *)
Replaced(f, base) ==
    [n \in Node |-> IF n \in {m \in Node : f \in pts[m]} THEN (pts[n] \ {f}) \union {base}
                    ELSE pts[n]]

LEMMA CollapseOneFieldSteps ==
    ASSUME IInv, NEW f \in Obj, collapseOneField(f)
    PROVE  \E base \in collapsing.base, r \in collapsing.rep :
              /\ base \in Obj /\ baseOf[base] = base /\ base \in fi /\ baseOf[f] = base
              /\ r \in alive /\ rep[f] \in alive
              /\ Replaced(f, base) \in [Node -> SUBSET Obj]
              /\ \A n \in Node : \A o \in Replaced(f, base)[n] : rep[o] \in alive
              /\ \/ rep[f] = r /\ pts' = Replaced(f, base) /\ UNCHANGED <<propa, graph>>
                 \/ rep[f] # r /\ mergeSrcToTgt(rep[f], r, Replaced(f, base))
  <1> USE DEF IInv, AgendaInv
  <1>1. f \in collapsing.fields
    BY DEF collapseOneField
  <1>2. PICK base \in collapsing.base, r \in collapsing.rep :
           \/ rep[f] = r /\ pts' = Replaced(f, base) /\ UNCHANGED <<propa, graph>>
           \/ rep[f] # r /\ mergeSrcToTgt(rep[f], r, Replaced(f, base))
    BY Zenon DEF collapseOneField, Replaced
  <1>3. base \in Obj /\ base \in Node /\ pts \in [Node -> SUBSET Obj]
    BY DEF TypeInv, TypeOK, Node
  <1>4. baseOf[base] = base /\ base \in fi /\ baseOf[f] = base /\ r \in alive /\ rep[f] \in alive
    BY <1>1 DEF CollapsingLive
  <1>5. rep[base] \in alive
    BY <1>3, <1>4 DEF GraphInv, Represented, isField
  <1>6. Replaced(f, base) \in [Node -> SUBSET Obj]
    BY <1>3 DEF Replaced
  <1>7. \A n \in Node : Replaced(f, base)[n] \subseteq pts[n] \union {base}
    BY DEF Replaced
  <1>8. \A n \in Node : \A o \in Replaced(f, base)[n] : rep[o] \in alive
    BY <1>5, <1>7 DEF TargetsLive
  <1> QED
    BY <1>2, <1>3, <1>4, <1>6, <1>8

LEMMA CollapseOneFieldInv == IInv /\ (\E f \in Obj : collapseOneField(f)) => IInv'
  <1> SUFFICES ASSUME IInv, NEW f \in Obj, collapseOneField(f) PROVE IInv'
    OBVIOUS
  <1> USE DEF IInv, AgendaInv
  <1>1. PICK base \in collapsing.base, r \in collapsing.rep :
           /\ base \in Obj /\ r \in alive /\ rep[f] \in alive
           /\ Replaced(f, base) \in [Node -> SUBSET Obj]
           /\ \A n \in Node : \A o \in Replaced(f, base)[n] : rep[o] \in alive
           /\ \/ rep[f] = r /\ pts' = Replaced(f, base) /\ UNCHANGED <<propa, graph>>
              \/ rep[f] # r /\ mergeSrcToTgt(rep[f], r, Replaced(f, base))
    BY CollapseOneFieldSteps
  <1>2. /\ UNCHANGED <<prog, fi, resolved, pc, merges, left, before, current,
                       newCopies, toCollapse, agenda>>
        /\ collapsing' = [collapsing EXCEPT !.fields = @ \ {f}]
        /\ f \in collapsing.fields
        /\ worklist' \subseteq worklist \union {rep[n] : n \in Node}
        /\ reanalyze' \in BOOLEAN
    BY DEF TypeInv, TypeOK, collapseOneField
  <1>3. collapsing # NotCollapsing
    BY <1>2 DEF NotCollapsing
  <1>4. merges = {} /\ newCopies = {} /\ pc \in {"wave", "visit"}
    BY <1>3 DEF OneAtATime
  <1>t. r \in Node /\ rep[f] \in Node /\ f \in Node
    BY <1>1 DEF TypeInv, TypeOK, Node
  <1>5. /\ GraphInv'
        /\ r \in alive'
        /\ \A n \in Node : rep[n] \in alive => rep'[n] \in alive'
        /\ propa' \in [Node -> SUBSET Obj] /\ edges' \subseteq Edge
        /\ rep' \in [Node -> Node] /\ subs' \in [Node -> SUBSET Node]
        /\ pwc' \subseteq Node /\ alive' \subseteq Node
    <2>1. CASE rep[f] = r /\ UNCHANGED <<propa, graph>>
      <3>1. GraphInv'
        BY <2>1, SameGraph
      <3> QED
        BY <1>1, <2>1, <3>1 DEF graph, TypeInv, TypeOK
    <2>2. CASE rep[f] # r /\ mergeSrcToTgt(rep[f], r, Replaced(f, base))
      <3>1. /\ GraphInv' /\ alive' = alive \ {rep[f]}
            /\ \A n \in Node : rep[n] \in alive => rep'[n] \in alive'
        BY <1>1, <2>2, MergeKeepsGraph
      <3>2. /\ propa' \in [Node -> SUBSET Obj] /\ edges' \subseteq Edge
            /\ rep' \in [Node -> Node] /\ subs' \in [Node -> SUBSET Node]
            /\ pwc' \subseteq Node /\ alive' \subseteq Node
        BY <1>1, <1>t, <2>2, MergeTypes
      <3> QED
        BY <1>1, <2>2, <3>1, <3>2
    <2> QED
      BY <1>1, <2>1, <2>2
  <1>6. /\ pts' \in [Node -> SUBSET Obj]
        /\ \A n \in Node : \A o \in pts'[n] : rep[o] \in alive
    <2> DEFINE P == Replaced(f, base)
    <2>1. P \in [Node -> SUBSET Obj] /\ \A n \in Node : \A o \in P[n] : rep[o] \in alive
      BY <1>1
    <2>2. pts' = P \/ pts' = [P EXCEPT ![r] = P[r] \union P[rep[f]]]
      BY <1>1 DEF mergeSrcToTgt
    <2> HIDE DEF P
    <2> QED
      BY <2>1, <2>2, <1>t
  <1>7. TypeInv'
    <2>1. collapsing' \in [base : SUBSET Obj, rep : SUBSET Node, fields : SUBSET Obj]
      BY <1>2 DEF TypeInv, TypeOK
    <2>2. worklist' \subseteq Node
      BY <1>2 DEF TypeInv, TypeOK
    <2> QED
      BY <1>2, <1>5, <1>6, <2>1, <2>2 DEF TypeInv, TypeOK
  <1>8. TargetsLive'
    BY <1>5, <1>6 DEF TargetsLive, Node
  <1>9. CollapsingLive'
    <2>1. /\ collapsing'.base = collapsing.base /\ collapsing'.rep = collapsing.rep
          /\ collapsing'.fields \subseteq collapsing.fields
      BY <1>2 DEF TypeInv, TypeOK
    <2>2. \A g \in collapsing.fields : g \in Node
      BY DEF TypeInv, TypeOK, Node
    <2> QED
      BY <1>1, <1>2, <1>5, <2>1, <2>2 DEF CollapsingLive
  <1>10. CopiesLive' /\ MergesDisjoint' /\ OneAtATime'
    BY <1>2, <1>4 DEF CopiesLive, MergesDisjoint, OneAtATime
  <1> QED
    BY <1>5, <1>7, <1>8, <1>9, <1>10

LEMMA EndCollapseFieldInv == IInv /\ endCollapseField => IInv'
  <1> SUFFICES ASSUME IInv, endCollapseField PROVE IInv'
    OBVIOUS
  <1> USE DEF IInv, AgendaInv, endCollapseField
  <1>1. UNCHANGED graph /\ UNCHANGED facts
    OBVIOUS
  <1>2. TypeInv'
    <2>1. agenda' \subseteq Obj
      BY DEF TypeInv, TypeOK
    <2>2. collapsing' \in [base : SUBSET Obj, rep : SUBSET Node, fields : SUBSET Obj]
      BY DEF NotCollapsing
    <2> QED
      BY <2>1, <2>2 DEF TypeInv, TypeOK, graph, facts
  <1>3. GraphInv' /\ TargetsLive'
    BY <1>1, SameGraph, SameTargets DEF graph, facts
  <1>4. CopiesLive' /\ MergesDisjoint' /\ OneAtATime' /\ CollapsingLive'
    BY DEF CopiesLive, MergesDisjoint, OneAtATime, CollapsingLive, NotCollapsing, graph
  <1> QED
    BY <1>2, <1>3, <1>4

-----------------------------------------------------------------------------
(* What an edge yields is an object: the target itself, a base object or a   *)
(* field.                                                                    *)
LEMMA TargetTypes ==
    ASSUME NEW e \in Edge, e.kind \in DirectKind, NEW o \in Obj
    PROVE  /\ edgeTarget(e, o) \in Obj
           /\ \/ edgeTarget(e, o) = o
              \/ e.kind = "vgep" /\ baseOf[edgeTarget(e, o)] = edgeTarget(e, o)
              \/ e.kind = "ngep"
  <1>1. baseOf[o] \in Obj /\ baseOf[baseOf[o]] = baseOf[o]
    BY ConsGAssumption DEF ConsGAssumption
  <1>2. e.kind = "ngep" => fieldOf[<<o, e.off>>] \in Obj
    BY ConsGAssumption DEF ConsGAssumption, Edge
  <1> QED
    BY <1>1, <1>2 DEF edgeTarget, DirectKind, GepKind

(* The current node's new targets, and the fields its normal geps yield.    *)
Diff == pts[current] \ propa[current]
GepFields == gepFields(current, Diff)

LEMMA FlowTypes ==
    ASSUME TypeInv
    PROVE  /\ Diff \subseteq Obj
           /\ GepFields \subseteq Obj
           /\ \A d \in Node : \A x \in flowTo(current, d, Diff) :
                 x \in Obj /\ (x \in Diff \/ x \in GepFields \/ baseOf[x] = x)
  <1>1. Diff \subseteq Obj /\ edges \subseteq Edge
    BY DEF TypeInv, TypeOK, Diff
  <1>2. GepFields \subseteq Obj
    <2> SUFFICES ASSUME NEW e \in edges, e.kind = "ngep", NEW o \in Diff
                 PROVE  edgeTarget(e, o) \in Obj
      BY DEF GepFields, gepFields, OfKind
    <2> QED
      BY <1>1, TargetTypes DEF DirectKind, GepKind
  <1>3. ASSUME NEW d \in Node, NEW x \in flowTo(current, d, Diff)
        PROVE  x \in Obj /\ (x \in Diff \/ x \in GepFields \/ baseOf[x] = x)
    <2>1. PICK e \in edges, o \in Diff :
             e.kind \in DirectKind /\ e.src = current /\ x = edgeTarget(e, o)
      BY DEF flowTo
    <2>2. e.kind = "ngep" => x \in GepFields
      BY <2>1 DEF GepFields, gepFields, OfKind
    <2>3. e \in Edge /\ o \in Obj
      BY <1>1
    <2> QED
      BY <2>1, <2>2, <2>3, TargetTypes
  <1> QED
    BY <1>1, <1>2, <1>3

(* What processNode does to a node that is still its own representative. *)
LEMMA ProcessNodeSteps ==
    ASSUME processNode, rep[current] = current
    PROVE  /\ propa' = [propa EXCEPT ![current] = pts[current]]
           /\ \A d \in Node : pts'[d] = pts[d] \union flowTo(current, d, Diff)
           /\ pts' = [d \in Node |-> pts'[d]]
           /\ alive' = alive \union {f \in GepFields : rep[f] = f}
           /\ fi' \subseteq fi \union {baseOf[o] : o \in Diff}
           /\ fi \subseteq fi'
           /\ toCollapse' \subseteq {baseOf[o] : o \in Diff}
           /\ worklist' \subseteq worklist \union Node
  <1> USE DEF Diff, GepFields
  <1>1. /\ propa' = [propa EXCEPT ![current] = pts[current]]
        /\ pts' = [d \in Node |-> pts[d] \union flowTo(current, d, Diff)]
        /\ alive' = alive \union {f \in GepFields : rep[f] = f}
    BY DEF processNode
  <1>2. /\ fi' = fi \union losesFields(current, Diff)
        /\ toCollapse' = losesFields(current, Diff)
        /\ worklist' = worklist \union changedBy(current, Diff)
    BY DEF processNode
  <1>3. losesFields(current, Diff) \subseteq {baseOf[o] : o \in Diff}
    BY DEF losesFields
  <1>4. changedBy(current, Diff) \subseteq Node
    BY DEF changedBy
  <1> HIDE DEF Diff, GepFields
  <1> QED
    BY <1>1, <1>2, <1>3, <1>4

LEMMA ProcessNodeInv == IInv /\ processNode => IInv'
  <1> SUFFICES ASSUME IInv, processNode PROVE IInv'
    OBVIOUS
  <1> USE DEF IInv, AgendaInv
  <1>1. /\ pc = "visit" /\ idle /\ pc' = "wave" /\ agenda' = {}
        /\ UNCHANGED <<prog, edges, rep, subs, pwc, reanalyze, resolved, merges, left,
                       before, current, newCopies, collapsing>>
    BY DEF processNode
  <1>2. merges = {} /\ newCopies = {} /\ collapsing = NotCollapsing
    BY <1>1 DEF OneAtATime, idle
  <1>3. CopiesLive' /\ MergesDisjoint' /\ OneAtATime' /\ CollapsingLive'
    BY <1>1, <1>2 DEF CopiesLive, MergesDisjoint, OneAtATime, CollapsingLive, NotCollapsing, pendingPts
  <1>4. CASE rep[current] # current
    <2>1. UNCHANGED <<facts, alive, worklist, toCollapse>>
      BY <1>4 DEF processNode
    <2>2. TypeInv'
      BY <1>1, <2>1 DEF TypeInv, TypeOK, facts
    <2>3. GraphInv' /\ TargetsLive'
      BY <1>1, <2>1, SameGraph, SameTargets DEF graph, facts
    <2> QED
      BY <1>3, <2>2, <2>3
  <1>5. CASE rep[current] = current
    <2>1. /\ propa' = [propa EXCEPT ![current] = pts[current]]
          /\ \A d \in Node : pts'[d] = pts[d] \union flowTo(current, d, Diff)
          /\ pts' = [d \in Node |-> pts'[d]]
          /\ alive' = alive \union {f \in GepFields : rep[f] = f}
          /\ fi' \subseteq fi \union {baseOf[o] : o \in Diff}
          /\ toCollapse' \subseteq {baseOf[o] : o \in Diff}
          /\ worklist' \subseteq worklist \union Node
      BY <1>5, ProcessNodeSteps
    <2>2. Diff \subseteq Obj /\ GepFields \subseteq Obj
      BY FlowTypes
    <2>3. TypeInv'
      <3>1. pts' \in [Node -> SUBSET Obj]
        <4>1. \A d \in Node : pts[d] \subseteq Obj
          BY DEF TypeInv, TypeOK
        <4> QED
          BY <2>1, <4>1, FlowTypes
      <3>2. propa' \in [Node -> SUBSET Obj]
        BY <2>1 DEF TypeInv, TypeOK
      <3>3. fi' \subseteq Obj /\ toCollapse' \subseteq Obj /\ alive' \subseteq Node /\ worklist' \subseteq Node
        <4>1. \A o \in Diff : baseOf[o] \in Obj
          BY <2>2, ConsGAssumption DEF ConsGAssumption
        <4>2. fi \subseteq Obj /\ alive \subseteq Node /\ worklist \subseteq Node
          BY DEF TypeInv, TypeOK
        <4>3. {f \in GepFields : rep[f] = f} \subseteq Node
          BY <2>2 DEF Node
        <4> QED
          BY <2>1, <4>1, <4>2, <4>3
      <3> QED
        BY <1>1, <3>1, <3>2, <3>3 DEF TypeInv, TypeOK
    <2>4. GraphInv'
      <3>1. alive \subseteq alive' /\ \A n \in alive' : n \in alive \/ rep[n] = n
        BY <2>1
      <3>2. RepsLive'
        BY <1>1, <3>1 DEF GraphInv, RepsLive
      <3>3. SubsInverse' /\ EdgesLive' /\ PwcLive' /\ Represented'
        BY <1>1, <3>1 DEF GraphInv, SubsInverse, EdgesLive, PwcLive, Represented, isField
      <3> QED
        BY <3>2, <3>3 DEF GraphInv
    <2>5. TargetsLive'
      <3> SUFFICES ASSUME NEW d \in Node, NEW o \in pts'[d]
                   PROVE  rep[o] \in alive'
        BY <1>1 DEF TargetsLive
      <3>1. CASE o \in pts[d]
        BY <2>1, <3>1 DEF TargetsLive
      <3>2. CASE o \in flowTo(current, d, Diff)
        <4>1. o \in Obj /\ o \in Node
          BY <3>2, FlowTypes DEF Node
        <4>2. CASE o \in Diff
          <5>1. current \in Node /\ o \in pts[current]
            BY <4>2 DEF TypeInv, TypeOK, Diff
          <5> QED
            BY <2>1, <5>1 DEF TargetsLive
        <4>3. CASE o \in GepFields
          BY <2>1, <4>1, <4>3 DEF GraphInv, RepsLive
        <4>4. CASE baseOf[o] = o
          BY <2>1, <4>1, <4>4 DEF GraphInv, Represented, isField
        <4> QED
          BY <3>2, <4>2, <4>3, <4>4, FlowTypes
      <3> QED
        BY <2>1, <3>1, <3>2
    <2> QED
      BY <1>3, <2>3, <2>4, <2>5
  <1> QED
    BY <1>4, <1>5

-----------------------------------------------------------------------------
LEMMA NextInv == IInv /\ [Next]_vars => IInv'
  <1> SUFFICES ASSUME IInv, [Next]_vars PROVE IInv'
    OBVIOUS
  <1>1. CASE Next
    BY <1>1, SCCDetectInv, MergeSccInv, CollapseFieldInv, CollapseOneFieldInv, EndCollapseFieldInv,
       VisitInv, PostProcessInv, ProcessNodeInv, EndWaveInv, AddCopyEdgeInv, UpdateCallGraphInv,
       EndRoundInv, StutterInv DEF Next, finished
  <1>2. CASE UNCHANGED vars
    BY <1>2, StutterInv
  <1> QED
    BY <1>1, <1>2

(* Every reachable state satisfies the inductive invariant. *)
THEOREM Invariance == Spec => []IInv
  BY InitInv, NextInv, PTL DEF Spec

(* Node merging keeps the graph whole whatever the program is: every edge    *)
(* joins live nodes, and one lookup in nodeToRepMap finds the live node that *)
(* stands for a merged one (mergeSrcToTgt, updateNodeRepAndSubs,             *)
(* moveEdgesToRepNode).                                                      *)
THEOREM GraphStaysWhole == Spec => []GraphWellFormed
  <1>1. IInv => GraphWellFormed
    BY DEF IInv, TypeInv, TypeOK, GraphInv, RepsLive, SubsInverse, EdgesLive, PwcLive, GraphWellFormed
  <1> QED
    BY <1>1, Invariance, PTL

-----------------------------------------------------------------------------
(* Difference propagation loses nothing.  Beside the invariant itself the    *)
(* proof needs that a node still points to what it counts as propagated,     *)
(* on which a copy edge added late relies.                                   *)
PropaCovered == \A n \in Node : \A o \in propa[n] : covers(n, o)
Arrived == PropagatedArrived /\ PropaCovered

(* Every target of d before the step is covered by d2 after it. *)
Inherits(d, d2) == \A x \in pts[d] : covers(d2, x)'

LEMMA CoverInherited ==
    ASSUME fi \subseteq fi', NEW d, NEW d2, Inherits(d, d2), NEW t, covers(d, t)
    PROVE  covers(d2, t)'
  BY DEF Inherits, covers, isFieldInsensitive

LEMMA KeptTargets ==
    ASSUME NEW d, NEW d2, pts[d] \subseteq pts'[d2]
    PROVE  Inherits(d, d2)
  BY DEF Inherits, covers

(* A structure that becomes field-insensitive changes what an edge yields;   *)
(* the field that arrived before then stands for the new target.             *)
LEMMA TargetStays ==
    ASSUME fi \subseteq fi', NEW e \in Edge, e.kind \in DirectKind, NEW o \in Obj,
           NEW d, NEW t, t = edgeTarget(e, o), covers(d, t)'
    PROVE  covers(d, edgeTarget(e, o))'
  <1>1. \/ edgeTarget(e, o)' = t
        \/ /\ edgeTarget(e, o)' = o /\ baseOf[o] \in fi'
           /\ e.kind = "ngep" /\ t = fieldOf[<<o, e.off>>]
    BY DEF edgeTarget, isFieldInsensitive, DirectKind, GepKind
  <1>2. CASE edgeTarget(e, o)' = t
    BY <1>2 DEF covers, isFieldInsensitive
  <1>3. CASE /\ edgeTarget(e, o)' = o /\ baseOf[o] \in fi'
             /\ e.kind = "ngep" /\ t = fieldOf[<<o, e.off>>]
    <2>1. baseOf[t] = baseOf[o]
      BY <1>3, ConsGAssumption DEF ConsGAssumption, Edge
    <2>2. \E x \in pts'[d] : baseOf[x] = baseOf[o]
      BY <2>1 DEF covers
    <2> QED
      BY <1>3, <2>2 DEF covers, isFieldInsensitive
  <1> QED
    BY <1>1, <1>2, <1>3

(* Steps after which every edge continues one that was there before. *)
Continues(e, x) ==
    /\ e.kind = x.kind /\ e.off = x.off
    /\ propa'[e.src] \subseteq propa[x.src]
    /\ Inherits(x.dst, e.dst)

LEMMA EdgesContinue ==
    ASSUME TypeInv, TypeInv', PropagatedArrived, fi \subseteq fi',
           \A e \in edges' : \E x \in edges : Continues(e, x)
    PROVE  PropagatedArrived'
  <1> SUFFICES ASSUME NEW e \in edges', e.kind \in DirectKind, NEW o \in propa'[e.src]
               PROVE  covers(e.dst, edgeTarget(e, o))'
    BY DEF PropagatedArrived
  <1>1. PICK x \in edges : Continues(e, x)
    OBVIOUS
  <1>2. x \in Edge /\ e \in Edge /\ o \in propa[x.src] /\ x.kind \in DirectKind
    BY <1>1 DEF TypeInv, TypeOK, Continues
  <1>3. o \in Obj
    BY <1>2 DEF TypeInv, TypeOK, Edge
  <1>4. edgeTarget(x, o) = edgeTarget(e, o)
    BY <1>1 DEF Continues, edgeTarget
  <1>5. covers(x.dst, edgeTarget(e, o))
    BY <1>2, <1>4 DEF PropagatedArrived
  <1> DEFINE t == edgeTarget(e, o)
  <1>6. \E u : u = t /\ covers(x.dst, u)
    BY <1>5
  <1>7. PICK u : u = t /\ covers(x.dst, u)
    BY <1>6
  <1>8. covers(e.dst, u)'
    BY <1>1, <1>7, CoverInherited DEF Continues
  <1> QED
    BY <1>2, <1>3, <1>7, <1>8, TargetStays

LEMMA NodesContinue ==
    ASSUME PropaCovered, fi \subseteq fi',
           \A n \in Node : propa'[n] \subseteq propa[n] /\ Inherits(n, n)
    PROVE  PropaCovered'
  <1> SUFFICES ASSUME NEW n \in Node, NEW o \in propa'[n]
               PROVE  covers(n, o)'
    BY DEF PropaCovered
  <1>1. covers(n, o) /\ Inherits(n, n)
    BY DEF PropaCovered
  <1> QED
    BY <1>1, CoverInherited

LEMMA SameFlow ==
    ASSUME IInv, IInv', Arrived, UNCHANGED <<edges, pts, propa>>, fi \subseteq fi'
    PROVE  Arrived'
  <1>1. \A n : Inherits(n, n)
    BY KeptTargets
  <1>2. \A e \in edges' : \E x \in edges : Continues(e, x)
    BY <1>1 DEF Continues
  <1> QED
    BY <1>1, <1>2, EdgesContinue, NodesContinue DEF Arrived, IInv

(* Merging s into r, starting from points-to sets P that have kept every    *)
(* target, or the base of one whose structure is field-insensitive.         *)
Keeps(P) ==
    \A n \in Node : \A x \in pts[n] :
        \/ x \in P[n]
        \/ isFieldInsensitive(x) /\ baseOf[x] \in P[n]

LEMMA MergeArrived ==
    ASSUME IInv, IInv', Arrived, UNCHANGED fi,
           NEW s \in alive, NEW r \in alive, s # r,
           NEW P \in [Node -> SUBSET Obj], mergeSrcToTgt(s, r, P), Keeps(P)
    PROVE  Arrived'
  <1> USE DEF IInv, TypeInv, TypeOK
  <1>1. s \in Node /\ r \in Node
    OBVIOUS
  <1>2. \A n \in Node : propa'[n] = IF n = r THEN propa[r] \intersect propa[s] ELSE propa[n]
    BY <1>1 DEF mergeSrcToTgt, propaAfterMerge
  <1>3. \A n \in Node : pts'[n] = IF n = r THEN P[r] \union P[s] ELSE P[n]
    BY <1>1 DEF mergeSrcToTgt
  <1>4. ASSUME NEW n \in Node
        PROVE  Inherits(n, n) /\ (n = s => Inherits(n, r))
    <2>1. ASSUME NEW m \in Node, P[n] \subseteq pts'[m] PROVE Inherits(n, m)
      <3> SUFFICES ASSUME NEW x \in pts[n] PROVE covers(m, x)'
        BY DEF Inherits
      <3>1. x \in Obj /\ baseOf[baseOf[x]] = baseOf[x]
        BY ConsGAssumption DEF ConsGAssumption
      <3> QED
        BY <2>1, <3>1 DEF Keeps, covers, isFieldInsensitive
    <2> QED
      BY <1>1, <1>3, <2>1
  <1>5. \A e \in edges' : \E x \in edges : Continues(e, x)
    <2> SUFFICES ASSUME NEW e \in edges' PROVE \E x \in edges : Continues(e, x)
      OBVIOUS
    <2>1. e \in moveEdgesToRepNode(edges, s, r)
      BY DEF mergeSrcToTgt
    <2>2. PICK x \in edges : /\ e.kind = x.kind /\ e.off = x.off
                             /\ e.src = IF x.src = s THEN r ELSE x.src
                             /\ e.dst = IF x.dst = s THEN r ELSE x.dst
      BY <1>1, <2>1, MoveEdges
    <2>3. x.src \in Node /\ x.dst \in Node
      BY DEF Edge
    <2>4. propa'[e.src] \subseteq propa[x.src]
      BY <1>1, <1>2, <2>2, <2>3
    <2>5. Inherits(x.dst, e.dst)
      BY <1>4, <2>2, <2>3
    <2> QED
      BY <2>2, <2>4, <2>5 DEF Continues
  <1>6. \A n \in Node : propa'[n] \subseteq propa[n] /\ Inherits(n, n)
    BY <1>2, <1>4
  <1> QED
    BY <1>5, <1>6, EdgesContinue, NodesContinue DEF Arrived

LEMMA MergeSccArrived ==
    ASSUME IInv, IInv', Arrived, NEW s \in Node, NEW r \in Node, mergeSccNode(s, r)
    PROVE  Arrived'
  <1>1. s \in alive /\ r \in alive /\ s # r
    BY DEF IInv, AgendaInv, MergesDisjoint, mergeSccNode
  <1>2. pts \in [Node -> SUBSET Obj] /\ mergeSrcToTgt(s, r, pts) /\ UNCHANGED fi
    BY DEF IInv, TypeInv, TypeOK, mergeSccNode
  <1>3. PICK P \in [Node -> SUBSET Obj] : P = pts /\ mergeSrcToTgt(s, r, P)
    BY <1>2
  <1>4. Keeps(P)
    BY <1>3 DEF Keeps
  <1> QED
    BY <1>1, <1>2, <1>3, <1>4, MergeArrived

LEMMA CollapseOneFieldArrived ==
    ASSUME IInv, IInv', Arrived, NEW f \in Obj, collapseOneField(f)
    PROVE  Arrived'
  <1>1. PICK base \in collapsing.base, r \in collapsing.rep :
           /\ base \in Obj /\ baseOf[base] = base /\ base \in fi /\ baseOf[f] = base
           /\ r \in alive /\ rep[f] \in alive
           /\ Replaced(f, base) \in [Node -> SUBSET Obj]
           /\ \/ rep[f] = r /\ pts' = Replaced(f, base) /\ UNCHANGED <<propa, graph>>
              \/ rep[f] # r /\ mergeSrcToTgt(rep[f], r, Replaced(f, base))
    BY CollapseOneFieldSteps
  <1>2. UNCHANGED fi
    BY DEF collapseOneField
  <1>3. Keeps(Replaced(f, base))
    <2> SUFFICES ASSUME NEW n \in Node, NEW x \in pts[n]
                 PROVE  \/ x \in Replaced(f, base)[n]
                        \/ isFieldInsensitive(x) /\ baseOf[x] \in Replaced(f, base)[n]
      BY DEF Keeps
    <2>1. CASE x = f
      BY <1>1, <2>1 DEF Replaced, isFieldInsensitive
    <2>2. CASE x # f
      BY <2>2 DEF Replaced
    <2> QED
      BY <2>1, <2>2
  <1>4. CASE rep[f] = r /\ pts' = Replaced(f, base) /\ UNCHANGED <<propa, graph>>
    <2>1. \A n \in Node : Inherits(n, n)
      <3> SUFFICES ASSUME NEW n \in Node, NEW x \in pts[n] PROVE covers(n, x)'
        BY DEF Inherits
      <3>1. x \in Obj /\ baseOf[baseOf[x]] = baseOf[x]
        BY ConsGAssumption DEF ConsGAssumption, IInv, TypeInv, TypeOK
      <3> QED
        BY <1>2, <1>3, <1>4, <3>1 DEF Keeps, covers, isFieldInsensitive
    <2>2. \A e \in edges' : \E x \in edges : Continues(e, x)
      BY <1>4, <2>1 DEF Continues, graph, IInv, TypeInv, TypeOK, Edge
    <2> QED
      BY <1>2, <1>4, <2>1, <2>2, EdgesContinue, NodesContinue DEF Arrived, IInv
  <1>5. CASE rep[f] # r /\ mergeSrcToTgt(rep[f], r, Replaced(f, base))
    BY <1>1, <1>2, <1>3, <1>5, MergeArrived
  <1> QED
    BY <1>1, <1>4, <1>5

LEMMA AddCopyEdgeArrived ==
    ASSUME IInv, IInv', Arrived, NEW s \in Node, NEW d \in Node, addCopyEdge(s, d)
    PROVE  Arrived'
  <1> USE DEF addCopyEdge, IInv, TypeInv, TypeOK
  <1>1. \A n \in Node : propa'[n] = IF n = s THEN propa[s] \intersect propa[d] ELSE propa[n]
    BY DEF propaAfterEdge
  <1>2. \A n : Inherits(n, n)
    BY KeptTargets
  <1>3. PropaCovered'
    BY <1>1, <1>2, NodesContinue DEF Arrived
  <1>4. PropagatedArrived'
    <2> SUFFICES ASSUME NEW e \in edges', e.kind \in DirectKind, NEW o \in propa'[e.src]
                 PROVE  covers(e.dst, edgeTarget(e, o))'
      BY DEF PropagatedArrived
    <2>1. CASE e \in edges
      <3>1. e.src \in Node
        BY <2>1 DEF Edge
      <3>2. covers(e.dst, edgeTarget(e, o))
        BY <1>1, <2>1, <3>1 DEF Arrived, PropagatedArrived
      <3> QED
        BY <3>2 DEF covers, edgeTarget, isFieldInsensitive
    <2>2. CASE e = PlainEdge("copy", s, d)
      <3>1. e.src = s /\ e.dst = d /\ e.kind = "copy"
        BY <2>2 DEF PlainEdge
      <3>2. covers(d, o)
        BY <1>1, <3>1 DEF Arrived, PropaCovered
      <3> QED
        BY <3>1, <3>2 DEF covers, edgeTarget, isFieldInsensitive
    <2> QED
      BY <2>1, <2>2
  <1> QED
    BY <1>3, <1>4 DEF Arrived

LEMMA ProcessNodeArrived ==
    ASSUME IInv, IInv', Arrived, processNode
    PROVE  Arrived'
  <1>0. edges' = edges
    BY DEF processNode
  <1> USE DEF IInv, TypeInv, TypeOK
  <1>1. CASE rep[current] # current
    BY <1>0, <1>1, SameFlow DEF processNode, facts
  <1>2. CASE rep[current] = current
    <2>1. /\ \A n \in Node : propa'[n] = IF n = current THEN pts[n] ELSE propa[n]
          /\ \A d \in Node : pts'[d] = pts[d] \union flowTo(current, d, Diff)
          /\ fi \subseteq fi' /\ edges' = edges
      BY <1>0, <1>2, ProcessNodeSteps
    <2>2. \A n \in Node : Inherits(n, n)
      BY <2>1, KeptTargets
    <2>3. PropaCovered'
      <3> SUFFICES ASSUME NEW n \in Node, NEW o \in propa'[n]
                   PROVE  covers(n, o)'
        BY DEF PropaCovered
      <3>1. CASE n = current
        BY <2>1, <3>1 DEF covers
      <3>2. CASE n # current
        <4>1. covers(n, o)
          BY <2>1, <3>2 DEF Arrived, PropaCovered
        <4> QED
          BY <2>1, <2>2, <4>1, CoverInherited
      <3> QED
        BY <3>1, <3>2
    <2>4. PropagatedArrived'
      <3> SUFFICES ASSUME NEW e \in edges, e.kind \in DirectKind, NEW o \in propa'[e.src]
                   PROVE  covers(e.dst, edgeTarget(e, o))'
        BY <2>1 DEF PropagatedArrived
      <3>1. e \in Edge /\ e.src \in Node /\ e.dst \in Node
        BY DEF Edge
      <3>2. o \in Obj
        BY <3>1
      <3>3. PICK t : t = edgeTarget(e, o)
        OBVIOUS
      <3>4. CASE o \in propa[e.src]
        <4>1. covers(e.dst, t)
          BY <3>3, <3>4 DEF Arrived, PropagatedArrived
        <4>2. covers(e.dst, t)'
          BY <2>1, <2>2, <3>1, <4>1, CoverInherited
        <4> QED
          BY <2>1, <3>1, <3>2, <3>3, <4>2, TargetStays
      <3>5. CASE o \notin propa[e.src]
        <4>1. e.src = current /\ o \in Diff
          BY <2>1, <3>1, <3>5 DEF Diff
        <4>2. t \in flowTo(current, e.dst, Diff)
          BY <3>3, <4>1 DEF flowTo
        <4>3. covers(e.dst, t)'
          BY <2>1, <3>1, <4>2 DEF covers
        <4> QED
          BY <2>1, <3>1, <3>2, <3>3, <4>3, TargetStays
      <3> QED
        BY <3>4, <3>5
    <2> QED
      BY <2>3, <2>4 DEF Arrived
  <1> QED
    BY <1>1, <1>2

LEMMA NextArrived ==
    ASSUME IInv, IInv', Arrived, [Next]_vars
    PROVE  Arrived'
  <1> DEFINE Still == UNCHANGED <<edges, pts, propa>> /\ fi \subseteq fi'
  <1>1. CASE \/ SCCDetect \/ endCollapseField \/ endWave \/ updateCallGraph \/ endRound
             \/ UNCHANGED vars \/ \E n \in Node : visit(n) \/ postProcessNode(n)
    <2>1. Still
      BY <1>1 DEF SCCDetect, endCollapseField, endWave, updateCallGraph, endRound, visit,
                  postProcessNode, vars, graph, facts
    <2> QED
      BY <2>1, SameFlow
  <1>2. CASE \E o \in Obj : collapseField(o)
    <2>1. Still
      BY <1>2 DEF collapseField, graph
    <2> QED
      BY <2>1, SameFlow
  <1> QED
    BY <1>1, <1>2, MergeSccArrived, CollapseOneFieldArrived, AddCopyEdgeArrived,
       ProcessNodeArrived DEF Next, finished

LEMMA InitArrived == Init => Arrived
  <1> SUFFICES ASSUME Init PROVE Arrived
    OBVIOUS
  <1>1. IInv
    BY InitInv
  <1>2. \A n \in Node : propa[n] = {}
    BY DEF Init
  <1>3. \A e \in edges : e.src \in Node
    BY <1>1 DEF IInv, TypeInv, TypeOK, Edge
  <1> QED
    BY <1>2, <1>3 DEF Arrived, PropagatedArrived, PropaCovered

(* Whatever the program, the order of the wave and the cycles met on the     *)
(* way: a target that a node counts as propagated has arrived at the end of  *)
(* each of its copy and gep edges (computeDiffPts, updatePropaPts,           *)
(* mergeSrcToTgt, addCopyEdge, collapseField).                               *)
THEOREM NothingLost == Spec => []PropagatedArrived
  <1>1. Init => IInv /\ Arrived
    BY InitInv, InitArrived
  <1>2. (IInv /\ Arrived) /\ [Next]_vars => (IInv /\ Arrived)'
    BY NextInv, NextArrived
  <1>3. IInv /\ Arrived => PropagatedArrived
    BY DEF Arrived
  <1> QED
    BY <1>1, <1>2, <1>3, PTL DEF Spec

-----------------------------------------------------------------------------
(* Merging s into r from points-to sets P, variable by variable. *)
Merged(s, r, P) ==
    /\ s \in Node /\ r \in Node /\ rep[s] = s /\ rep[r] = r
    /\ \A n \in Node : pts'[n] = IF n = r THEN P[r] \union P[s] ELSE P[n]
    /\ \A n \in Node : propa'[n] = IF n = r THEN propa[r] \intersect propa[s] ELSE propa[n]
    /\ \A n \in Node : rep'[n] = IF rep[n] = s THEN r ELSE rep[n]
    /\ \A n \in Node : subs'[n] = IF n = s THEN {}
                                  ELSE IF n = r THEN subs[r] \union subs[s] \union {s}
                                  ELSE subs[n]
    /\ alive' = alive \ {s}
    /\ edges' = moveEdgesToRepNode(edges, s, r)

LEMMA MergeEffects ==
    ASSUME TypeInv, GraphInv, NEW s \in alive, NEW r \in alive, s # r,
           NEW P \in [Node -> SUBSET Obj], mergeSrcToTgt(s, r, P)
    PROVE  Merged(s, r, P)
  <1>1. s \in Node /\ r \in Node /\ rep[s] = s /\ rep[r] = r
    BY DEF TypeInv, TypeOK, GraphInv, RepsLive
  <1>2. \A n \in Node : rep'[n] = IF rep[n] = s THEN r ELSE rep[n]
    BY MergeKeepsGraph
  <1>3. /\ \A n \in Node : pts'[n] = IF n = r THEN P[r] \union P[s] ELSE P[n]
        /\ \A n \in Node : propa'[n] = IF n = r THEN propa[r] \intersect propa[s] ELSE propa[n]
    BY <1>1 DEF mergeSrcToTgt, propaAfterMerge, TypeInv, TypeOK
  <1>4. \A n \in Node : subs'[n] = IF n = s THEN {}
                                   ELSE IF n = r THEN subs[r] \union subs[s] \union {s}
                                   ELSE subs[n]
    BY <1>1 DEF mergeSrcToTgt, TypeInv, TypeOK
  <1> QED
    BY <1>1, <1>2, <1>3, <1>4 DEF mergeSrcToTgt, Merged

(* One field f of the structure being collapsed, variable by variable. *)
LEMMA CollapseOneEffects ==
    ASSUME IInv, NEW f \in Obj, collapseOneField(f)
    PROVE  \E base \in collapsing.base, r \in collapsing.rep :
              /\ base \in Obj /\ base \in Node /\ baseOf[base] = base /\ base \in fi /\ baseOf[f] = base
              /\ f \in Node /\ r \in alive /\ rep[f] \in alive
              /\ Replaced(f, base) \in [Node -> SUBSET Obj]
              /\ \A n \in Node : Replaced(f, base)[n] =
                    IF f \in pts[n] THEN (pts[n] \ {f}) \union {base} ELSE pts[n]
              /\ \/ rep[f] = r /\ pts' = Replaced(f, base) /\ UNCHANGED <<propa, graph>>
                 \/ rep[f] # r /\ mergeSrcToTgt(rep[f], r, Replaced(f, base))
              /\ collapsing' = [collapsing EXCEPT !.fields = @ \ {f}]
              /\ f \in collapsing.fields
              /\ worklist' = worklist \union {rep[n] : n \in {m \in Node : f \in pts[m]}}
              /\ reanalyze' = (reanalyze \/ \E n \in Node : f \in pts[n])
              /\ UNCHANGED <<prog, fi, resolved, pc, merges, left, before, current,
                             newCopies, toCollapse, agenda>>
              /\ merges = {} /\ newCopies = {} /\ pc \in {"wave", "visit"}
  <1>1. PICK base \in collapsing.base, r \in collapsing.rep :
           /\ base \in Obj /\ baseOf[base] = base /\ base \in fi /\ baseOf[f] = base
           /\ r \in alive /\ rep[f] \in alive
           /\ Replaced(f, base) \in [Node -> SUBSET Obj]
           /\ \/ rep[f] = r /\ pts' = Replaced(f, base) /\ UNCHANGED <<propa, graph>>
              \/ rep[f] # r /\ mergeSrcToTgt(rep[f], r, Replaced(f, base))
    BY CollapseOneFieldSteps
  <1>2. \A n \in Node : Replaced(f, base)[n] =
                    IF f \in pts[n] THEN (pts[n] \ {f}) \union {base} ELSE pts[n]
    BY DEF Replaced
  <1>3. /\ collapsing' = [collapsing EXCEPT !.fields = @ \ {f}]
        /\ f \in collapsing.fields
        /\ worklist' = worklist \union {rep[n] : n \in {m \in Node : f \in pts[m]}}
        /\ reanalyze' = (reanalyze \/ {m \in Node : f \in pts[m]} # {})
        /\ UNCHANGED <<prog, fi, resolved, pc, merges, left, before, current,
                             newCopies, toCollapse, agenda>>
    BY DEF collapseOneField
  <1>4. merges = {} /\ newCopies = {} /\ pc \in {"wave", "visit"}
    <2>1. collapsing # NotCollapsing
      BY <1>3 DEF NotCollapsing
    <2> QED
      BY <2>1 DEF IInv, AgendaInv, OneAtATime
  <1>5. base \in Node /\ f \in Node
    BY <1>1 DEF Node
  <1>6. reanalyze' = (reanalyze \/ \E n \in Node : f \in pts[n])
    BY <1>3
  <1> QED
    BY <1>1, <1>2, <1>3, <1>4, <1>5, <1>6

-----------------------------------------------------------------------------
(* Collapsed structures.  Beside NoStaleField the invariant says that a node *)
(* that has not been created yet points to nothing; that a running           *)
(* collapseField has listed every field some pointer still has; and that     *)
(* every field created so far is the target of some pointer, so that         *)
(* collapsing a structure with fields always asks for another round.         *)
Bare == \A n \in Node : rep[n] = n /\ n \notin alive => pts[n] = {}
Queue == /\ pc # "wave" => toCollapse = {}
         /\ \A b \in toCollapse : baseOf[b] = b /\ b \in fi /\ b \notin collapsing.base
FieldsListed ==
    \A b \in collapsing.base :
        /\ \A f \in collapsing.fields : f # b
        /\ \A n \in alive : \A o \in pts[n] : baseOf[o] = b /\ o # b => o \in collapsing.fields
FieldsWanted ==
    /\ \A f \in Obj : isField(f) /\ onGraph(f) /\ (~isFieldInsensitive(f) \/ baseOf[f] \in toCollapse)
                      => \E n \in Node : f \in pts[n]
    /\ \A f \in collapsing.fields : \E n \in Node : f \in pts[n]
FieldInv == Bare /\ Queue /\ FieldsListed /\ FieldsWanted /\ NoStaleField

LEMMA InitFields == Init => FieldInv
  <1> SUFFICES ASSUME Init PROVE FieldInv
    OBVIOUS
  <1>1. /\ \A e \in prog.stmts : e.kind = "addr" => e.src \in Obj /\ baseOf[e.src] = e.src /\ e.dst \in Var
        /\ collapsing = NotCollapsing /\ toCollapse = {} /\ fi = {}
        /\ alive = Var \union {o \in Obj : ~isField(o)} /\ rep = [n \in Node |-> n]
    BY AndersenAssumption DEF AndersenAssumption, Init
  <1>2. Bare
    <2>1. \A n \in Node : pts[n] = {e.src : e \in {x \in OfKind(prog.stmts, "addr") : x.dst = n}}
      BY DEF Init
    <2> QED
      BY <1>1, <2>1 DEF Bare, OfKind
  <1>3. Queue /\ FieldsListed /\ NoStaleField
    BY <1>1 DEF Queue, FieldsListed, NoStaleField, NotCollapsing, isFieldInsensitive
  <1>4. FieldsWanted
    <2>1. \A f \in Obj : onGraph(f) => ~isField(f)
      BY <1>1, ConsGAssumption DEF ConsGAssumption, onGraph, Node
    <2> QED
      BY <1>1, <2>1 DEF FieldsWanted, NotCollapsing
  <1> QED
    BY <1>2, <1>3, <1>4 DEF FieldInv

LEMMA SameFields ==
    ASSUME FieldInv, UNCHANGED <<rep, alive, pts, fi, toCollapse, collapsing>>, Queue'
    PROVE  FieldInv'
  BY DEF FieldInv, Bare, FieldsListed, FieldsWanted, NoStaleField, onGraph, isFieldInsensitive, isField

LEMMA MergeFields ==
    ASSUME IInv, FieldInv, NEW s \in Node, NEW r \in Node, mergeSccNode(s, r)
    PROVE  FieldInv'
  <1>1. s \in alive /\ r \in alive /\ s # r /\ pc = "wave" /\ collapsing = NotCollapsing
    BY DEF IInv, AgendaInv, MergesDisjoint, mergeSccNode, OneAtATime
  <1>2. pts \in [Node -> SUBSET Obj] /\ mergeSrcToTgt(s, r, pts)
        /\ UNCHANGED <<fi, toCollapse, collapsing, pc>>
    BY DEF IInv, TypeInv, TypeOK, mergeSccNode
  <1>3. /\ s \in Node /\ r \in Node /\ rep[s] = s /\ rep[r] = r
        /\ \A n \in Node : pts'[n] = IF n = r THEN pts[r] \union pts[s] ELSE pts[n]
        /\ \A n \in Node : rep'[n] = IF rep[n] = s THEN r ELSE rep[n]
        /\ alive' = alive \ {s}
    <2>1. PICK P \in [Node -> SUBSET Obj] : P = pts /\ mergeSrcToTgt(s, r, P)
      BY <1>2
    <2>2. Merged(s, r, P)
      BY <1>1, <2>1, MergeEffects DEF IInv
    <2> QED
      BY <2>1, <2>2 DEF Merged
  <1>4. Bare'
    BY <1>1, <1>3 DEF FieldInv, Bare
  <1>5. Queue' /\ FieldsListed'
    BY <1>1, <1>2 DEF FieldInv, Queue, FieldsListed, NotCollapsing
  <1>6. FieldsWanted'
    <2>1. \A f \in Obj : onGraph(f)' => onGraph(f)
      BY <1>1, <1>3 DEF onGraph, Node
    <2>2. \A n \in Node : pts[n] \subseteq pts'[n]
      BY <1>3
    <2> QED
      BY <1>1, <1>2, <2>1, <2>2 DEF FieldInv, FieldsWanted, isFieldInsensitive, NotCollapsing, isField
  <1>7. NoStaleField'
    <2>1. \A n \in alive' : \A o \in pts'[n] : \E m \in alive : o \in pts[m]
      BY <1>1, <1>3 DEF IInv, TypeInv, TypeOK
    <2> QED
      BY <1>2, <2>1 DEF FieldInv, NoStaleField, isFieldInsensitive, isField
  <1> QED
    BY <1>4, <1>5, <1>6, <1>7 DEF FieldInv

LEMMA CollapseFieldFields ==
    ASSUME IInv, FieldInv, NEW o \in Obj, collapseField(o)
    PROVE  FieldInv'
  <1> DEFINE base == baseOf[o]
  <1>1. /\ base \in Obj /\ baseOf[base] = base
        /\ \A x \in Obj : baseOf[x] = o => baseOf[x] = base
    BY ConsGAssumption DEF ConsGAssumption
  <1>2. /\ UNCHANGED <<rep, alive, pts, pc>>
        /\ fi' = fi \union {base} /\ collapsing = NotCollapsing
        /\ collapsing' = [base |-> {base}, rep |-> {rep[base]},
                          fields |-> {f \in Obj : baseOf[f] = base /\ f # base /\ onGraph(f)}]
        /\ \/ o \in pendingPts /\ toCollapse' = toCollapse
           \/ o \in toCollapse /\ toCollapse' = toCollapse \ {o}
    BY DEF collapseField, graph
  <1>3. Bare' /\ Queue'
    <2>1. Bare'
      BY <1>2 DEF FieldInv, Bare
    <2>2. base \in fi => o \notin pendingPts
      BY DEF pendingPts, isFieldInsensitive
    <2> QED
      BY <1>1, <1>2, <2>1, <2>2 DEF FieldInv, Queue
  <1>4. \A n \in Node : \A x \in pts[n] : x \in Obj /\ onGraph(x)
    <2> SUFFICES ASSUME NEW n \in Node, NEW x \in pts[n] PROVE x \in Obj /\ onGraph(x)
      OBVIOUS
    <2>1. x \in Obj /\ rep[x] \in alive
      BY DEF IInv, TypeInv, TypeOK, AgendaInv, TargetsLive
    <2> QED
      BY <2>1 DEF onGraph
  <1>5. alive \subseteq Node
    BY DEF IInv, TypeInv, TypeOK
  <1>6. FieldsListed'
    BY <1>2, <1>4, <1>5 DEF FieldsListed
  <1>7. FieldsWanted'
    <2>1. \A f \in Obj : onGraph(f)' <=> onGraph(f)
      BY <1>2 DEF onGraph
    <2>2. ~isFieldInsensitive(o) \/ base \in toCollapse
      <3>1. CASE o \in pendingPts
        BY <3>1 DEF pendingPts
      <3>2. CASE o \in toCollapse
        \* What is queued is a base object.
        BY <3>2, <1>1 DEF FieldInv, Queue
      <3> QED
        BY <1>2, <3>1, <3>2
    <2> QED
      BY <1>1, <1>2, <2>1, <2>2 DEF FieldInv, FieldsWanted, isFieldInsensitive, isField
  <1>8. NoStaleField'
    <2> SUFFICES ASSUME NEW n \in alive, NEW x \in pts[n], isField(x), isFieldInsensitive(x)'
                 PROVE  baseOf[x] \in toCollapse' \union collapsing'.base
      BY <1>2 DEF NoStaleField, isField
    <2>1. x \in Obj /\ collapsing'.base = {base}
      BY <1>2, <1>4, <1>5
    <2>2. CASE isFieldInsensitive(x)
      <3>1. baseOf[x] \in toCollapse
        BY <1>2, <2>2 DEF FieldInv, NoStaleField, NotCollapsing
      <3> QED
        BY <1>1, <1>2, <2>1, <3>1
    <2>3. CASE baseOf[x] = base
      BY <2>1, <2>3
    <2> QED
      BY <1>2, <2>2, <2>3 DEF isFieldInsensitive
  <1> QED
    BY <1>3, <1>6, <1>7, <1>8 DEF FieldInv

LEMMA CollapseOneFields ==
    ASSUME IInv, FieldInv, NEW f \in Obj, collapseOneField(f)
    PROVE  FieldInv'
  <1>1. PICK base \in collapsing.base, r \in collapsing.rep :
           /\ base \in Obj /\ base \in Node /\ baseOf[base] = base /\ base \in fi /\ baseOf[f] = base
           /\ f \in Node /\ r \in alive /\ rep[f] \in alive
           /\ Replaced(f, base) \in [Node -> SUBSET Obj]
           /\ \A n \in Node : Replaced(f, base)[n] =
                 IF f \in pts[n] THEN (pts[n] \ {f}) \union {base} ELSE pts[n]
           /\ \/ rep[f] = r /\ pts' = Replaced(f, base) /\ UNCHANGED <<propa, graph>>
              \/ rep[f] # r /\ mergeSrcToTgt(rep[f], r, Replaced(f, base))
           /\ collapsing' = [collapsing EXCEPT !.fields = @ \ {f}]
           /\ f \in collapsing.fields
           /\ UNCHANGED <<fi, pc, toCollapse>>
    BY CollapseOneEffects
  <1>2. PICK P \in [Node -> SUBSET Obj] : P = Replaced(f, base)
    BY <1>1
  \* The points-to sets afterwards; a merged node keeps its own.
  <1>3. /\ alive \subseteq Node /\ alive' \subseteq alive
        /\ \A n \in Node : n \in alive \ alive' => rep'[n] # n
        /\ \A n \in Node : rep[n] # n => rep'[n] # n
        /\ \A n \in Node : rep'[n] # n => rep[n] # n \/ n \in alive
        /\ \A n \in Node : P[n] \subseteq pts'[n]
        /\ \A n \in Node : pts'[n] = P[n] \/ n \in alive
        /\ \A n \in alive : \A o \in pts'[n] : \E m \in alive : o \in P[m]
    <2>1. CASE rep[f] = r /\ pts' = P /\ UNCHANGED <<propa, graph>>
      BY <2>1 DEF graph, IInv, TypeInv, TypeOK
    <2>2. CASE rep[f] # r /\ mergeSrcToTgt(rep[f], r, P)
      <3>1. /\ rep[f] \in Node /\ r \in Node /\ rep[rep[f]] = rep[f] /\ rep[r] = r
            /\ \A n \in Node : pts'[n] = IF n = r THEN P[r] \union P[rep[f]] ELSE P[n]
            /\ \A n \in Node : rep'[n] = IF rep[n] = rep[f] THEN r ELSE rep[n]
            /\ alive' = alive \ {rep[f]}
        <4>1. Merged(rep[f], r, P)
          BY <1>1, <2>2, MergeEffects DEF IInv
        <4> QED
          BY <4>1 DEF Merged
      <3>2. alive \subseteq Node
        BY DEF IInv, TypeInv, TypeOK
      <3>3. \A n \in Node : rep[n] = r => rep'[n] = r
        BY <3>1
      <3>4. \A n \in Node : rep[n] # n => n \notin alive
        BY DEF IInv, GraphInv, RepsLive
      <3> QED
        BY <1>1, <2>2, <3>1, <3>2, <3>3, <3>4
    <2> QED
      BY <1>1, <1>2, <2>1, <2>2
  <1>4. Bare'
    <2> SUFFICES ASSUME NEW n \in Node, rep'[n] = n, n \notin alive' PROVE pts'[n] = {}
      BY DEF Bare
    <2>1. rep[n] = n /\ n \notin alive
      BY <1>3
    <2> QED
      BY <1>1, <1>2, <1>3, <2>1 DEF FieldInv, Bare
  <1>6. /\ collapsing'.base = collapsing.base /\ collapsing'.fields = collapsing.fields \ {f}
        /\ f # base /\ \A b \in collapsing.base : b = base
    <2>1. \A b \in collapsing.base : baseOf[f] = b
      BY <1>1 DEF IInv, AgendaInv, CollapsingLive
    <2>2. f # base
      BY <1>1 DEF FieldInv, FieldsListed
    <2>3. collapsing \in [base : SUBSET Obj, rep : SUBSET Node, fields : SUBSET Obj]
      BY DEF IInv, TypeInv, TypeOK
    <2> QED
      BY <1>1, <2>1, <2>2, <2>3
  <1>5. Queue'
    BY <1>1, <1>6 DEF FieldInv, Queue
  <1>7. \A n \in alive : \A o \in pts'[n] : o = base \/ (o # f /\ \E m \in alive : o \in pts[m])
    BY <1>1, <1>2, <1>3, <1>6
  <1>8. FieldsListed'
    <2>1. \A n \in alive' : \A o \in pts'[n] : baseOf[o] = base /\ o # base => o \in collapsing.fields /\ o # f
      BY <1>1, <1>3, <1>7 DEF FieldInv, FieldsListed
    <2>2. \A g \in collapsing.fields : g # base
      BY <1>1 DEF FieldInv, FieldsListed
    <2> QED
      BY <1>6, <2>1, <2>2 DEF FieldsListed
  <1>9. FieldsWanted'
    <2>1. \A g \in Obj : onGraph(g)' => onGraph(g)
      BY <1>3 DEF onGraph, Node
    <2>2. \A g \in Obj : g # f /\ (\E n \in Node : g \in pts[n]) => \E n \in Node : g \in pts'[n]
      BY <1>1, <1>2, <1>3
    <2>3. \A g \in collapsing'.fields : g \in Obj /\ g # f /\ g \in collapsing.fields
      BY <1>6 DEF IInv, TypeInv, TypeOK
    <2>4. ASSUME NEW g \in Obj, isField(g), onGraph(g)', (~isFieldInsensitive(g) \/ baseOf[g] \in toCollapse)'
          PROVE  \E n \in Node : g \in pts'[n]
      <3>1. onGraph(g) /\ (~isFieldInsensitive(g) \/ baseOf[g] \in toCollapse)
        BY <1>1, <2>1, <2>4 DEF isFieldInsensitive
      <3>2. \E n \in Node : g \in pts[n]
        BY <2>4, <3>1 DEF FieldInv, FieldsWanted
      <3>3. CASE g # f
        BY <2>2, <3>2, <3>3
      <3>4. CASE g = f
        BY <1>1, <3>1, <3>4 DEF FieldInv, Queue, isFieldInsensitive
      <3> QED
        BY <3>3, <3>4
    <2> QED
      BY <2>2, <2>3, <2>4 DEF FieldInv, FieldsWanted, isField
  <1>10. NoStaleField'
    <2> SUFFICES ASSUME NEW n \in alive', NEW o \in pts'[n], isField(o), isFieldInsensitive(o)
                 PROVE  baseOf[o] \in toCollapse \union collapsing.base
      BY <1>1, <1>6 DEF NoStaleField, isFieldInsensitive, isField
    <2>1. PICK m \in alive : o \in pts[m]
      BY <1>1, <1>3, <1>7 DEF isField
    <2> QED
      BY <2>1 DEF FieldInv, NoStaleField
  <1> QED
    BY <1>4, <1>5, <1>8, <1>9, <1>10 DEF FieldInv

LEMMA EndCollapseFieldFields ==
    ASSUME IInv, FieldInv, endCollapseField
    PROVE  FieldInv'
  <1>1. /\ UNCHANGED <<rep, alive, pts, fi, toCollapse, pc>>
        /\ collapsing.fields = {} /\ collapsing'.base = {} /\ collapsing'.fields = {}
    BY DEF endCollapseField, graph, facts, NotCollapsing
  <1>2. Bare' /\ Queue' /\ FieldsListed' /\ FieldsWanted'
    BY <1>1 DEF FieldInv, Bare, Queue, FieldsListed, FieldsWanted, onGraph, isFieldInsensitive, isField
  <1>3. NoStaleField'
    BY <1>1 DEF FieldInv, FieldsListed, NoStaleField, isFieldInsensitive, isField
  <1> QED
    BY <1>2, <1>3 DEF FieldInv

(* processNode on a node that is still its own representative, exactly. *)
LEMMA ProcessNodeEffects ==
    ASSUME IInv, processNode, rep[current] = current
    PROVE  /\ fi' = fi \union losesFields(current, Diff)
           /\ toCollapse' = losesFields(current, Diff)
           /\ Diff = pts[current] \ propa[current]
           /\ \A d \in Node : pts'[d] = pts[d] \union flowTo(current, d, Diff)
           /\ alive' = alive \union {f \in GepFields : rep[f] = f}
           /\ worklist' = worklist \union changedBy(current, Diff)
           /\ \A o \in Obj : baseOf[o] \in losesFields(current, Diff) => ~isFieldInsensitive(o)
           /\ \A b \in losesFields(current, Diff) : baseOf[b] = b
  <1>1. /\ fi' = fi \union losesFields(current, Diff)
        /\ toCollapse' = losesFields(current, Diff)
        /\ worklist' = worklist \union changedBy(current, Diff)
    BY DEF processNode, Diff
  <1>2. Diff \subseteq Obj
    BY FlowTypes DEF IInv
  <1>3. \A b \in losesFields(current, Diff) : \E x \in Obj : b = baseOf[x] /\ ~isFieldInsensitive(x)
    BY <1>2 DEF losesFields
  <1>4. \A b \in losesFields(current, Diff) : baseOf[b] = b /\ b \notin fi
    BY <1>3, ConsGAssumption DEF ConsGAssumption, isFieldInsensitive
  <1>5. \A o \in Obj : baseOf[o] \in losesFields(current, Diff) => ~isFieldInsensitive(o)
    BY <1>4 DEF isFieldInsensitive
  <1> QED
    BY <1>1, <1>4, <1>5, ProcessNodeSteps DEF Diff

LEMMA ProcessNodeFields ==
    ASSUME IInv, FieldInv, processNode
    PROVE  FieldInv'
  <1>1. /\ pc = "visit" /\ pc' = "wave" /\ collapsing = NotCollapsing
        /\ UNCHANGED <<rep, edges, collapsing>>
    BY DEF processNode, idle
  <1>2. toCollapse = {}
    BY <1>1 DEF FieldInv, Queue
  <1>3. CASE rep[current] # current
    <2>1. UNCHANGED <<rep, alive, pts, fi, toCollapse, collapsing>>
      BY <1>1, <1>3 DEF processNode, facts
    <2>2. Queue'
      BY <1>1, <1>2, <2>1 DEF Queue
    <2> QED
      BY <2>1, <2>2, SameFields
  <1>4. CASE rep[current] = current
    <2> DEFINE L == losesFields(current, Diff)
    <2>1. /\ fi' = fi \union L /\ toCollapse' = L
          /\ Diff = pts[current] \ propa[current]
          /\ \A d \in Node : pts'[d] = pts[d] \union flowTo(current, d, Diff)
          /\ alive' = alive \union {f \in GepFields : rep[f] = f}
          /\ \A o \in Obj : baseOf[o] \in L => ~isFieldInsensitive(o)
          /\ \A b \in L : baseOf[b] = b
      BY <1>4, ProcessNodeEffects
    <2> HIDE DEF L
    <2>2. /\ edges \subseteq Edge /\ alive \subseteq Node /\ current \in Node
          /\ \A e \in edges : e.src \in alive /\ e.dst \in alive
          /\ Diff \subseteq Obj /\ \A n \in Node : pts[n] \subseteq Obj
      BY FlowTypes DEF IInv, TypeInv, TypeOK, GraphInv, EdgesLive
    <2>3. Bare'
      <3> SUFFICES ASSUME NEW n \in Node, rep[n] = n, n \notin alive' PROVE pts'[n] = {}
        BY <1>1 DEF Bare
      <3>1. n \notin alive /\ pts[n] = {}
        BY <2>1 DEF FieldInv, Bare
      <3>2. flowTo(current, n, Diff) = {}
        BY <2>2, <3>1 DEF flowTo
      <3> QED
        BY <2>1, <3>1, <3>2
    <2>4. Queue' /\ FieldsListed'
      BY <1>1, <2>1 DEF Queue, FieldsListed, NotCollapsing
    <2>5. FieldsWanted'
      <3> SUFFICES ASSUME NEW f \in Obj, isField(f), onGraph(f)',
                          (~isFieldInsensitive(f) \/ baseOf[f] \in toCollapse)'
                   PROVE  \E n \in Node : f \in pts'[n]
        BY <1>1 DEF FieldsWanted, NotCollapsing, isField
      <3>1. CASE onGraph(f)
        <4>1. ~isFieldInsensitive(f)
          BY <2>1 DEF isFieldInsensitive
        <4>2. \E n \in Node : f \in pts[n]
          BY <3>1, <4>1 DEF FieldInv, FieldsWanted
        <4> QED
          BY <2>1, <4>2
      <3>2. CASE ~onGraph(f)
        <4>1. f \in GepFields
          BY <1>1, <2>1, <3>2 DEF onGraph
        <4>2. PICK e \in edges, o \in Diff : e.kind = "ngep" /\ e.src = current /\ f = edgeTarget(e, o)
          BY <4>1 DEF GepFields, gepFields, OfKind
        <4>3. f \in flowTo(current, e.dst, Diff)
          BY <4>2 DEF flowTo, DirectKind, GepKind
        <4> QED
          BY <2>1, <2>2, <4>2, <4>3
      <3> QED
        BY <3>1, <3>2
    <2>6. \A n \in Node : n \in alive \/ rep[n] = n =>
              \A o \in pts[n] : isField(o) => ~isFieldInsensitive(o)
      BY <1>1, <1>2 DEF FieldInv, Bare, NoStaleField, NotCollapsing
    <2>7. NoStaleField'
      <3> SUFFICES ASSUME NEW n \in alive', NEW o \in pts'[n], isField(o), baseOf[o] \in fi
                   PROVE  FALSE
        BY <2>1 DEF NoStaleField, isFieldInsensitive, isField
      <3>1. n \in Node /\ (n \in alive \/ rep[n] = n)
        BY <2>1, <2>2, FlowTypes DEF IInv, Node
      <3>2. CASE o \in pts[n]
        BY <2>6, <3>1, <3>2 DEF isFieldInsensitive
      <3>3. CASE o \in flowTo(current, n, Diff)
        <4>1. PICK e \in edges, x \in Diff : e.kind \in DirectKind /\ o = edgeTarget(e, x)
          BY <3>3 DEF flowTo
        <4>2. e \in Edge /\ x \in Obj /\ x \in pts[current]
          BY <2>1, <2>2, <4>1
        <4>3. o = x \/ o = baseOf[x] \/ (e.kind = "ngep" /\ ~isFieldInsensitive(x) /\ o = fieldOf[<<x, e.off>>])
          BY <4>1 DEF edgeTarget, DirectKind, GepKind
        <4>4. CASE o = x
          BY <1>4, <2>2, <2>6, <4>2, <4>4 DEF isFieldInsensitive
        <4>5. CASE o = baseOf[x]
          BY <4>2, <4>5, ConsGAssumption DEF ConsGAssumption, isField
        <4>6. CASE e.kind = "ngep" /\ ~isFieldInsensitive(x) /\ o = fieldOf[<<x, e.off>>]
          <5>1. e.off \in Offset
            BY <4>2, <4>6 DEF Edge
          <5> QED
            BY <4>2, <4>6, <5>1, ConsGAssumption DEF ConsGAssumption, isFieldInsensitive
        <4> QED
          BY <4>3, <4>4, <4>5, <4>6
      <3> QED
        BY <2>1, <3>1, <3>2, <3>3
    <2> QED
      BY <2>3, <2>4, <2>5, <2>7 DEF FieldInv
  <1> QED
    BY <1>3, <1>4

LEMMA NextFields == IInv /\ FieldInv /\ [Next]_vars => FieldInv'
  <1> SUFFICES ASSUME IInv, FieldInv, [Next]_vars PROVE FieldInv'
    OBVIOUS
  <1>1. CASE \/ SCCDetect \/ endWave \/ updateCallGraph \/ endRound
             \/ UNCHANGED vars \/ (\E n \in Node : visit(n) \/ postProcessNode(n))
             \/ (\E s, d \in Node : addCopyEdge(s, d))
    <2>1. UNCHANGED <<rep, alive, pts, fi, toCollapse, collapsing>>
      BY <1>1 DEF SCCDetect, endWave, updateCallGraph, endRound, visit, postProcessNode,
                  addCopyEdge, vars, graph, facts, control
    <2>2. pc' # "wave" => toCollapse = {}
      BY <1>1 DEF FieldInv, Queue, SCCDetect, endWave, updateCallGraph, endRound, visit, postProcessNode,
                  addCopyEdge, vars, control
    <2>3. Queue'
      BY <2>1, <2>2 DEF FieldInv, Queue
    <2> QED
      BY <2>1, <2>3, SameFields
  <1> QED
    BY <1>1, MergeFields, CollapseFieldFields, CollapseOneFields, EndCollapseFieldFields,
       ProcessNodeFields DEF Next, finished

(* However structures are collapsed, whatever merges happen meanwhile: once  *)
(* an object is field-insensitive no live pointer keeps one of its fields    *)
(* (processGepPts, collapseField, setObjFieldInsensitive).                   *)
THEOREM FieldsCollapse == Spec => []NoStaleField
  <1>1. Init => IInv /\ FieldInv
    BY InitInv, InitFields
  <1>2. (IInv /\ FieldInv) /\ [Next]_vars => (IInv /\ FieldInv)'
    BY NextInv, NextFields
  <1>3. IInv /\ FieldInv => NoStaleField
    BY DEF FieldInv
  <1> QED
    BY <1>1, <1>2, <1>3, PTL DEF Spec

-----------------------------------------------------------------------------
(* One wave.  As long as nothing asked for another round, a live node is     *)
(* still to be visited, still to be merged, or has propagated everything;    *)
(* and every edge leads from where its source is headed to a node later in   *)
(* the order, so that what a visit changes is still to be visited.           *)
NoSelf == /\ \A e \in edges : e.kind \in DirectKind => e.src # e.dst
          /\ \A c \in newCopies : c[1] # c[2]
Settled(n) == pts[n] \subseteq propa[n]
Waiting(n) == \E r \in Node : <<n, r>> \in merges
Heads(n, r) == <<n, r>> \in merges \/ (n = r /\ ~Waiting(n))
Unvisited(n) == n \in left \/ (pc = "visit" /\ n = current)
AllMet == \A n \in alive : Unvisited(n) \/ Waiting(n) \/ Settled(n)
MergesAhead == \A p \in merges : p[2] \in left
EdgesOrdered ==
    \A e \in edges : e.kind \in DirectKind =>
        \A x, y \in Node : Heads(e.src, x) /\ Heads(e.dst, y) => x = y \/ <<x, y>> \in before
OrderAhead == \A p \in before : p[1] # p[2] /\ (Unvisited(p[1]) => p[2] \in left)
InWave == AllMet /\ MergesAhead /\ EdgesOrdered /\ OrderAhead
AllSettled == \A n \in alive : Settled(n)
WaveInv == /\ ~reanalyze /\ pc \in {"wave", "visit"} => InWave
           /\ ~reanalyze /\ pc \in {"post", "connect", "done"} => AllSettled
\* A round that ends for good has found no call edge and left no work.
EndInv == /\ pc = "connect" /\ newCopies # {} => reanalyze
          /\ pc = "done" => ~reanalyze
          /\ ~reanalyze /\ pc \in {"connect", "done"} => newCallEdges = {} /\ worklist = {}
SolveInv == NoSelf /\ WaveInv /\ EndInv

(* Merging drops the edges inside the cycle, so none becomes a self edge. *)
LEMMA MoveNoSelf ==
    ASSUME NEW E \in SUBSET Edge, NEW s \in Node, NEW r \in Node, s # r,
           \A e \in E : e.kind \in DirectKind => e.src # e.dst,
           NEW e \in moveEdgesToRepNode(E, s, r), e.kind \in DirectKind
    PROVE  e.src # e.dst
  <1> DEFINE I == moveInEdgesToRepNode(E, s, r)
  <1>1. ASSUME NEW y \in I, y.kind \in DirectKind
        PROVE  y.src # y.dst /\ y.dst # s
    <2>1. CASE y \in E \ InEdge(E, s)
      BY <1>1, <2>1 DEF InEdge
    <2>2. CASE \E x \in InEdge(E, s) : ~insideSCC(x, r) /\ y = [x EXCEPT !.dst = r]
      <3>1. PICK x \in E : x.dst = s /\ ~insideSCC(x, r) /\ y = [x EXCEPT !.dst = r]
        BY <2>2 DEF InEdge
      <3>2. x \in Edge
        OBVIOUS
      <3>3. y.kind = x.kind /\ y.src = x.src /\ y.dst = r
        BY <3>1, <3>2 DEF Edge
      <3> QED
        BY <1>1, <3>1, <3>3 DEF insideSCC
    <2> QED
      BY <1>1, <2>1, <2>2 DEF moveInEdgesToRepNode, addEdges
  <1>2. I \in SUBSET Edge
    BY MoveIn
  <1>3. e \in moveOutEdgesToRepNode(I, s, r)
    BY DEF moveEdgesToRepNode
  <1> HIDE DEF I
  <1>4. CASE e \in I \ OutEdge(I, s)
    BY <1>1, <1>4
  <1>5. CASE \E x \in OutEdge(I, s) : ~insideSCC(x, r) /\ e = [x EXCEPT !.src = r]
    <2>1. PICK x \in I : x.src = s /\ ~insideSCC(x, r) /\ e = [x EXCEPT !.src = r]
      BY <1>5 DEF OutEdge
    <2>2. x \in Edge
      BY <1>2
    <2>3. e.kind = x.kind /\ e.dst = x.dst /\ e.src = r
      BY <2>1, <2>2 DEF Edge
    <2> QED
      BY <2>1, <2>3 DEF insideSCC
  <1> QED
    BY <1>3, <1>4, <1>5 DEF moveOutEdgesToRepNode, addEdges

(* Two nodes joined by an edge reach each other in its direction. *)
LEMMA EdgeReaches ==
    ASSUME NEW E, NEW N, NEW e \in E, e.kind \in DirectKind, e.src \in N, e.dst \in N
    PROVE  <<e.src, e.dst>> \in Reaches(E, N)
  <1> SUFFICES ASSUME <<e.src, e.dst>> \in Apart(E, N) PROVE FALSE
    BY DEF Reaches
  <1>1. PICK S \in ClosedSets(E, N) : e.src \in S /\ e.dst \in N \ S
    BY DEF Apart
  <1>2. e.dst \in directSuccs(E, S)
    BY <1>1 DEF directSuccs
  <1> QED
    BY <1>1, <1>2 DEF ClosedSets

LEMMA ReachReflexive ==
    ASSUME NEW E, NEW N, NEW n \in N
    PROVE  <<n, n>> \in Reaches(E, N)
  BY DEF Reaches, Apart

LEMMA InitSolve == Init => SolveInv
  <1> SUFFICES ASSUME Init PROVE SolveInv
    OBVIOUS
  <1>1. \A e \in prog.stmts : e.kind \in DirectKind => e.src # e.dst
    BY AndersenAssumption DEF AndersenAssumption, Init
  <1> QED
    BY <1>1 DEF Init, SolveInv, NoSelf, WaveInv, EndInv

LEMMA SCCDetectSolve ==
    ASSUME IInv, SolveInv, SCCDetect
    PROVE  SolveInv'
  <1>1. /\ pc' = "wave" /\ UNCHANGED <<edges, alive, pts, propa, reanalyze, newCopies, rep>>
        /\ alive \subseteq Node /\ \A e \in edges : e.src \in alive /\ e.dst \in alive
    BY DEF SCCDetect, graph, facts, IInv, TypeInv, TypeOK, GraphInv, EdgesLive
  <1> DEFINE reach == Reaches(edges, alive)
  <1>2. PICK R \in SUBSET alive :
           /\ \A n \in alive : \E r \in R : sameSCC(reach, n, r)
           /\ merges' = {p \in (alive \ R) \X R : sameSCC(reach, p[1], p[2])}
           /\ left' = R
           /\ before' = inOrder(reach, R)
    BY DEF SCCDetect
  <1>3. NoSelf' /\ EndInv'
    BY <1>1 DEF SolveInv, NoSelf, EndInv
  <1>4. AllMet'
    <2> SUFFICES ASSUME NEW n \in alive PROVE (Unvisited(n) \/ Waiting(n))'
      BY <1>1 DEF AllMet
    <2>1. PICK r \in R : sameSCC(reach, n, r)
      BY <1>2
    <2>2. CASE n \in R
      BY <1>2, <2>2 DEF Unvisited
    <2>3. CASE n \notin R
      <3>1. <<n, r>> \in merges' /\ r \in Node
        BY <1>1, <1>2, <2>1, <2>3
      <3> QED
        BY <3>1 DEF Waiting
    <2> QED
      BY <2>2, <2>3
  <1>5. MergesAhead'
    BY <1>2 DEF MergesAhead
  <1>6. OrderAhead'
    BY <1>2 DEF OrderAhead, inOrder
  <1>7. ASSUME NEW n \in alive, NEW x \in Node, Heads(n, x)'
        PROVE  x \in R /\ <<n, x>> \in reach /\ <<x, n>> \in reach
    <2>1. CASE <<n, x>> \in merges'
      BY <1>2, <2>1 DEF sameSCC
    <2>2. CASE n = x /\ ~Waiting(n)'
      <3>1. n \in R
        <4>1. PICK r \in R : sameSCC(reach, n, r)
          BY <1>2
        <4>2. n \notin R => <<n, r>> \in merges' /\ r \in Node
          BY <1>1, <1>2, <4>1
        <4> QED
          BY <2>2, <4>2 DEF Waiting
      <3> QED
        BY <2>2, <3>1, ReachReflexive
    <2> QED
      BY <1>7, <2>1, <2>2 DEF Heads
  <1>8. EdgesOrdered'
    <2> SUFFICES ASSUME NEW e \in edges, e.kind \in DirectKind, NEW x \in Node, NEW y \in Node,
                        Heads(e.src, x)', Heads(e.dst, y)', x # y
                 PROVE  <<x, y>> \in before'
      BY <1>1 DEF EdgesOrdered
    <2>1. e.src \in alive /\ e.dst \in alive
      BY <1>1
    <2>2. /\ x \in R /\ <<x, e.src>> \in reach
          /\ y \in R /\ <<e.dst, y>> \in reach
      BY <1>7, <2>1
    <2>3. <<e.src, e.dst>> \in reach
      BY <2>1, EdgeReaches
    <2>4. x \in alive /\ y \in alive
      BY <2>2
    <2>5. <<x, e.dst>> \in reach
      BY <2>1, <2>2, <2>3, <2>4, ReachTransitive
    <2>6. <<x, y>> \in reach
      BY <2>1, <2>2, <2>4, <2>5, ReachTransitive
    <2> QED
      BY <1>2, <2>2, <2>6 DEF inOrder
  <1> QED
    BY <1>1, <1>3, <1>4, <1>5, <1>6, <1>8 DEF SolveInv, WaveInv, InWave

LEMMA MergeSolve ==
    ASSUME IInv, SolveInv, NEW s \in Node, NEW r \in Node, mergeSccNode(s, r)
    PROVE  SolveInv'
  <1>1. s \in alive /\ r \in alive /\ s # r /\ pc = "wave"
    BY DEF IInv, AgendaInv, MergesDisjoint, mergeSccNode, OneAtATime
  <1>2. /\ pts \in [Node -> SUBSET Obj] /\ mergeSrcToTgt(s, r, pts)
        /\ UNCHANGED <<pc, reanalyze, newCopies, left, before>>
        /\ merges' = merges \ {<<s, r>>} /\ <<s, r>> \in merges /\ merges \subseteq Node \X Node
        /\ edges \in SUBSET Edge
    BY DEF IInv, TypeInv, TypeOK, mergeSccNode
  <1>3. /\ \A n \in Node : n # r => pts'[n] = pts[n] /\ propa'[n] = propa[n]
        /\ alive' = alive \ {s}
        /\ edges' = moveEdgesToRepNode(edges, s, r)
    <2>1. PICK P \in [Node -> SUBSET Obj] : P = pts /\ mergeSrcToTgt(s, r, P)
      BY <1>2
    <2>2. Merged(s, r, P)
      BY <1>1, <2>1, MergeEffects DEF IInv
    <2> QED
      BY <2>1, <2>2 DEF Merged
  <1>4. NoSelf'
    <2>1. \A e \in edges' : e.kind \in DirectKind => e.src # e.dst
      BY <1>1, <1>2, <1>3, MoveNoSelf DEF SolveInv, NoSelf
    <2> QED
      BY <1>2, <2>1 DEF SolveInv, NoSelf
  <1>5. EndInv'
    BY <1>1, <1>2 DEF EndInv
  <1>6. SUFFICES ASSUME InWave PROVE InWave'
    BY <1>1, <1>2, <1>4, <1>5 DEF SolveInv, WaveInv
  <1>7. \A n \in Node : n # s => (Waiting(n)' <=> Waiting(n))
    BY <1>2 DEF Waiting
  <1>8. \A p \in merges : p[1] # r
    BY <1>2 DEF IInv, AgendaInv, MergesDisjoint
  <1>9. ASSUME NEW n \in Node, NEW a \in Node, Heads(IF n = s THEN r ELSE n, a)'
        PROVE  Heads(n, a)
    <2>1. CASE n = s
      <3>1. Heads(r, a)' /\ <<r, a>> \notin merges
        BY <1>8, <1>9, <2>1
      <3>2. a = r
        BY <1>2, <3>1 DEF Heads
      <3> QED
        BY <1>2, <2>1, <3>2 DEF Heads
    <2>2. CASE n # s
      BY <1>2, <1>7, <1>9, <2>2 DEF Heads
    <2> QED
      BY <2>1, <2>2
  <1>10. AllMet'
    <2> SUFFICES ASSUME NEW n \in alive' PROVE (Unvisited(n) \/ Waiting(n) \/ Settled(n))'
      BY DEF AllMet
    <2>1. n \in alive /\ n \in Node /\ n # s
      BY <1>3 DEF IInv, TypeInv, TypeOK
    <2>2. CASE n = r
      BY <1>2, <1>6, <2>2 DEF InWave, MergesAhead, Unvisited
    <2>3. CASE n # r
      <3>1. Settled(n) => Settled(n)'
        BY <1>3, <2>1, <2>3 DEF Settled
      <3>2. Unvisited(n) => Unvisited(n)'
        BY <1>1, <1>2 DEF Unvisited
      <3> QED
        BY <1>6, <1>7, <2>1, <3>1, <3>2 DEF InWave, AllMet
    <2> QED
      BY <2>2, <2>3
  <1>11. MergesAhead' /\ OrderAhead'
    BY <1>1, <1>2, <1>6 DEF InWave, MergesAhead, OrderAhead, Unvisited
  <1>12. EdgesOrdered'
    <2> SUFFICES ASSUME NEW e \in edges', e.kind \in DirectKind, NEW x \in Node, NEW y \in Node,
                        Heads(e.src, x)', Heads(e.dst, y)', x # y
                 PROVE  <<x, y>> \in before'
      BY DEF EdgesOrdered
    <2>1. PICK d \in edges : /\ e.kind = d.kind
                             /\ e.src = IF d.src = s THEN r ELSE d.src
                             /\ e.dst = IF d.dst = s THEN r ELSE d.dst
      BY <1>1, <1>2, <1>3, MoveEdges
    <2>2. d.src \in Node /\ d.dst \in Node
      BY <1>2 DEF Edge
    <2>3. Heads(d.src, x) /\ Heads(d.dst, y)
      BY <1>9, <2>1, <2>2
    <2> QED
      BY <1>2, <1>6, <2>1, <2>3 DEF InWave, EdgesOrdered
  <1> QED
    BY <1>10, <1>11, <1>12 DEF InWave

(* Collapsing a structure some field of which exists asks for another round. *)
LEMMA CollapseOneSolve ==
    ASSUME IInv, FieldInv, SolveInv, NEW f \in Obj, collapseOneField(f)
    PROVE  SolveInv'
  <1>1. PICK base \in collapsing.base, r \in collapsing.rep :
           /\ f \in collapsing.fields /\ r \in alive /\ rep[f] \in alive
           /\ Replaced(f, base) \in [Node -> SUBSET Obj]
           /\ \/ UNCHANGED graph
              \/ rep[f] # r /\ mergeSrcToTgt(rep[f], r, Replaced(f, base))
           /\ reanalyze' = (reanalyze \/ \E n \in Node : f \in pts[n])
           /\ UNCHANGED <<pc, newCopies>>
           /\ pc \in {"wave", "visit"}
    BY CollapseOneEffects
  <1>2. reanalyze' = TRUE
    BY <1>1 DEF FieldInv, FieldsWanted
  <1>3. WaveInv' /\ EndInv'
    BY <1>1, <1>2 DEF WaveInv, EndInv
  <1>4. \A e \in edges' : e.kind \in DirectKind => e.src # e.dst
    <2>1. CASE UNCHANGED graph
      BY <2>1 DEF graph, SolveInv, NoSelf
    <2>2. CASE rep[f] # r /\ mergeSrcToTgt(rep[f], r, Replaced(f, base))
      <3>1. edges' = moveEdgesToRepNode(edges, rep[f], r)
        BY <2>2 DEF mergeSrcToTgt
      <3>2. rep[f] \in Node /\ r \in Node /\ edges \in SUBSET Edge
        BY <1>1 DEF IInv, TypeInv, TypeOK
      <3> QED
        BY <2>2, <3>1, <3>2, MoveNoSelf DEF SolveInv, NoSelf
    <2> QED
      BY <1>1, <2>1, <2>2
  <1> QED
    BY <1>1, <1>3, <1>4 DEF SolveInv, NoSelf

(* Collapsing steps that move no target and no edge. *)
LEMMA CollapseSolve ==
    ASSUME SolveInv, endCollapseField \/ \E o \in Obj : collapseField(o), OneAtATime
    PROVE  SolveInv'
  <1>1. /\ UNCHANGED <<edges, alive, rep, pts, propa, reanalyze, pc, merges, left, before, current, newCopies>>
    BY DEF endCollapseField, collapseField, graph, facts
  <1>2. pc \in {"wave", "visit"}
    BY DEF endCollapseField, collapseField, OneAtATime, NotCollapsing
  <1>3. InWave => InWave'
    BY <1>1 DEF InWave, AllMet, MergesAhead, EdgesOrdered, OrderAhead, Unvisited, Waiting, Heads, Settled
  <1> QED
    BY <1>1, <1>2, <1>3 DEF SolveInv, NoSelf, WaveInv, EndInv

LEMMA VisitSolve ==
    ASSUME IInv, SolveInv, NEW n \in Node, visit(n)
    PROVE  SolveInv'
  <1>1. /\ pc = "wave" /\ pc' = "visit" /\ merges = {} /\ left' = left \ {n} /\ current' = n
        /\ n \in left /\ \A m \in left : <<m, n>> \notin before
        /\ UNCHANGED <<edges, alive, pts, propa, reanalyze, merges, before, newCopies>>
    BY DEF visit, graph, facts, idle
  <1>2. NoSelf' /\ EndInv'
    BY <1>1 DEF SolveInv, NoSelf, EndInv
  <1>3. SUFFICES ASSUME InWave PROVE InWave'
    BY <1>1, <1>2 DEF SolveInv, WaveInv
  <1>4. \A m : Unvisited(m)' <=> Unvisited(m)
    BY <1>1 DEF Unvisited
  <1>5. AllMet' /\ MergesAhead' /\ EdgesOrdered'
    BY <1>1, <1>3, <1>4 DEF InWave, AllMet, MergesAhead, EdgesOrdered, Waiting, Heads, Settled
  <1>6. OrderAhead'
    <2> SUFFICES ASSUME NEW p \in before, Unvisited(p[1]) PROVE p[1] # p[2] /\ p[2] \in left'
      BY <1>1, <1>3, <1>4 DEF InWave, OrderAhead
    <2>1. p[1] # p[2] /\ p[2] \in left /\ p[1] \in left
      BY <1>1, <1>3 DEF InWave, OrderAhead, Unvisited
    <2>2. p = <<p[1], p[2]>>
      BY DEF IInv, TypeInv, TypeOK
    <2> QED
      BY <1>1, <2>1, <2>2
  <1> QED
    BY <1>5, <1>6 DEF InWave

LEMMA ProcessNodeSolve ==
    ASSUME IInv, FieldInv, SolveInv, processNode
    PROVE  SolveInv'
  <1>1. /\ pc = "visit" /\ pc' = "wave" /\ merges = {}
        /\ UNCHANGED <<edges, rep, reanalyze, merges, left, before, newCopies>>
    BY DEF processNode, idle
  <1>2. NoSelf' /\ EndInv'
    BY <1>1 DEF SolveInv, NoSelf, EndInv
  <1>3. SUFFICES ASSUME InWave PROVE InWave'
    BY <1>1, <1>2 DEF SolveInv, WaveInv
  <1>4. MergesAhead' /\ EdgesOrdered' /\ OrderAhead'
    BY <1>1, <1>3 DEF InWave, MergesAhead, EdgesOrdered, OrderAhead, Waiting, Heads, Unvisited
  <1>5. AllMet'
    <2>1. CASE rep[current] # current
      <3>1. UNCHANGED <<pts, propa, alive>>
        BY <2>1 DEF processNode, facts
      <3>2. current \notin alive
        BY <2>1 DEF IInv, TypeInv, TypeOK, GraphInv, RepsLive
      <3> QED
        BY <1>1, <1>3, <3>1, <3>2 DEF InWave, AllMet, Unvisited, Waiting, Settled
    <2>2. CASE rep[current] = current
      <3> SUFFICES ASSUME NEW n \in alive', n \notin left PROVE pts'[n] \subseteq propa'[n]
        BY <1>1 DEF AllMet, Unvisited, Settled
      <3>1. /\ propa' = [propa EXCEPT ![current] = pts[current]]
            /\ \A d \in Node : pts'[d] = pts[d] \union flowTo(current, d, Diff)
            /\ alive' = alive \union {f \in GepFields : rep[f] = f}
        BY <2>2, ProcessNodeSteps
      <3>2. /\ GepFields \subseteq Node /\ alive \subseteq Node /\ current \in Node
            /\ propa \in [Node -> SUBSET Obj] /\ edges \subseteq Edge
            /\ \A e \in edges : e.src \in alive /\ e.dst \in alive
        BY FlowTypes DEF IInv, TypeInv, TypeOK, Node, GraphInv, EdgesLive
      <3>3. \A e \in edges : ~(e.kind \in DirectKind /\ e.src = current /\ e.dst = n)
        <4> SUFFICES ASSUME NEW e \in edges, e.kind \in DirectKind, e.src = current, e.dst = n PROVE FALSE
          OBVIOUS
        <4>1. Heads(current, current) /\ Heads(n, n)
          BY <1>1 DEF Heads, Waiting
        <4>2. current # n
          BY DEF SolveInv, NoSelf
        <4>3. <<current, n>> \in before
          BY <1>3, <3>1, <3>2, <4>1, <4>2 DEF InWave, EdgesOrdered
        <4> QED
          BY <1>1, <1>3, <4>3 DEF InWave, OrderAhead, Unvisited
      <3>4. flowTo(current, n, Diff) = {}
        BY <3>3 DEF flowTo
      <3>5. n \in Node /\ pts'[n] = pts[n]
        BY <3>1, <3>2, <3>4
      <3>6. CASE n = current
        BY <3>1, <3>2, <3>5, <3>6
      <3>7. CASE n # current /\ n \in alive
        BY <1>1, <1>3, <3>1, <3>2, <3>5, <3>7 DEF InWave, AllMet, Unvisited, Waiting, Settled
      <3>8. CASE n \notin alive
        BY <3>1, <3>5, <3>8 DEF FieldInv, Bare
      <3> QED
        BY <3>6, <3>7, <3>8
    <2> QED
      BY <2>1, <2>2
  <1> QED
    BY <1>4, <1>5 DEF InWave

LEMMA EndWaveSolve ==
    ASSUME SolveInv, endWave
    PROVE  SolveInv'
  <1>1. /\ pc = "wave" /\ pc' = "post" /\ merges = {} /\ left = {}
        /\ UNCHANGED <<edges, alive, pts, propa, reanalyze, newCopies>>
    BY DEF endWave, graph, facts, idle
  <1>2. InWave => AllSettled'
    BY <1>1 DEF InWave, AllMet, AllSettled, Unvisited, Waiting, Settled
  <1> QED
    BY <1>1, <1>2 DEF SolveInv, NoSelf, WaveInv, EndInv

LEMMA AfterWaveSolve ==
    ASSUME IInv, SolveInv, updateCallGraph \/ endRound \/ \E n \in Node : postProcessNode(n)
    PROVE  SolveInv'
  <1>1. UNCHANGED <<edges, alive, rep, pts, propa, prog>>
    BY DEF updateCallGraph, endRound, postProcessNode, graph, facts
  <1>2. \A c \in newCopies' : c[1] # c[2]
    BY DEF updateCallGraph, endRound, postProcessNode, newCopyEdges, isNewCopyEdge, SolveInv, NoSelf
  <1>3. NoSelf'
    BY <1>1, <1>2 DEF SolveInv, NoSelf
  <1>4. AllSettled => AllSettled'
    BY <1>1 DEF AllSettled, Settled
  <1>5. CASE \E n \in Node : postProcessNode(n)
    BY <1>3, <1>4, <1>5 DEF postProcessNode, SolveInv, WaveInv, EndInv
  <1>6. CASE updateCallGraph
    <2>1. newCallEdges = {} => newCallEdges' = {} /\ newCopies' = {}
      BY <1>1, <1>6 DEF updateCallGraph, newCallEdges, callees, getPts, newCopyEdges
    <2>2. pc = "post" /\ pc' = "connect" /\ reanalyze' = (reanalyze \/ newCallEdges # {}) /\ worklist' = {}
      BY <1>6 DEF updateCallGraph
    <2> QED
      BY <1>3, <1>4, <2>1, <2>2 DEF SolveInv, WaveInv, EndInv
  <1>7. CASE endRound
    <2>1. newCallEdges' = newCallEdges
      BY <1>1, <1>7 DEF endRound, newCallEdges, callees, getPts
    <2>2. /\ pc = "connect" /\ pc' = (IF reanalyze THEN "detect" ELSE "done") /\ ~reanalyze'
          /\ worklist' = worklist
      BY <1>7 DEF endRound
    <2> QED
      BY <1>3, <1>4, <2>1, <2>2 DEF SolveInv, WaveInv, EndInv
  <1> QED
    BY <1>5, <1>6, <1>7

LEMMA AddCopyEdgeSolve ==
    ASSUME IInv, SolveInv, NEW s \in Node, NEW d \in Node, addCopyEdge(s, d)
    PROVE  SolveInv'
  <1>1. /\ <<s, d>> \in newCopies /\ newCopies' = newCopies \ {<<s, d>>}
        /\ edges' = edges \union {PlainEdge("copy", s, d)}
        /\ pc' = pc
        /\ pc = "post" => reanalyze' = TRUE
        /\ pc # "post" => reanalyze' = reanalyze
    BY DEF addCopyEdge
  <1>2. pc \in {"post", "connect"}
    BY <1>1 DEF IInv, AgendaInv, OneAtATime
  <1>3. reanalyze'
    BY <1>1, <1>2 DEF SolveInv, EndInv
  <1>4. NoSelf'
    BY <1>1 DEF SolveInv, NoSelf, PlainEdge
  <1> QED
    BY <1>1, <1>2, <1>3, <1>4 DEF SolveInv, WaveInv, EndInv

LEMMA StutterSolve ==
    ASSUME SolveInv, UNCHANGED vars
    PROVE  SolveInv'
  <1>1. UNCHANGED graph /\ UNCHANGED facts /\ UNCHANGED control /\ UNCHANGED <<prog, worklist, reanalyze, resolved>>
    BY DEF vars
  <1>2. UNCHANGED <<prog, edges, alive, rep, pts, propa, worklist, reanalyze, resolved,
                    pc, merges, left, before, current, newCopies>>
    BY <1>1 DEF graph, facts, control
  <1>3. newCallEdges' = newCallEdges
    BY <1>2 DEF newCallEdges, callees, getPts
  <1>4. InWave => InWave'
    BY <1>2 DEF InWave, AllMet, MergesAhead, EdgesOrdered, OrderAhead, Unvisited, Waiting, Heads, Settled
  <1>5. AllSettled => AllSettled'
    BY <1>2 DEF AllSettled, Settled
  <1> QED
    BY <1>2, <1>3, <1>4, <1>5 DEF SolveInv, NoSelf, WaveInv, EndInv

LEMMA NextSolve == IInv /\ FieldInv /\ SolveInv /\ [Next]_vars => SolveInv'
  <1> SUFFICES ASSUME IInv, FieldInv, SolveInv, [Next]_vars PROVE SolveInv'
    OBVIOUS
  <1>1. OneAtATime
    BY DEF IInv, AgendaInv
  <1> QED
    BY <1>1, SCCDetectSolve, MergeSolve, CollapseOneSolve, CollapseSolve, VisitSolve, ProcessNodeSolve,
       EndWaveSolve, AfterWaveSolve, AddCopyEdgeSolve, StutterSolve DEF Next, finished

THEOREM SolveInvariance == Spec => [](IInv /\ FieldInv /\ SolveInv)
  <1>1. Init => IInv /\ FieldInv /\ SolveInv
    BY InitInv, InitFields, InitSolve
  <1>2. (IInv /\ FieldInv /\ SolveInv) /\ [Next]_vars => (IInv /\ FieldInv /\ SolveInv)'
    BY NextInv, NextFields, NextSolve
  <1> QED
    BY <1>1, <1>2, PTL DEF Spec

(* One wave is enough: in a round in which nothing asked for another one,    *)
(* every live node has propagated all it points to although each was visited *)
(* once (solveWorklist, collapsePWCNode, collapseFields).                    *)
THEOREM OneWaveSuffices == Spec => []WaveComplete
  <1>1. IInv /\ FieldInv /\ SolveInv => WaveComplete
    BY DEF SolveInv, WaveInv, AllSettled, Settled, WaveComplete
  <1> QED
    BY <1>1, SolveInvariance, PTL

-----------------------------------------------------------------------------
(* The statements.  Through all merges the graph keeps an edge between the   *)
(* representatives for every copy, load, store and variable gep, unless a    *)
(* copy or gep joins a node with itself; of a normal gep, whose offset a     *)
(* merge may drop, this holds as long as neither of its ends is merged.      *)
WithoutOffset == {"copy", "vgep", "load", "store"}
EdgeOrSame(k, a, b) ==
    PlainEdge(k, rep[a], rep[b]) \in edges \/ (k \in DirectKind /\ rep[a] = rep[b])
Joined(a, b) == EdgeOrSame("copy", a, b)
Due(a, b) == Joined(a, b) \/ <<rep[a], rep[b]>> \in newCopies

StatementsKept == \A k \in WithoutOffset : \A e \in Stmts(k) : EdgeOrSame(k, e.src, e.dst)
NgepKept == \A e \in Stmts("ngep") : unmerged(e.src) /\ unmerged(e.dst) => e \in edges
AddrKept == \A e \in Stmts("addr") : covers(rep[e.dst], e.src)
CallsKept == \A c \in resolved : Due(c[1].arg, formal[c[2]]) /\ Due(funRet[c[2]], c[1].res)
LoadsDone(p, d) == p \in worklist \/ \A o \in pts[p] \ constObj : Due(o, d)
StoresDone(p, d) == p \in worklist \/ \A o \in pts[p] \ constObj : Due(d, o)
LoadStoresKept ==
    /\ \A e \in Stmts("load") : unmerged(e.src) => LoadsDone(e.src, e.dst)
    /\ \A e \in Stmts("store") : unmerged(e.dst) => StoresDone(e.dst, e.src)
KeptInv == StatementsKept /\ NgepKept /\ AddrKept /\ CallsKept /\ LoadStoresKept

Moved(s, r, n) == IF n = s THEN r ELSE n

(* Of edges without offset a merge drops only duplicates and what lies       *)
(* inside the cycle.                                                         *)
LEMMA PlainAdded ==
    ASSUME NEW E \in SUBSET Edge, NEW new, NEW k \in WithoutOffset, NEW a \in Node, NEW b \in Node,
           PlainEdge(k, a, b) \in new
    PROVE  PlainEdge(k, a, b) \in addEdges(E, new)
  <1>1. \A f \in E : SameEdge(f, PlainEdge(k, a, b)) => f = PlainEdge(k, a, b)
    <2> SUFFICES ASSUME NEW f \in E, f.kind = k, f.src = a, f.dst = b
                 PROVE  f = PlainEdge(k, a, b)
      BY DEF SameEdge, PlainEdge
    <2>1. f.off = 0 /\ f \in [kind : Kind, src : Node, dst : Node, off : Offset \union {0}]
      BY DEF Edge, WithoutOffset
    <2> QED
      BY <2>1 DEF PlainEdge
  <1>2. \A f : SameEdge(PlainEdge(k, a, b), f) <=> SameEdge(f, PlainEdge(k, a, b))
    BY DEF SameEdge
  <1> QED
    BY <1>1, <1>2 DEF addEdges, hasEdge

LEMMA MergeKeepsEdge ==
    ASSUME NEW E \in SUBSET Edge, NEW s \in Node, NEW r \in Node, s # r,
           NEW k \in WithoutOffset, NEW a \in Node, NEW b \in Node, PlainEdge(k, a, b) \in E
    PROVE  \/ PlainEdge(k, Moved(s, r, a), Moved(s, r, b)) \in moveEdgesToRepNode(E, s, r)
           \/ k \in DirectKind /\ Moved(s, r, a) = Moved(s, r, b)
  <1> SUFFICES ASSUME ~(k \in DirectKind /\ Moved(s, r, a) = Moved(s, r, b))
               PROVE  PlainEdge(k, Moved(s, r, a), Moved(s, r, b)) \in moveEdgesToRepNode(E, s, r)
    OBVIOUS
  <1> DEFINE I == moveInEdgesToRepNode(E, s, r)
             c == Moved(s, r, b)
             e == PlainEdge(k, a, b)
             y == PlainEdge(k, a, c)
  <1>0. k # "addr" /\ c \in Node /\ Moved(s, r, a) \in Node /\ c # s
    BY DEF WithoutOffset, Moved
  <1>1. y \in I
    <2>1. CASE b # s
      BY <2>1 DEF Moved, moveInEdgesToRepNode, addEdges, InEdge, PlainEdge
    <2>2. CASE b = s
      <3>1. e \in InEdge(E, s) /\ e.kind # "addr" /\ ~insideSCC(e, r)
        BY <1>0, <2>2 DEF InEdge, PlainEdge, insideSCC, Moved
      <3>2. y = [e EXCEPT !.dst = r]
        BY <2>2 DEF PlainEdge, Moved
      <3> DEFINE new == {[x EXCEPT !.dst = r] :
                            x \in {z \in InEdge(E, s) : z.kind # "addr" /\ ~insideSCC(z, r)}}
      <3>3. y \in new
        BY <3>1, <3>2
      <3>4. E \ InEdge(E, s) \in SUBSET Edge
        OBVIOUS
      <3> HIDE DEF new
      <3>5. y \in addEdges(E \ InEdge(E, s), new)
        BY <1>0, <3>3, <3>4, PlainAdded
      <3> QED
        BY <3>5 DEF new, moveInEdgesToRepNode
    <2> QED
      BY <2>1, <2>2
  <1>2. I \in SUBSET Edge
    BY MoveIn
  <1> HIDE DEF I
  <1>3. CASE a # s
    BY <1>1, <1>3 DEF Moved, moveEdgesToRepNode, moveOutEdgesToRepNode, addEdges, OutEdge, PlainEdge, I
  <1>4. CASE a = s
    <2>1. y \in OutEdge(I, s) /\ y.kind # "addr" /\ ~insideSCC(y, r)
      BY <1>0, <1>1, <1>4 DEF OutEdge, PlainEdge, insideSCC, Moved
    <2>2. PlainEdge(k, r, c) = [y EXCEPT !.src = r]
      BY DEF PlainEdge
    <2> DEFINE new == {[x EXCEPT !.src = r] :
                          x \in {z \in OutEdge(I, s) : z.kind # "addr" /\ ~insideSCC(z, r)}}
    <2>3. PlainEdge(k, r, c) \in new
      BY <2>1, <2>2
    <2>4. I \ OutEdge(I, s) \in SUBSET Edge
      BY <1>2
    <2> HIDE DEF new
    <2>5. PlainEdge(k, r, c) \in addEdges(I \ OutEdge(I, s), new)
      BY <1>0, <2>3, <2>4, PlainAdded
    <2> QED
      BY <1>4, <2>5 DEF new, moveEdgesToRepNode, moveOutEdgesToRepNode, Moved, I
  <1> QED
    BY <1>3, <1>4

(* An edge between other nodes is not touched. *)
LEMMA MergeKeepsOthers ==
    ASSUME NEW E \in SUBSET Edge, NEW s, NEW r, NEW e \in E, e.src # s, e.dst # s
    PROVE  e \in moveEdgesToRepNode(E, s, r)
  BY DEF moveEdgesToRepNode, moveOutEdgesToRepNode, moveInEdgesToRepNode, addEdges, InEdge, OutEdge

(* What a merge of s into r from points-to sets P leaves of the statements. *)
LEMMA MergeStatements ==
    ASSUME IInv, KeptInv, NEW s \in alive, NEW r \in alive, s # r,
           NEW P \in [Node -> SUBSET Obj], mergeSrcToTgt(s, r, P), Keeps(P),
           UNCHANGED <<fi, prog, resolved, newCopies>>, newCopies = {}
    PROVE  /\ StatementsKept' /\ NgepKept' /\ AddrKept' /\ CallsKept'
           /\ \A a, b \in Node : Due(a, b) => Due(a, b)'
           /\ \A n \in Node : unmerged(n)' => unmerged(n) /\ pts'[n] = P[n]
  <1>1. PICK Q : Q = P
    OBVIOUS
  <1>2. Merged(s, r, P)
    BY MergeEffects DEF IInv
  <1>3. /\ s \in Node /\ r \in Node /\ rep[s] = s /\ rep[r] = r
        /\ \A n \in Node : pts'[n] = IF n = r THEN P[r] \union P[s] ELSE P[n]
        /\ \A n \in Node : rep'[n] = Moved(s, r, rep[n])
        /\ \A n \in Node : subs'[n] = IF n = s THEN {}
                                      ELSE IF n = r THEN subs[r] \union subs[s] \union {s}
                                      ELSE subs[n]
        /\ edges' = moveEdgesToRepNode(edges, s, r)
    BY <1>2 DEF Merged, Moved
  <1>4. edges \in SUBSET Edge /\ rep \in [Node -> Node] /\ pts \in [Node -> SUBSET Obj] /\ prog \in Programs
    BY DEF IInv, TypeInv, TypeOK
  <1>5. \A e \in prog.stmts : e \in Edge /\ e.src \in Node /\ e.dst \in Node
    BY <1>4, AndersenAssumption DEF AndersenAssumption, Edge
  <1>6. \A k \in WithoutOffset : \A a, b \in Node : EdgeOrSame(k, a, b) => EdgeOrSame(k, a, b)'
    <2> SUFFICES ASSUME NEW k \in WithoutOffset, NEW a \in Node, NEW b \in Node, EdgeOrSame(k, a, b)
                 PROVE  EdgeOrSame(k, a, b)'
      OBVIOUS
    <2>1. rep[a] \in Node /\ rep[b] \in Node
      BY <1>4
    <2>2. CASE PlainEdge(k, rep[a], rep[b]) \in edges
      <3>1. \/ PlainEdge(k, Moved(s, r, rep[a]), Moved(s, r, rep[b])) \in moveEdgesToRepNode(edges, s, r)
            \/ k \in DirectKind /\ Moved(s, r, rep[a]) = Moved(s, r, rep[b])
        BY <1>3, <1>4, <2>1, <2>2, MergeKeepsEdge
      <3> QED
        BY <1>3, <3>1 DEF EdgeOrSame
    <2>3. CASE k \in DirectKind /\ rep[a] = rep[b]
      BY <1>3, <2>3 DEF EdgeOrSame
    <2> QED
      BY <2>2, <2>3 DEF EdgeOrSame
  <1>7. \A a, b \in Node : Due(a, b) => Due(a, b)'
    BY <1>6 DEF Due, Joined, WithoutOffset
  <1>8. StatementsKept'
    BY <1>5, <1>6 DEF KeptInv, StatementsKept, Stmts, OfKind
  <1>9. \A n \in Node : unmerged(n)' => unmerged(n) /\ pts'[n] = P[n] /\ n # s /\ n # r
    <2> SUFFICES ASSUME NEW n \in Node, unmerged(n)'
                 PROVE  unmerged(n) /\ pts'[n] = P[n] /\ n # s /\ n # r
      OBVIOUS
    <2>1. n # s
      BY <1>3 DEF unmerged, Moved
    <2>2. n # r
      BY <1>3 DEF unmerged
    <2>3. rep[n] = n
      BY <1>3, <2>1, <2>2 DEF unmerged, Moved
    <2> QED
      BY <1>3, <2>1, <2>2, <2>3 DEF unmerged
  <1>10. NgepKept'
    <2> SUFFICES ASSUME NEW e \in Stmts("ngep"), unmerged(e.src)', unmerged(e.dst)'
                 PROVE  e \in edges'
      BY DEF NgepKept, Stmts
    <2>1. e.src \in Node /\ e.dst \in Node
      BY <1>5 DEF Stmts, OfKind
    <2>2. e \in edges /\ e.src # s /\ e.dst # s
      BY <1>9, <2>1 DEF KeptInv, NgepKept
    <2> QED
      BY <1>3, <1>4, <2>2, MergeKeepsOthers
  <1>11. AddrKept'
    <2> SUFFICES ASSUME NEW e \in Stmts("addr") PROVE covers(rep[e.dst], e.src)'
      BY DEF AddrKept, Stmts
    <2>1. e.dst \in Node /\ rep[e.dst] \in Node
      BY <1>4, <1>5 DEF Stmts, OfKind
    <2> DEFINE n == rep[e.dst]
    <2>2. PICK m : m = rep'[e.dst] /\ P[n] \subseteq pts'[m]
      BY <1>3, <2>1 DEF Moved
    <2>3. Inherits(n, m)
      <3> SUFFICES ASSUME NEW x \in pts[n] PROVE covers(m, x)'
        BY DEF Inherits
      <3>1. x \in Obj /\ baseOf[baseOf[x]] = baseOf[x]
        BY <1>4, <2>1, ConsGAssumption DEF ConsGAssumption
      <3>2. x \in P[n] \/ (isFieldInsensitive(x) /\ baseOf[x] \in P[n])
        BY <2>1 DEF Keeps
      <3> QED
        BY <2>2, <3>1, <3>2 DEF covers, isFieldInsensitive
    <2>4. PICK x : x = e.src /\ covers(n, x)
      BY DEF KeptInv, AddrKept
    <2>5. covers(m, x)'
      BY <2>3, <2>4, CoverInherited
    <2> QED
      BY <2>2, <2>4, <2>5
  <1>12. CallsKept'
    <2> SUFFICES ASSUME NEW c \in resolved PROVE (Due(c[1].arg, formal[c[2]]) /\ Due(funRet[c[2]], c[1].res))'
      BY DEF CallsKept
    <2>1. c[1] \in prog.calls /\ c[2] \in DOMAIN formal
      BY DEF IInv, TypeInv, TypeOK
    <2>2. c[1].arg \in Node /\ c[1].res \in Node /\ formal[c[2]] \in Node /\ funRet[c[2]] \in Node
      BY <1>4, <2>1, AndersenAssumption DEF AndersenAssumption, CallSite, Node
    <2> QED
      BY <1>7, <2>2 DEF KeptInv, CallsKept
  <1> QED
    BY <1>7, <1>8, <1>9, <1>10, <1>11, <1>12

LEMMA InitKept == Init => KeptInv
  <1> SUFFICES ASSUME Init PROVE KeptInv
    OBVIOUS
  <1>1. prog \in Programs /\ edges = prog.stmts /\ rep = [n \in Node |-> n] /\ resolved = {}
    BY DEF Init
  <1>2. \A e \in prog.stmts : e \in Edge /\ e.src \in Node /\ e.dst \in Node
    BY <1>1, AndersenAssumption DEF AndersenAssumption, Edge
  <1>3. StatementsKept
    <2> SUFFICES ASSUME NEW k \in WithoutOffset, NEW e \in prog.stmts, e.kind = k
                 PROVE  PlainEdge(k, rep[e.src], rep[e.dst]) \in edges
      BY DEF StatementsKept, Stmts, OfKind, EdgeOrSame
    <2>1. e.off = 0 /\ e \in [kind : Kind, src : Node, dst : Node, off : Offset \union {0}]
      BY <1>2 DEF Edge, WithoutOffset
    <2>2. PlainEdge(k, e.src, e.dst) = e
      BY <2>1 DEF PlainEdge
    <2> QED
      BY <1>1, <1>2, <2>2
  <1>4. NgepKept
    BY <1>1 DEF NgepKept, Stmts, OfKind
  <1>5. AddrKept
    <2> SUFFICES ASSUME NEW e \in prog.stmts, e.kind = "addr" PROVE e.src \in pts[rep[e.dst]]
      BY DEF AddrKept, Stmts, OfKind, covers
    <2> QED
      BY <1>1, <1>2 DEF Init, OfKind
  <1>6. CallsKept
    BY <1>1 DEF CallsKept
  <1>7. LoadStoresKept
    <2> SUFFICES ASSUME NEW p \in Node PROVE p \in worklist \/ pts[p] = {}
      BY <1>2 DEF LoadStoresKept, LoadsDone, StoresDone, Stmts, OfKind
    <2> QED
      BY DEF Init
  <1> QED
    BY <1>3, <1>4, <1>5, <1>6, <1>7 DEF KeptInv

(* Steps that leave the graph and the copy edges still due alone. *)
LEMMA SameStatements ==
    ASSUME KeptInv, UNCHANGED <<prog, edges, rep, subs, resolved, newCopies>>,
           fi \subseteq fi', rep \in [Node -> Node],
           \A n \in Node : pts[n] \subseteq pts'[n], prog \in Programs
    PROVE  /\ StatementsKept' /\ NgepKept' /\ AddrKept' /\ CallsKept'
           /\ \A a, b : Due(a, b)' <=> Due(a, b)
           /\ \A n : unmerged(n)' <=> unmerged(n)
  <1>1. \A e \in prog.stmts : e.dst \in Node
    BY AndersenAssumption DEF AndersenAssumption, Edge
  <1>2. StatementsKept' /\ NgepKept' /\ CallsKept'
    BY DEF KeptInv, StatementsKept, NgepKept, CallsKept, Stmts, EdgeOrSame, Due, Joined, unmerged
  <1>3. AddrKept'
    <2> SUFFICES ASSUME NEW e \in Stmts("addr") PROVE covers(rep[e.dst], e.src)'
      BY DEF AddrKept, Stmts
    <2>1. rep[e.dst] \in Node /\ covers(rep[e.dst], e.src)
      BY <1>1 DEF Stmts, OfKind, KeptInv, AddrKept
    <2> QED
      BY <2>1 DEF covers, isFieldInsensitive
  <1> QED
    BY <1>2, <1>3 DEF Due, Joined, EdgeOrSame, unmerged

LEMMA SameKept ==
    ASSUME IInv, KeptInv, UNCHANGED <<prog, edges, rep, subs, resolved, newCopies, worklist, pts>>,
           fi \subseteq fi'
    PROVE  KeptInv'
  <1>1. rep \in [Node -> Node] /\ prog \in Programs
    BY DEF IInv, TypeInv, TypeOK
  <1>2. /\ StatementsKept' /\ NgepKept' /\ AddrKept' /\ CallsKept'
        /\ \A a, b : Due(a, b)' <=> Due(a, b)
        /\ \A n : unmerged(n)' <=> unmerged(n)
    BY <1>1, SameStatements
  <1>3. LoadStoresKept'
    BY <1>2 DEF KeptInv, LoadStoresKept, LoadsDone, StoresDone, Stmts
  <1> QED
    BY <1>2, <1>3 DEF KeptInv

LEMMA MergeKept ==
    ASSUME IInv, KeptInv, NEW s \in Node, NEW r \in Node, mergeSccNode(s, r)
    PROVE  KeptInv'
  <1>1. s \in alive /\ r \in alive /\ s # r /\ newCopies = {}
    BY DEF IInv, AgendaInv, MergesDisjoint, mergeSccNode, OneAtATime
  <1>2. /\ pts \in [Node -> SUBSET Obj] /\ mergeSrcToTgt(s, r, pts)
        /\ UNCHANGED <<fi, prog, resolved, newCopies, worklist>>
        /\ prog \in Programs
    BY DEF IInv, TypeInv, TypeOK, mergeSccNode
  <1>3. PICK P \in [Node -> SUBSET Obj] : P = pts /\ mergeSrcToTgt(s, r, P)
    BY <1>2
  <1>4. Keeps(P)
    BY <1>3 DEF Keeps
  <1>5. /\ StatementsKept' /\ NgepKept' /\ AddrKept' /\ CallsKept'
        /\ \A a, b \in Node : Due(a, b) => Due(a, b)'
        /\ \A n \in Node : unmerged(n)' => unmerged(n) /\ pts'[n] = P[n]
    BY <1>1, <1>2, <1>3, <1>4, MergeStatements
  <1>6. \A e \in prog.stmts : e.src \in Node /\ e.dst \in Node
    BY <1>2, AndersenAssumption DEF AndersenAssumption, Edge
  <1>7. \A n \in Node : \A o \in pts[n] : o \in Node
    BY <1>2 DEF Node
  <1>8. LoadStoresKept'
    BY <1>2, <1>3, <1>5, <1>6, <1>7 DEF KeptInv, LoadStoresKept, LoadsDone, StoresDone, Stmts, OfKind
  <1> QED
    BY <1>5, <1>8 DEF KeptInv

LEMMA CollapseOneKept ==
    ASSUME IInv, KeptInv, NEW f \in Obj, collapseOneField(f)
    PROVE  KeptInv'
  <1>1. PICK base \in collapsing.base, r \in collapsing.rep :
           /\ base \in Obj /\ base \in Node /\ baseOf[base] = base /\ base \in fi /\ baseOf[f] = base
           /\ f \in Node /\ r \in alive /\ rep[f] \in alive
           /\ Replaced(f, base) \in [Node -> SUBSET Obj]
           /\ \A n \in Node : Replaced(f, base)[n] =
                 IF f \in pts[n] THEN (pts[n] \ {f}) \union {base} ELSE pts[n]
           /\ \/ rep[f] = r /\ pts' = Replaced(f, base) /\ UNCHANGED <<propa, graph>>
              \/ rep[f] # r /\ mergeSrcToTgt(rep[f], r, Replaced(f, base))
           /\ worklist' = worklist \union {rep[n] : n \in {m \in Node : f \in pts[m]}}
           /\ UNCHANGED <<prog, fi, resolved, newCopies>>
           /\ newCopies = {}
    BY CollapseOneEffects
  <1>2. PICK P \in [Node -> SUBSET Obj] : P = Replaced(f, base)
    BY <1>1
  <1>3. prog \in Programs /\ pts \in [Node -> SUBSET Obj] /\ rep \in [Node -> Node]
    BY DEF IInv, TypeInv, TypeOK
  <1>4. \A e \in prog.stmts : e.src \in Node /\ e.dst \in Node
    BY <1>3, AndersenAssumption DEF AndersenAssumption, Edge
  <1>5. Keeps(P)
    <2> SUFFICES ASSUME NEW n \in Node, NEW x \in pts[n]
                 PROVE  x \in P[n] \/ (isFieldInsensitive(x) /\ baseOf[x] \in P[n])
      BY DEF Keeps
    <2> QED
      BY <1>1, <1>2 DEF isFieldInsensitive
  <1>6. /\ StatementsKept' /\ NgepKept' /\ AddrKept' /\ CallsKept'
        /\ \A a, b \in Node : Due(a, b) => Due(a, b)'
        /\ \A n \in Node : unmerged(n)' => unmerged(n) /\ pts'[n] = P[n]
    <2>1. CASE rep[f] = r /\ pts' = P /\ UNCHANGED <<propa, graph>>
      <3>1. UNCHANGED <<edges, rep, subs>>
        BY <2>1 DEF graph
      <3>2. StatementsKept' /\ NgepKept' /\ CallsKept'
        BY <1>1, <3>1 DEF KeptInv, StatementsKept, NgepKept, CallsKept, Stmts, EdgeOrSame, Due, Joined, unmerged
      <3>3. AddrKept'
        <4> SUFFICES ASSUME NEW e \in Stmts("addr") PROVE covers(rep[e.dst], e.src)'
          BY <1>1 DEF AddrKept, Stmts
        <4>1. rep[e.dst] \in Node /\ covers(rep[e.dst], e.src)
          BY <1>3, <1>4 DEF KeptInv, AddrKept, Stmts, OfKind
        <4>2. Inherits(rep[e.dst], rep[e.dst])
          <5> SUFFICES ASSUME NEW x \in pts[rep[e.dst]] PROVE covers(rep[e.dst], x)'
            BY DEF Inherits
          <5>1. x \in Obj /\ baseOf[baseOf[x]] = baseOf[x]
            BY <1>3, <4>1, ConsGAssumption DEF ConsGAssumption
          <5>2. x \in P[rep[e.dst]] \/ (isFieldInsensitive(x) /\ baseOf[x] \in P[rep[e.dst]])
            BY <1>5, <4>1 DEF Keeps
          <5> QED
            BY <1>1, <2>1, <3>1, <5>1, <5>2 DEF covers, isFieldInsensitive
        <4>3. PICK d, x : d = rep[e.dst] /\ x = e.src /\ covers(d, x) /\ Inherits(d, d)
          BY <4>1, <4>2
        <4>4. covers(d, x)'
          BY <1>1, <4>3, CoverInherited
        <4> QED
          BY <3>1, <4>3, <4>4 DEF Stmts
      <3> QED
        BY <1>1, <2>1, <3>1, <3>2, <3>3 DEF Due, Joined, EdgeOrSame, unmerged
    <2>2. CASE rep[f] # r /\ mergeSrcToTgt(rep[f], r, P)
      BY <1>1, <1>5, <2>2, MergeStatements
    <2> QED
      BY <1>1, <1>2, <2>1, <2>2
  \* A pointer that had the field as a target is put on the work list.
  <1>7. \A n \in Node : unmerged(n)' => unmerged(n) /\ (n \in worklist' \/ pts'[n] = pts[n])
    BY <1>1, <1>2, <1>6 DEF unmerged
  <1>8. \A n \in Node : \A o \in pts[n] : o \in Node
    BY <1>3 DEF Node
  <1>9. worklist \subseteq worklist'
    BY <1>1
  <1>10. LoadStoresKept'
    <2>1. ASSUME NEW e \in Stmts("load"), unmerged(e.src)' PROVE LoadsDone(e.src, e.dst)'
      BY <1>4, <1>6, <1>7, <1>8, <1>9, <2>1 DEF KeptInv, LoadStoresKept, LoadsDone, Stmts, OfKind
    <2>2. ASSUME NEW e \in Stmts("store"), unmerged(e.dst)' PROVE StoresDone(e.dst, e.src)'
      BY <1>4, <1>6, <1>7, <1>8, <1>9, <2>2 DEF KeptInv, LoadStoresKept, StoresDone, Stmts, OfKind
    <2> QED
      BY <1>1, <2>1, <2>2 DEF LoadStoresKept, Stmts
  <1> QED
    BY <1>6, <1>10 DEF KeptInv

LEMMA ProcessNodeKept ==
    ASSUME IInv, KeptInv, processNode
    PROVE  KeptInv'
  <1>1. UNCHANGED <<prog, edges, rep, subs, resolved, newCopies>>
    BY DEF processNode
  <1>2. CASE rep[current] # current
    BY <1>1, <1>2, SameKept DEF processNode, facts
  <1>3. CASE rep[current] = current
    <2>1. /\ fi \subseteq fi'
          /\ \A d \in Node : pts'[d] = pts[d] \union flowTo(current, d, Diff)
          /\ worklist' = worklist \union changedBy(current, Diff)
      BY <1>3, ProcessNodeEffects
    <2>2. rep \in [Node -> Node] /\ prog \in Programs
      BY DEF IInv, TypeInv, TypeOK
    <2>3. /\ StatementsKept' /\ NgepKept' /\ AddrKept' /\ CallsKept'
          /\ \A a, b : Due(a, b)' <=> Due(a, b)
          /\ \A n : unmerged(n)' <=> unmerged(n)
      BY <1>1, <2>1, <2>2, SameStatements
    <2>4. \A n \in Node : n \in worklist' \/ (n \notin worklist /\ pts'[n] = pts[n])
      BY <2>1 DEF changedBy
    <2>5. \A e \in prog.stmts : e.src \in Node /\ e.dst \in Node
      BY <2>2, AndersenAssumption DEF AndersenAssumption, Edge
    <2>6. LoadStoresKept'
      BY <1>1, <2>3, <2>4, <2>5 DEF KeptInv, LoadStoresKept, LoadsDone, StoresDone, Stmts, OfKind
    <2> QED
      BY <2>3, <2>6 DEF KeptInv
  <1> QED
    BY <1>2, <1>3

LEMMA AddCopyEdgeKept ==
    ASSUME IInv, KeptInv, NEW s \in Node, NEW d \in Node, addCopyEdge(s, d)
    PROVE  KeptInv'
  <1>1. /\ <<s, d>> \in newCopies /\ newCopies' = newCopies \ {<<s, d>>}
        /\ edges' = edges \union {PlainEdge("copy", s, d)}
        /\ UNCHANGED <<prog, rep, subs, resolved, pts, fi>>
        /\ worklist \subseteq worklist'
    BY DEF addCopyEdge
  <1>2. \A k, a, b : EdgeOrSame(k, a, b) => EdgeOrSame(k, a, b)'
    BY <1>1 DEF EdgeOrSame
  <1>3. \A a, b : Due(a, b) => Due(a, b)'
    <2> SUFFICES ASSUME NEW a, NEW b, Due(a, b) PROVE Due(a, b)'
      OBVIOUS
    <2>1. CASE <<rep[a], rep[b]>> = <<s, d>>
      BY <1>1, <2>1 DEF Due, Joined, EdgeOrSame
    <2> QED
      BY <1>1, <1>2, <2>1 DEF Due, Joined
  <1>4. StatementsKept' /\ NgepKept' /\ AddrKept' /\ CallsKept'
    BY <1>1, <1>2, <1>3 DEF KeptInv, StatementsKept, NgepKept, AddrKept, CallsKept, Stmts, unmerged,
                            covers, isFieldInsensitive
  <1>5. LoadStoresKept'
    BY <1>1, <1>3 DEF KeptInv, LoadStoresKept, LoadsDone, StoresDone, Stmts, unmerged
  <1> QED
    BY <1>4, <1>5 DEF KeptInv

(* A copy edge that is not new joins its ends already. *)
LEMMA NotNewJoined ==
    ASSUME IInv, NEW C, NEW a \in Node, NEW b \in Node, <<rep[a], rep[b]>> \in C
    PROVE  Joined(a, b) \/ <<rep[a], rep[b]>> \in newCopyEdges(C)
  <1>1. rep[a] \in Node /\ rep[b] \in Node /\ edges \subseteq Edge
    BY DEF IInv, TypeInv, TypeOK
  <1>2. ASSUME NEW f \in edges, SameEdge(PlainEdge("copy", rep[a], rep[b]), f)
        PROVE  PlainEdge("copy", rep[a], rep[b]) \in edges
    <2>1. f.kind = "copy" /\ f.src = rep[a] /\ f.dst = rep[b]
      BY <1>2 DEF SameEdge, PlainEdge
    <2>2. f.off = 0 /\ f \in [kind : Kind, src : Node, dst : Node, off : Offset \union {0}]
      BY <1>1, <2>1 DEF Edge
    <2> QED
      BY <2>1, <2>2 DEF PlainEdge
  <1> QED
    BY <1>2 DEF newCopyEdges, isNewCopyEdge, hasEdge, Joined, EdgeOrSame, DirectKind, GepKind

LEMMA PostProcessKept ==
    ASSUME IInv, KeptInv, NEW n \in Node, postProcessNode(n)
    PROVE  KeptInv'
  <1>1. /\ newCopies = {} /\ worklist' = worklist \ {n}
        /\ newCopies' = newCopyEdges(loadCopies(rep[n]) \union storeCopies(rep[n]))
        /\ UNCHANGED <<prog, edges, rep, subs, resolved, pts, fi>>
    BY DEF postProcessNode, graph, facts
  <1>2. prog \in Programs /\ pts \in [Node -> SUBSET Obj]
    BY DEF IInv, TypeInv, TypeOK
  <1>3. \A e \in prog.stmts : e.src \in Node /\ e.dst \in Node
    BY <1>2, AndersenAssumption DEF AndersenAssumption, Edge
  <1>4. \A a, b : Due(a, b) => Joined(a, b) /\ Due(a, b)'
    BY <1>1 DEF Due, Joined, EdgeOrSame
  <1>5. StatementsKept' /\ NgepKept' /\ AddrKept' /\ CallsKept'
    BY <1>1, <1>4 DEF KeptInv, StatementsKept, EdgeOrSame, NgepKept, AddrKept, CallsKept, Stmts, unmerged,
                      covers, isFieldInsensitive
  <1>6. ASSUME NEW p \in Node, unmerged(p), p = n
        PROVE  /\ \A e \in Stmts("load") : e.src = p => LoadsDone(p, e.dst)'
               /\ \A e \in Stmts("store") : e.dst = p => StoresDone(p, e.src)'
    <2> DEFINE C == loadCopies(rep[n]) \union storeCopies(rep[n])
    <2>1. rep[n] = p
      BY <1>6 DEF unmerged
    <2>2. ASSUME NEW e \in Stmts("load"), e.src = p, NEW o \in pts[p] \ constObj
          PROVE  Due(o, e.dst)'
      <3>1. e \in prog.stmts /\ e.kind = "load" /\ o \in Node /\ e.dst \in Node
        BY <1>2, <1>3, <2>2 DEF Stmts, OfKind, Node
      <3>2. PlainEdge("load", p, rep[e.dst]) \in edges
        <4>1. EdgeOrSame("load", e.src, e.dst)
          BY <2>2 DEF KeptInv, StatementsKept, WithoutOffset
        <4> QED
          BY <2>1, <2>2, <4>1, <1>6 DEF EdgeOrSame, DirectKind, GepKind
      <3>3. <<rep[o], rep[e.dst]>> \in C
        <4>1. PlainEdge("load", p, rep[e.dst]) \in {x \in OfKind(edges, "load") : x.src = p}
          BY <3>2 DEF PlainEdge, OfKind
        <4>2. PlainEdge("load", p, rep[e.dst]).dst = rep[e.dst]
          BY DEF PlainEdge
        <4> QED
          BY <2>1, <2>2, <4>1, <4>2 DEF loadCopies
      <3> HIDE DEF C
      <3>4. Joined(o, e.dst) \/ <<rep[o], rep[e.dst]>> \in newCopyEdges(C)
        BY <3>1, <3>3, NotNewJoined
      <3> QED
        BY <1>1, <3>4 DEF C, Due, Joined, EdgeOrSame
    <2>3. ASSUME NEW e \in Stmts("store"), e.dst = p, NEW o \in pts[p] \ constObj
          PROVE  Due(e.src, o)'
      <3>1. e \in prog.stmts /\ e.kind = "store" /\ o \in Node /\ e.src \in Node
        BY <1>2, <1>3, <2>3 DEF Stmts, OfKind, Node
      <3>2. PlainEdge("store", rep[e.src], p) \in edges
        <4>1. EdgeOrSame("store", e.src, e.dst)
          BY <2>3 DEF KeptInv, StatementsKept, WithoutOffset
        <4> QED
          BY <2>1, <2>3, <4>1, <1>6 DEF EdgeOrSame, DirectKind, GepKind
      <3>3. <<rep[e.src], rep[o]>> \in C
        <4>1. PlainEdge("store", rep[e.src], p) \in {x \in OfKind(edges, "store") : x.dst = p}
          BY <3>2 DEF PlainEdge, OfKind
        <4>2. PlainEdge("store", rep[e.src], p).src = rep[e.src]
          BY DEF PlainEdge
        <4> QED
          BY <2>1, <2>3, <4>1, <4>2 DEF storeCopies
      <3> HIDE DEF C
      <3>4. Joined(e.src, o) \/ <<rep[e.src], rep[o]>> \in newCopyEdges(C)
        BY <3>1, <3>3, NotNewJoined
      <3> QED
        BY <1>1, <3>4 DEF C, Due, Joined, EdgeOrSame
    <2> QED
      BY <1>1, <2>2, <2>3 DEF LoadsDone, StoresDone
  <1>7. LoadStoresKept'
    <2>1. ASSUME NEW e \in Stmts("load"), unmerged(e.src) PROVE LoadsDone(e.src, e.dst)'
      <3>1. CASE e.src = n
        BY <1>6, <2>1, <3>1
      <3>2. CASE e.src # n
        BY <1>1, <1>4, <2>1, <3>2 DEF KeptInv, LoadStoresKept, LoadsDone
      <3> QED
        BY <3>1, <3>2
    <2>2. ASSUME NEW e \in Stmts("store"), unmerged(e.dst) PROVE StoresDone(e.dst, e.src)'
      <3>1. CASE e.dst = n
        BY <1>6, <2>2, <3>1
      <3>2. CASE e.dst # n
        BY <1>1, <1>4, <2>2, <3>2 DEF KeptInv, LoadStoresKept, StoresDone
      <3> QED
        BY <3>1, <3>2
    <2> QED
      BY <1>1, <2>1, <2>2 DEF LoadStoresKept, Stmts, unmerged
  <1> QED
    BY <1>5, <1>7 DEF KeptInv

LEMMA UpdateCallGraphKept ==
    ASSUME IInv, KeptInv, updateCallGraph
    PROVE  KeptInv'
  <1>1. /\ newCopies = {} /\ worklist = {} /\ worklist' = {}
        /\ resolved' = resolved \union newCallEdges
        /\ newCopies' = newCopyEdges(UNION {paramCopies(c[1], c[2]) : c \in newCallEdges})
        /\ UNCHANGED <<prog, edges, rep, subs, pts, fi>>
    BY DEF updateCallGraph, graph, facts
  <1>2. prog \in Programs
    BY DEF IInv, TypeInv, TypeOK
  <1>3. \A a, b : Due(a, b) => Due(a, b)'
    BY <1>1 DEF Due, Joined, EdgeOrSame
  <1>4. StatementsKept' /\ NgepKept' /\ AddrKept'
    BY <1>1 DEF KeptInv, StatementsKept, EdgeOrSame, NgepKept, AddrKept, Stmts, unmerged,
                covers, isFieldInsensitive
  <1>5. CallsKept'
    <2> SUFFICES ASSUME NEW c \in newCallEdges
                 PROVE  (Due(c[1].arg, formal[c[2]]) /\ Due(funRet[c[2]], c[1].res))'
      BY <1>1, <1>3 DEF KeptInv, CallsKept
    <2> DEFINE C == UNION {paramCopies(x[1], x[2]) : x \in newCallEdges}
    <2>1. c[1] \in prog.calls /\ c[2] \in DOMAIN formal
      BY DEF newCallEdges
    <2>2. c[1].arg \in Node /\ c[1].res \in Node /\ formal[c[2]] \in Node /\ funRet[c[2]] \in Node
      BY <1>2, <2>1, AndersenAssumption DEF AndersenAssumption, CallSite, Node
    <2>3. <<rep[c[1].arg], rep[formal[c[2]]]>> \in C /\ <<rep[funRet[c[2]]], rep[c[1].res]>> \in C
      BY DEF paramCopies
    <2> HIDE DEF C
    <2>4. /\ Joined(c[1].arg, formal[c[2]]) \/ <<rep[c[1].arg], rep[formal[c[2]]]>> \in newCopyEdges(C)
          /\ Joined(funRet[c[2]], c[1].res) \/ <<rep[funRet[c[2]]], rep[c[1].res]>> \in newCopyEdges(C)
      BY <2>2, <2>3, NotNewJoined
    <2> QED
      BY <1>1, <2>4 DEF C, Due, Joined, EdgeOrSame
  <1>6. LoadStoresKept'
    BY <1>1, <1>3 DEF KeptInv, LoadStoresKept, LoadsDone, StoresDone, Stmts, unmerged
  <1> QED
    BY <1>4, <1>5, <1>6 DEF KeptInv

LEMMA NextKept == IInv /\ KeptInv /\ [Next]_vars => KeptInv'
  <1> SUFFICES ASSUME IInv, KeptInv, [Next]_vars PROVE KeptInv'
    OBVIOUS
  <1>1. CASE \/ SCCDetect \/ endCollapseField \/ endWave \/ endRound \/ UNCHANGED vars
             \/ (\E o \in Obj : collapseField(o)) \/ (\E n \in Node : visit(n))
    <2>1. /\ UNCHANGED <<prog, edges, rep, subs, resolved, newCopies, worklist, pts>>
          /\ fi \subseteq fi'
      BY <1>1 DEF SCCDetect, endCollapseField, endWave, endRound, collapseField, visit, vars,
                  graph, facts, control
    <2> QED
      BY <2>1, SameKept
  <1> QED
    BY <1>1, MergeKept, CollapseOneKept, ProcessNodeKept, AddCopyEdgeKept, PostProcessKept,
       UpdateCallGraphKept DEF Next, finished

THEOREM KeptInvariance == Spec => [](IInv /\ KeptInv)
  <1>1. Init => IInv /\ KeptInv
    BY InitInv, InitKept
  <1>2. (IInv /\ KeptInv) /\ [Next]_vars => (IInv /\ KeptInv)'
    BY NextInv, NextKept
  <1> QED
    BY <1>1, <1>2, PTL DEF Spec

-----------------------------------------------------------------------------
(* What holds when the analysis is done.  Every target a node has is         *)
(* propagated, so it has arrived at the end of each edge; no field of a      *)
(* collapsed structure is left to stand for it.                              *)
Solved ==
    /\ AllSettled /\ worklist = {} /\ newCopies = {} /\ newCallEdges = {}
    /\ \A n \in alive : \A o \in pts[n] : isField(o) => ~isFieldInsensitive(o)

LEMMA DoneSolved ==
    ASSUME IInv, FieldInv, SolveInv, pc = "done"
    PROVE  Solved
  <1>1. newCopies = {} /\ collapsing = NotCollapsing /\ toCollapse = {}
    BY DEF IInv, AgendaInv, OneAtATime
  <1> QED
    BY <1>1 DEF Solved, SolveInv, WaveInv, EndInv, FieldInv, NoStaleField, NotCollapsing

LEMMA JoinedFlows ==
    ASSUME IInv, Arrived, Solved, NEW a \in Node, NEW b \in Node, Joined(a, b)
    PROVE  getPts(a) \subseteq getPts(b)
  <1>1. CASE rep[a] = rep[b]
    BY <1>1 DEF getPts
  <1>2. CASE PlainEdge("copy", rep[a], rep[b]) \in edges
    <2> SUFFICES ASSUME NEW o \in pts[rep[a]] PROVE o \in pts[rep[b]]
      BY DEF getPts
    <2> DEFINE e == PlainEdge("copy", rep[a], rep[b])
    <2>1. e.kind = "copy" /\ e.src = rep[a] /\ e.dst = rep[b]
      BY DEF PlainEdge
    <2>2. rep[a] \in alive /\ rep[b] \in alive
      BY <1>2, <2>1 DEF IInv, GraphInv, EdgesLive
    <2>3. o \in propa[e.src]
      BY <2>1, <2>2 DEF Solved, AllSettled, Settled
    <2> HIDE DEF e
    <2>4. covers(e.dst, edgeTarget(e, o))
      BY <1>2, <2>1, <2>3 DEF Arrived, PropagatedArrived, DirectKind, e
    <2>5. edgeTarget(e, o) = o
      BY <2>1 DEF edgeTarget
    <2>6. covers(rep[b], o)
      BY <2>1, <2>4, <2>5
    <2>7. CASE isFieldInsensitive(o) /\ \E x \in pts[rep[b]] : baseOf[x] = baseOf[o]
      <3>1. PICK x \in pts[rep[b]] : baseOf[x] = baseOf[o]
        BY <2>7
      <3>2. isFieldInsensitive(x)
        BY <2>7, <3>1 DEF isFieldInsensitive
      <3> QED
        BY <2>2, <2>7, <3>1, <3>2 DEF Solved, isField
    <2> QED
      BY <2>6, <2>7 DEF covers
  <1> QED
    BY <1>1, <1>2 DEF Joined, EdgeOrSame

(* What the solver ends with is closed under address, copy and call          *)
(* statements, those of calls resolved late included (processAddr,           *)
(* processCopy, updateCallGraph).                                            *)
THEOREM FlowsClosed == Spec => []FlowClosed
  <1>1. IInv /\ FieldInv /\ SolveInv /\ KeptInv /\ Arrived => FlowClosed
    <2> SUFFICES ASSUME IInv, FieldInv, SolveInv, KeptInv, Arrived, pc = "done"
                 PROVE  /\ \A e \in Stmts("addr") : covers(rep[e.dst], e.src)
                        /\ \A e \in Stmts("copy") : getPts(e.src) \subseteq getPts(e.dst)
                        /\ \A cs \in prog.calls : \A f \in callees(cs) :
                              /\ getPts(cs.arg) \subseteq getPts(formal[f])
                              /\ getPts(funRet[f]) \subseteq getPts(cs.res)
      BY DEF FlowClosed
    <2>1. Solved
      BY DoneSolved
    <2>2. prog \in Programs
      BY DEF IInv, TypeInv
    <2>3. \A e \in Stmts("copy") : Joined(e.src, e.dst) /\ e.src \in Node /\ e.dst \in Node
      BY <2>2, AndersenAssumption DEF AndersenAssumption, Edge, KeptInv, StatementsKept, WithoutOffset,
                                      Joined, Stmts, OfKind
    <2>4. ASSUME NEW cs \in prog.calls, NEW f \in callees(cs)
          PROVE  /\ Joined(cs.arg, formal[f]) /\ Joined(funRet[f], cs.res)
                 /\ cs.arg \in Node /\ cs.res \in Node /\ formal[f] \in Node /\ funRet[f] \in Node
      <3>1. f \in DOMAIN formal
        BY DEF callees
      <3>2. <<cs, f>> \in resolved
        BY <2>1, <3>1 DEF Solved, newCallEdges
      <3>3. Due(cs.arg, formal[f]) /\ Due(funRet[f], cs.res)
        BY <3>2 DEF KeptInv, CallsKept
      <3>4. cs.arg \in Node /\ cs.res \in Node /\ formal[f] \in Node /\ funRet[f] \in Node
        BY <2>2, <3>1, AndersenAssumption DEF AndersenAssumption, CallSite, Node
      <3> QED
        BY <2>1, <3>3, <3>4 DEF Due, Solved
    <2>5. \A e \in Stmts("copy") : getPts(e.src) \subseteq getPts(e.dst)
      BY <2>1, <2>3, JoinedFlows
    <2>6. \A cs \in prog.calls : \A f \in callees(cs) :
                              /\ getPts(cs.arg) \subseteq getPts(formal[f])
                              /\ getPts(funRet[f]) \subseteq getPts(cs.res)
      BY <2>1, <2>4, JoinedFlows
    <2> QED
      BY <2>5, <2>6 DEF KeptInv, AddrKept
  <1>2. Spec => [](IInv /\ Arrived)
    BY InitInv, InitArrived, NextInv, NextArrived, PTL DEF Spec
  <1> QED
    BY <1>1, <1>2, SolveInvariance, KeptInvariance, PTL

(* It is closed under the loads and stores through a pointer that was never  *)
(* merged into another one or another into it (processLoad, processStore,    *)
(* postProcessNode).                                                         *)
THEOREM LoadsStoresClosed == Spec => []LoadStoreClosedUnmerged
  <1>1. IInv /\ FieldInv /\ SolveInv /\ KeptInv /\ Arrived => LoadStoreClosedUnmerged
    <2> SUFFICES ASSUME IInv, FieldInv, SolveInv, KeptInv, Arrived, pc = "done"
                 PROVE  /\ \A e \in Stmts("load") : unmerged(e.src) => loadClosed(e)
                        /\ \A e \in Stmts("store") : unmerged(e.dst) => storeClosed(e)
      BY DEF LoadStoreClosedUnmerged
    <2>1. Solved
      BY DoneSolved
    <2>2. prog \in Programs /\ pts \in [Node -> SUBSET Obj]
      BY DEF IInv, TypeInv, TypeOK
    <2>3. \A e \in prog.stmts : e.src \in Node /\ e.dst \in Node
      BY <2>2, AndersenAssumption DEF AndersenAssumption, Edge
    <2>4. \A n \in Node : unmerged(n) => getPts(n) = pts[n] /\ \A o \in pts[n] : o \in Node
      BY <2>2 DEF unmerged, getPts, Node
    <2>5. ASSUME NEW e \in Stmts("load"), unmerged(e.src) PROVE loadClosed(e)
      <3> SUFFICES ASSUME NEW o \in getPts(e.src) \ constObj PROVE getPts(o) \subseteq getPts(e.dst)
        BY DEF loadClosed
      <3>1. e.src \in Node /\ e.dst \in Node
        BY <2>3 DEF Stmts, OfKind
      <3>2. Due(o, e.dst) /\ o \in Node
        BY <2>1, <2>4, <2>5, <3>1 DEF Solved, KeptInv, LoadStoresKept, LoadsDone
      <3> QED
        BY <2>1, <3>1, <3>2, JoinedFlows DEF Due, Solved
    <2>6. ASSUME NEW e \in Stmts("store"), unmerged(e.dst) PROVE storeClosed(e)
      <3> SUFFICES ASSUME NEW o \in getPts(e.dst) \ constObj PROVE getPts(e.src) \subseteq getPts(o)
        BY DEF storeClosed
      <3>1. e.src \in Node /\ e.dst \in Node
        BY <2>3 DEF Stmts, OfKind
      <3>2. Due(e.src, o) /\ o \in Node
        BY <2>1, <2>4, <2>6, <3>1 DEF Solved, KeptInv, LoadStoresKept, StoresDone
      <3> QED
        BY <2>1, <3>1, <3>2, JoinedFlows DEF Due, Solved
    <2> QED
      BY <2>5, <2>6
  <1>2. Spec => [](IInv /\ Arrived)
    BY InitInv, InitArrived, NextInv, NextArrived, PTL DEF Spec
  <1> QED
    BY <1>1, <1>2, SolveInvariance, KeptInvariance, PTL

(* Of gep statements the part of GepClosed that no merge can damage: those   *)
(* with a variable offset whose ends were not merged with each other, and    *)
(* those with a constant offset neither of whose ends was merged at all      *)
(* (processGep, moveEdgesToRepNode).                                         *)
GepClosedApart ==
    pc = "done" =>
        /\ \A e \in Stmts("vgep") : rep[e.src] # rep[e.dst] =>
              \A o \in getPts(e.src) : covers(rep[e.dst], edgeTarget(e, o))
        /\ \A e \in Stmts("ngep") : unmerged(e.src) /\ unmerged(e.dst) =>
              \A o \in getPts(e.src) : covers(rep[e.dst], edgeTarget(e, o))

(* A gep edge of the final graph has carried every target of its source. *)
LEMMA GepEdgeFlows ==
    ASSUME IInv, Arrived, Solved, NEW e \in edges, e.kind \in DirectKind, NEW o \in pts[e.src]
    PROVE  covers(e.dst, edgeTarget(e, o))
  <1>1. e.src \in alive
    BY DEF IInv, GraphInv, EdgesLive
  <1>2. o \in propa[e.src]
    BY <1>1 DEF Solved, AllSettled, Settled
  <1> QED
    BY <1>2 DEF Arrived, PropagatedArrived

(* The result is closed under those gep statements. *)
THEOREM GepsClosed == Spec => []GepClosedApart
  <1>1. IInv /\ FieldInv /\ SolveInv /\ KeptInv /\ Arrived => GepClosedApart
    <2> SUFFICES ASSUME IInv, FieldInv, SolveInv, KeptInv, Arrived, pc = "done"
                 PROVE  /\ \A e \in Stmts("vgep") : rep[e.src] # rep[e.dst] =>
                             \A o \in getPts(e.src) : covers(rep[e.dst], edgeTarget(e, o))
                        /\ \A e \in Stmts("ngep") : unmerged(e.src) /\ unmerged(e.dst) =>
                             \A o \in getPts(e.src) : covers(rep[e.dst], edgeTarget(e, o))
      BY DEF GepClosedApart
    <2>1. Solved
      BY DoneSolved
    <2>2. ASSUME NEW e \in Stmts("vgep"), rep[e.src] # rep[e.dst], NEW o \in getPts(e.src)
          PROVE  covers(rep[e.dst], edgeTarget(e, o))
      <3> DEFINE d == PlainEdge("vgep", rep[e.src], rep[e.dst])
      <3>1. d.kind = "vgep" /\ d.src = rep[e.src] /\ d.dst = rep[e.dst] /\ e.kind = "vgep"
        BY DEF PlainEdge, Stmts, OfKind
      <3>2. d \in edges
        BY <2>2 DEF KeptInv, StatementsKept, WithoutOffset, EdgeOrSame
      <3>3. edgeTarget(d, o) = edgeTarget(e, o)
        BY <3>1 DEF edgeTarget
      <3> HIDE DEF d
      <3>4. o \in pts[d.src]
        BY <3>1 DEF getPts
      <3>5. covers(d.dst, edgeTarget(d, o))
        BY <2>1, <3>1, <3>2, <3>4, GepEdgeFlows DEF DirectKind, GepKind
      <3> QED
        BY <3>1, <3>3, <3>5
    <2>3. ASSUME NEW e \in Stmts("ngep"), unmerged(e.src), unmerged(e.dst), NEW o \in getPts(e.src)
          PROVE  covers(rep[e.dst], edgeTarget(e, o))
      <3>1. e \in edges /\ e.kind \in DirectKind
        BY <2>3 DEF KeptInv, NgepKept, Stmts, OfKind, DirectKind, GepKind
      <3>2. o \in pts[e.src]
        BY <2>3 DEF getPts, unmerged
      <3>3. covers(e.dst, edgeTarget(e, o))
        BY <2>1, <3>1, <3>2, GepEdgeFlows
      <3> QED
        BY <2>3, <3>3 DEF unmerged
    <2> QED
      BY <2>2, <2>3
  <1>2. Spec => [](IInv /\ Arrived)
    BY InitInv, InitArrived, NextInv, NextArrived, PTL DEF Spec
  <1> QED
    BY <1>1, <1>2, SolveInvariance, KeptInvariance, PTL

-----------------------------------------------------------------------------
(* Precision.  Whatever the solver does stays within every solution S of the *)
(* constraints in which a structure is one object: merged nodes have the     *)
(* same targets in S, and every edge is one that S satisfies.  Sol(S, n) are *)
(* the targets in S of the node, or of the structure the node belongs to.    *)
Sol(S, n) == {o \in Obj : <<IF n \in Obj THEN baseOf[n] ELSE n, o>> \in S}

\* S is a solution: the rules of fiStep, one by one.
FiRules(S) ==
    /\ \A e \in Stmts("addr") : <<e.dst, e.src>> \in S
    /\ \A e \in prog.stmts : e.kind \in DirectKind =>
          \A o : <<e.src, o>> \in S => <<e.dst, o>> \in S
    /\ \A e \in Stmts("load") : \A o : <<e.src, o>> \in S /\ o \notin constObj =>
          \A x : <<o, x>> \in S => <<e.dst, x>> \in S
    /\ \A e \in Stmts("store") : \A o : <<e.dst, o>> \in S /\ o \notin constObj =>
          \A x : <<e.src, x>> \in S => <<o, x>> \in S
    /\ \A cs \in prog.calls : \A f \in DOMAIN formal : <<cs.fp, f>> \in S =>
          \A x : /\ <<cs.arg, x>> \in S => <<formal[f], x>> \in S
                 /\ <<funRet[f], x>> \in S => <<cs.res, x>> \in S

TargetsWithin(S, P) == \A n \in Node : \A o \in P[n] : baseOf[o] \in Sol(S, n)
RepsWithin(S) == \A n \in Node : Sol(S, rep[n]) = Sol(S, n)
EdgeWithin(S, e) ==
    /\ e.kind \in DirectKind => Sol(S, e.src) \subseteq Sol(S, e.dst)
    /\ e.kind = "load" => \A o \in Sol(S, e.src) \ constObj : baseOf[o] = o => Sol(S, o) \subseteq Sol(S, e.dst)
    /\ e.kind = "store" => \A o \in Sol(S, e.dst) \ constObj : baseOf[o] = o => Sol(S, e.src) \subseteq Sol(S, o)
EdgesWithin(S) == \A e \in edges : EdgeWithin(S, e)
CopiesWithin(S) == \A c \in newCopies : Sol(S, c[1]) \subseteq Sol(S, c[2])
MergesWithin(S) ==
    /\ \A p \in merges : Sol(S, p[1]) = Sol(S, p[2])
    /\ \A b \in collapsing.base : \A r \in collapsing.rep : Sol(S, r) = Sol(S, b)
Within(S) ==
    /\ TargetsWithin(S, pts) /\ RepsWithin(S) /\ EdgesWithin(S) /\ CopiesWithin(S) /\ MergesWithin(S)

LEMMA SolOf ==
    ASSUME NEW S
    PROVE  /\ \A v \in Var : Sol(S, v) = {o \in Obj : <<v, o>> \in S}
           /\ \A o \in Obj : Sol(S, o) = {x \in Obj : <<baseOf[o], x>> \in S}
           /\ \A o \in Obj : baseOf[o] \in Obj /\ Sol(S, baseOf[o]) = Sol(S, o)
  BY ConsGAssumption DEF ConsGAssumption, Sol

LEMMA StatementsWithin ==
    ASSUME NEW S \in SUBSET (Node \X Obj), FiRules(S), prog \in Programs, NEW e \in prog.stmts
    PROVE  EdgeWithin(S, e)
  <1>1. /\ e.kind # "addr" => e.src \in Var /\ e.dst \in Var
        /\ e.kind \in DirectKind => e.kind # "addr"
    BY AndersenAssumption DEF AndersenAssumption, DirectKind, GepKind
  <1>0. /\ \A v \in Var : \A o : o \in Sol(S, v) <=> o \in Obj /\ <<v, o>> \in S
        /\ \A b \in Obj : baseOf[b] = b => \A o : o \in Sol(S, b) <=> o \in Obj /\ <<b, o>> \in S
    BY SolOf
  <1>2. ASSUME e.kind \in DirectKind PROVE Sol(S, e.src) \subseteq Sol(S, e.dst)
    <2>1. \A o : <<e.src, o>> \in S => <<e.dst, o>> \in S
      BY <1>2 DEF FiRules
    <2> QED
      BY <1>0, <1>1, <1>2, <2>1
  <1>3. ASSUME e.kind = "load", NEW o \in Sol(S, e.src) \ constObj, baseOf[o] = o
        PROVE  Sol(S, o) \subseteq Sol(S, e.dst)
    <2>1. e.src \in Var /\ e.dst \in Var /\ o \in Obj /\ <<e.src, o>> \in S
      BY <1>0, <1>1, <1>3
    <2>2. \A x : <<o, x>> \in S => <<e.dst, x>> \in S
      BY <1>3, <2>1 DEF FiRules, Stmts, OfKind
    <2> QED
      BY <1>0, <1>3, <2>1, <2>2
  <1>4. ASSUME e.kind = "store", NEW o \in Sol(S, e.dst) \ constObj, baseOf[o] = o
        PROVE  Sol(S, e.src) \subseteq Sol(S, o)
    <2>1. e.src \in Var /\ e.dst \in Var /\ o \in Obj /\ <<e.dst, o>> \in S
      BY <1>0, <1>1, <1>4
    <2>2. \A x : <<e.src, x>> \in S => <<o, x>> \in S
      BY <1>4, <2>1 DEF FiRules, Stmts, OfKind
    <2> QED
      BY <1>0, <1>4, <2>1, <2>2
  <1> QED
    BY <1>2, <1>3, <1>4 DEF EdgeWithin

LEMMA InitWithin ==
    ASSUME Init, NEW S \in SUBSET (Node \X Obj), FiRules(S)
    PROVE  Within(S)
  <1>1. /\ prog \in Programs /\ edges = prog.stmts /\ newCopies = {} /\ merges = {}
        /\ collapsing.base = {}
        /\ rep = [n \in Node |-> n]
        /\ pts = [n \in Node |-> {e.src : e \in {x \in OfKind(prog.stmts, "addr") : x.dst = n}}]
    BY DEF Init, NotCollapsing
  <1>2. TargetsWithin(S, pts)
    <2> SUFFICES ASSUME NEW n \in Node, NEW e \in prog.stmts, e.kind = "addr", e.dst = n
                 PROVE  baseOf[e.src] \in Sol(S, n)
      BY <1>1 DEF TargetsWithin, OfKind
    <2>1. e.src \in Obj /\ baseOf[e.src] = e.src /\ n \in Var
      BY <1>1, AndersenAssumption DEF AndersenAssumption
    <2>2. <<n, e.src>> \in S
      BY DEF FiRules, Stmts, OfKind
    <2> QED
      BY <2>1, <2>2, SolOf
  <1>3. EdgesWithin(S)
    BY <1>1, StatementsWithin DEF EdgesWithin
  <1> QED
    BY <1>1, <1>2, <1>3 DEF Within, RepsWithin, CopiesWithin, MergesWithin

(* Merging nodes with the same targets in S. *)
LEMMA MergeWithin ==
    ASSUME IInv, NEW S, Within(S), NEW s \in alive, NEW r \in alive, s # r, Sol(S, s) = Sol(S, r),
           NEW P \in [Node -> SUBSET Obj], TargetsWithin(S, P), mergeSrcToTgt(s, r, P)
    PROVE  TargetsWithin(S, pts)' /\ RepsWithin(S)' /\ EdgesWithin(S)'
  <1>1. Merged(s, r, P) /\ edges \in SUBSET Edge
    BY MergeEffects DEF IInv, TypeInv, TypeOK
  <1>2. /\ s \in Node /\ r \in Node
        /\ \A n \in Node : pts'[n] = IF n = r THEN P[r] \union P[s] ELSE P[n]
        /\ \A n \in Node : rep'[n] = IF rep[n] = s THEN r ELSE rep[n]
        /\ edges' = moveEdgesToRepNode(edges, s, r)
    BY <1>1 DEF Merged
  <1>3. TargetsWithin(S, pts)'
    BY <1>2 DEF TargetsWithin
  <1>4. RepsWithin(S)'
    BY <1>2 DEF Within, RepsWithin
  <1>5. EdgesWithin(S)'
    <2> SUFFICES ASSUME NEW e \in edges' PROVE EdgeWithin(S, e)
      BY DEF EdgesWithin
    <2>1. PICK x \in edges : /\ e.kind = x.kind
                             /\ e.src = IF x.src = s THEN r ELSE x.src
                             /\ e.dst = IF x.dst = s THEN r ELSE x.dst
      BY <1>1, <1>2, MoveEdges
    <2>2. Sol(S, e.src) = Sol(S, x.src) /\ Sol(S, e.dst) = Sol(S, x.dst)
      BY <2>1
    <2>3. EdgeWithin(S, x)
      BY DEF Within, EdgesWithin
    <2> QED
      BY <2>1, <2>2, <2>3 DEF EdgeWithin
  <1> QED
    BY <1>3, <1>4, <1>5

(* Of two nodes one of which reaches the other, S gives the second at least  *)
(* the targets of the first; so nodes of one cycle have the same ones.       *)
LEMMA ReachWithin ==
    ASSUME GraphInv, NEW S, EdgesWithin(S), NEW n \in alive, NEW m \in alive,
           <<n, m>> \in Reaches(edges, alive)
    PROVE  Sol(S, n) \subseteq Sol(S, m)
  <1> DEFINE K == {k \in alive : Sol(S, n) \subseteq Sol(S, k)}
  <1>1. directSuccs(edges, K) \subseteq K
    <2> SUFFICES ASSUME NEW e \in edges, e.kind \in DirectKind, e.src \in K PROVE e.dst \in K
      BY DEF directSuccs
    <2>1. Sol(S, e.src) \subseteq Sol(S, e.dst) /\ e.dst \in alive
      BY DEF EdgesWithin, EdgeWithin, GraphInv, EdgesLive
    <2> QED
      BY <2>1
  <1>2. K \in ClosedSets(edges, alive) /\ n \in K
    BY <1>1 DEF ClosedSets
  <1>3. SUFFICES ASSUME m \notin K PROVE FALSE
    OBVIOUS
  <1>4. <<n, m>> \in Apart(edges, alive)
    BY <1>2, <1>3 DEF Apart
  <1> QED
    BY <1>4 DEF Reaches

(* Steps that leave nodes, edges and targets alone. *)
LEMMA SameWithin ==
    ASSUME NEW S, Within(S), UNCHANGED <<pts, rep, edges>>, CopiesWithin(S)', MergesWithin(S)'
    PROVE  Within(S)'
  BY DEF Within, TargetsWithin, RepsWithin, EdgesWithin

LEMMA SCCDetectWithin ==
    ASSUME IInv, NEW S, Within(S), SCCDetect
    PROVE  Within(S)'
  <1>1. UNCHANGED <<pts, rep, edges, newCopies, collapsing>>
    BY DEF SCCDetect, graph, facts
  <1>2. PICK R \in SUBSET alive :
           merges' = {p \in (alive \ R) \X R : sameSCC(Reaches(edges, alive), p[1], p[2])}
    BY DEF SCCDetect
  <1>3. ASSUME NEW p \in merges' PROVE Sol(S, p[1]) = Sol(S, p[2])
    <2>1. PICK n \in alive, m \in alive :
             /\ n = p[1] /\ m = p[2]
             /\ <<n, m>> \in Reaches(edges, alive) /\ <<m, n>> \in Reaches(edges, alive)
      BY <1>2 DEF sameSCC
    <2>2. EdgesWithin(S) /\ GraphInv
      BY DEF Within, IInv
    <2>3. Sol(S, n) \subseteq Sol(S, m)
      BY <2>1, <2>2, ReachWithin
    <2>4. Sol(S, m) \subseteq Sol(S, n)
      BY <2>1, <2>2, ReachWithin
    <2> QED
      BY <2>1, <2>3, <2>4
  <1>4. CopiesWithin(S)' /\ MergesWithin(S)'
    BY <1>1, <1>3 DEF Within, CopiesWithin, MergesWithin
  <1> QED
    BY <1>1, <1>4, SameWithin

LEMMA MergeSccWithin ==
    ASSUME IInv, NEW S, Within(S), NEW s \in Node, NEW r \in Node, mergeSccNode(s, r)
    PROVE  Within(S)'
  <1>1. s \in alive /\ r \in alive /\ s # r
    BY DEF IInv, AgendaInv, MergesDisjoint, mergeSccNode
  <1>2. /\ pts \in [Node -> SUBSET Obj] /\ mergeSrcToTgt(s, r, pts) /\ <<s, r>> \in merges
        /\ merges' \subseteq merges /\ UNCHANGED <<newCopies, collapsing>>
    BY DEF IInv, TypeInv, TypeOK, mergeSccNode
  <1>3. PICK P \in [Node -> SUBSET Obj] : P = pts /\ mergeSrcToTgt(s, r, P)
    BY <1>2
  <1>4. TargetsWithin(S, P)
    BY <1>3 DEF Within
  <1>5. Sol(S, s) = Sol(S, r)
    BY <1>2 DEF Within, MergesWithin
  <1>6. TargetsWithin(S, pts)' /\ RepsWithin(S)' /\ EdgesWithin(S)'
    BY <1>1, <1>3, <1>4, <1>5, MergeWithin
  <1> QED
    BY <1>2, <1>6 DEF Within, CopiesWithin, MergesWithin

LEMMA CollapseFieldWithin ==
    ASSUME IInv, NEW S, Within(S), NEW o \in Obj, collapseField(o)
    PROVE  Within(S)'
  <1>1. /\ UNCHANGED <<pts, rep, edges, newCopies, merges>>
        /\ collapsing'.base = {baseOf[o]} /\ collapsing'.rep = {rep[baseOf[o]]}
        /\ baseOf[o] \in Node
    BY ConsGAssumption DEF ConsGAssumption, collapseField, graph, Node
  <1>2. Sol(S, rep[baseOf[o]]) = Sol(S, baseOf[o])
    BY <1>1 DEF Within, RepsWithin
  <1>3. CopiesWithin(S)' /\ MergesWithin(S)'
    BY <1>1, <1>2 DEF Within, CopiesWithin, MergesWithin
  <1> QED
    BY <1>1, <1>3, SameWithin

LEMMA CollapseOneWithin ==
    ASSUME IInv, NEW S, Within(S), NEW f \in Obj, collapseOneField(f)
    PROVE  Within(S)'
  <1>1. PICK base \in collapsing.base, r \in collapsing.rep :
           /\ base \in Obj /\ base \in Node /\ baseOf[base] = base /\ base \in fi /\ baseOf[f] = base
           /\ f \in Node /\ r \in alive /\ rep[f] \in alive
           /\ Replaced(f, base) \in [Node -> SUBSET Obj]
           /\ \A n \in Node : Replaced(f, base)[n] =
                 IF f \in pts[n] THEN (pts[n] \ {f}) \union {base} ELSE pts[n]
           /\ \/ rep[f] = r /\ pts' = Replaced(f, base) /\ UNCHANGED <<propa, graph>>
              \/ rep[f] # r /\ mergeSrcToTgt(rep[f], r, Replaced(f, base))
    BY CollapseOneEffects
  <1>7. collapsing' = [collapsing EXCEPT !.fields = @ \ {f}] /\ UNCHANGED <<merges, newCopies>>
    BY DEF collapseOneField
  <1>2. PICK P \in [Node -> SUBSET Obj] : P = Replaced(f, base)
    BY <1>1
  <1>3. TargetsWithin(S, P)
    <2> SUFFICES ASSUME NEW n \in Node, NEW o \in P[n] PROVE baseOf[o] \in Sol(S, n)
      BY DEF TargetsWithin
    <2>1. o \in pts[n] \/ (o = base /\ f \in pts[n])
      BY <1>1, <1>2
    <2> QED
      BY <1>1, <2>1 DEF Within, TargetsWithin
  <1>4. Sol(S, rep[f]) = Sol(S, r)
    <2>1. Sol(S, rep[f]) = Sol(S, f) /\ Sol(S, r) = Sol(S, base)
      BY <1>1 DEF Within, RepsWithin, MergesWithin
    <2>2. Sol(S, baseOf[f]) = Sol(S, f)
      BY SolOf
    <2> QED
      BY <1>1, <2>1, <2>2
  <1>5. TargetsWithin(S, pts)' /\ RepsWithin(S)' /\ EdgesWithin(S)'
    <2>1. CASE rep[f] = r /\ pts' = P /\ UNCHANGED <<propa, graph>>
      BY <1>3, <2>1 DEF Within, TargetsWithin, RepsWithin, EdgesWithin, graph
    <2>2. CASE rep[f] # r /\ mergeSrcToTgt(rep[f], r, P)
      BY <1>1, <1>3, <1>4, <2>2, MergeWithin
    <2> QED
      BY <1>1, <1>2, <2>1, <2>2
  <1>6. collapsing'.base = collapsing.base /\ collapsing'.rep = collapsing.rep
    BY <1>7 DEF IInv, TypeInv, TypeOK
  <1> QED
    BY <1>5, <1>6, <1>7 DEF Within, CopiesWithin, MergesWithin

LEMMA ProcessNodeWithin ==
    ASSUME IInv, NEW S, Within(S), processNode
    PROVE  Within(S)'
  <1>1. UNCHANGED <<rep, edges, newCopies, merges, collapsing>>
    BY DEF processNode
  <1>2. RepsWithin(S)' /\ EdgesWithin(S)' /\ CopiesWithin(S)' /\ MergesWithin(S)'
    BY <1>1 DEF Within, RepsWithin, EdgesWithin, CopiesWithin, MergesWithin
  <1>3. TargetsWithin(S, pts)'
    <2>1. CASE rep[current] # current
      BY <2>1 DEF processNode, facts, Within, TargetsWithin
    <2>2. CASE rep[current] = current
      <3> SUFFICES ASSUME NEW n \in Node, NEW t \in pts'[n] PROVE baseOf[t] \in Sol(S, n)
        BY DEF TargetsWithin
      <3>1. t \in pts[n] \/ t \in flowTo(current, n, Diff)
        BY <2>2, ProcessNodeSteps
      <3>2. CASE t \in flowTo(current, n, Diff)
        <4>1. PICK e \in edges, o \in Diff :
                 e.kind \in DirectKind /\ e.src = current /\ e.dst = n /\ t = edgeTarget(e, o)
          BY <3>2 DEF flowTo
        <4>2. e \in Edge /\ current \in Node /\ o \in Obj /\ o \in pts[current]
          BY <4>1, FlowTypes DEF IInv, TypeInv, TypeOK, Diff
        <4>3. baseOf[t] = baseOf[o]
          BY <4>1, <4>2, ConsGAssumption DEF ConsGAssumption, edgeTarget, DirectKind, GepKind, Edge
        <4>4. Sol(S, current) \subseteq Sol(S, n)
          BY <4>1 DEF Within, EdgesWithin, EdgeWithin
        <4> QED
          BY <4>2, <4>3, <4>4 DEF Within, TargetsWithin
      <3> QED
        BY <3>1, <3>2 DEF Within, TargetsWithin
    <2> QED
      BY <2>1, <2>2
  <1> QED
    BY <1>2, <1>3 DEF Within

LEMMA PostProcessWithin ==
    ASSUME IInv, NEW S, Within(S), NEW n \in Node, postProcessNode(n)
    PROVE  Within(S)'
  <1>1. /\ UNCHANGED <<pts, rep, edges, merges, collapsing>>
        /\ newCopies' = newCopyEdges(loadCopies(rep[n]) \union storeCopies(rep[n]))
    BY DEF postProcessNode, graph, facts
  <1>2. rep[n] \in Node /\ pts \in [Node -> SUBSET Obj]
    BY DEF IInv, TypeInv, TypeOK
  <1>3. ASSUME NEW o \in pts[rep[n]] \ constObj
        PROVE  /\ baseOf[o] \in Sol(S, rep[n]) \ constObj /\ baseOf[baseOf[o]] = baseOf[o]
               /\ Sol(S, rep[o]) = Sol(S, baseOf[o])
    <2>1. o \in Obj /\ o \in Node
      BY <1>2 DEF Node
    <2>2. Sol(S, rep[o]) = Sol(S, o) /\ Sol(S, baseOf[o]) = Sol(S, o)
      BY <2>1, SolOf DEF Within, RepsWithin
    <2>3. baseOf[o] \in Sol(S, rep[n])
      BY <1>2 DEF Within, TargetsWithin
    <2>4. baseOf[o] \notin constObj
      BY <2>1, AndersenAssumption DEF AndersenAssumption
    <2> QED
      BY <2>1, <2>2, <2>3, <2>4, ConsGAssumption DEF ConsGAssumption
  <1>4. CopiesWithin(S)'
    <2> SUFFICES ASSUME NEW c \in newCopies' PROVE Sol(S, c[1]) \subseteq Sol(S, c[2])
      BY DEF CopiesWithin
    <2>1. CASE c \in loadCopies(rep[n])
      <3>1. PICK o \in pts[rep[n]] \ constObj, e \in edges :
               c = <<rep[o], e.dst>> /\ e.kind = "load" /\ e.src = rep[n]
        BY <2>1 DEF loadCopies, OfKind
      <3>2. Sol(S, baseOf[o]) \subseteq Sol(S, e.dst)
        BY <1>3, <3>1 DEF Within, EdgesWithin, EdgeWithin
      <3> QED
        BY <1>3, <3>1, <3>2
    <2>2. CASE c \in storeCopies(rep[n])
      <3>1. PICK o \in pts[rep[n]] \ constObj, e \in edges :
               c = <<e.src, rep[o]>> /\ e.kind = "store" /\ e.dst = rep[n]
        BY <2>2 DEF storeCopies, OfKind
      <3>2. Sol(S, e.src) \subseteq Sol(S, baseOf[o])
        BY <1>3, <3>1 DEF Within, EdgesWithin, EdgeWithin
      <3> QED
        BY <1>3, <3>1, <3>2
    <2> QED
      BY <1>1, <2>1, <2>2 DEF newCopyEdges
  <1>5. MergesWithin(S)'
    BY <1>1 DEF Within, MergesWithin
  <1> QED
    BY <1>1, <1>4, <1>5, SameWithin

LEMMA UpdateCallGraphWithin ==
    ASSUME IInv, NEW S, Within(S), FiRules(S), updateCallGraph
    PROVE  Within(S)'
  <1>1. /\ UNCHANGED <<pts, rep, edges, merges, collapsing>>
        /\ newCopies' = newCopyEdges(UNION {paramCopies(c[1], c[2]) : c \in newCallEdges})
    BY DEF updateCallGraph, graph, facts
  <1>2. prog \in Programs /\ rep \in [Node -> Node]
    BY DEF IInv, TypeInv, TypeOK
  <1>3. \A n \in Node : Sol(S, rep[n]) = Sol(S, n)
    BY DEF Within, RepsWithin
  <1>4. \A v \in Var : v \in Node /\ \A o : o \in Sol(S, v) <=> o \in Obj /\ <<v, o>> \in S
    BY SolOf DEF Node
  <1>5. CopiesWithin(S)'
    <2> SUFFICES ASSUME NEW d \in newCallEdges, NEW c \in paramCopies(d[1], d[2])
                 PROVE  Sol(S, c[1]) \subseteq Sol(S, c[2])
      BY <1>1 DEF CopiesWithin, newCopyEdges
    <2> DEFINE cs == d[1]
               f == d[2]
    <2>1. cs \in prog.calls /\ f \in DOMAIN formal /\ f \in callees(cs)
      BY DEF newCallEdges
    <2>2. /\ cs.fp \in Var /\ cs.arg \in Var /\ cs.res \in Var
          /\ formal[f] \in Var /\ funRet[f] \in Var
      BY <1>2, <2>1, AndersenAssumption DEF AndersenAssumption, CallSite
    <2>3. PICK o \in getPts(cs.fp) : f = baseOf[o]
      BY <2>1 DEF callees
    <2>4. f \in Sol(S, cs.fp)
      BY <1>2, <1>3, <1>4, <2>2, <2>3 DEF Within, TargetsWithin, getPts
    <2>5. /\ \A x : <<cs.arg, x>> \in S => <<formal[f], x>> \in S
          /\ \A x : <<funRet[f], x>> \in S => <<cs.res, x>> \in S
      BY <1>4, <2>1, <2>2, <2>4 DEF FiRules
    <2>6. Sol(S, cs.arg) \subseteq Sol(S, formal[f]) /\ Sol(S, funRet[f]) \subseteq Sol(S, cs.res)
      BY <1>4, <2>2, <2>5
    <2>7. c = <<rep[cs.arg], rep[formal[f]]>> \/ c = <<rep[funRet[f]], rep[cs.res]>>
      BY DEF paramCopies
    <2> HIDE DEF cs, f
    <2> QED
      BY <1>3, <1>4, <2>2, <2>6, <2>7
  <1>6. MergesWithin(S)'
    BY <1>1 DEF Within, MergesWithin
  <1> QED
    BY <1>1, <1>5, <1>6, SameWithin

LEMMA AddCopyEdgeWithin ==
    ASSUME NEW S, Within(S), NEW s \in Node, NEW d \in Node, addCopyEdge(s, d)
    PROVE  Within(S)'
  <1>1. /\ <<s, d>> \in newCopies /\ newCopies' \subseteq newCopies
        /\ edges' = edges \union {PlainEdge("copy", s, d)}
        /\ UNCHANGED <<pts, rep, merges, collapsing>>
    BY DEF addCopyEdge
  <1>2. EdgeWithin(S, PlainEdge("copy", s, d))
    BY <1>1 DEF EdgeWithin, PlainEdge, Within, CopiesWithin
  <1>3. EdgesWithin(S)'
    BY <1>1, <1>2 DEF Within, EdgesWithin
  <1> QED
    BY <1>1, <1>3 DEF Within, TargetsWithin, RepsWithin, CopiesWithin, MergesWithin

LEMMA NextWithin ==
    ASSUME IInv, NEW S, Within(S), FiRules(S), [Next]_vars
    PROVE  Within(S)'
  <1>1. CASE \/ endWave \/ endRound \/ UNCHANGED vars \/ endCollapseField
             \/ \E n \in Node : visit(n)
    <2>1. /\ UNCHANGED <<pts, rep, edges, newCopies, merges>>
          /\ collapsing' = collapsing \/ collapsing' = NotCollapsing
      BY <1>1 DEF endCollapseField, endWave, endRound, visit, vars, graph, facts, control
    <2>2. CopiesWithin(S)' /\ MergesWithin(S)'
      BY <2>1 DEF Within, CopiesWithin, MergesWithin, NotCollapsing
    <2> QED
      BY <2>1, <2>2, SameWithin
  <1> QED
    BY <1>1, SCCDetectWithin, MergeSccWithin, CollapseFieldWithin, CollapseOneWithin,
       ProcessNodeWithin, PostProcessWithin, UpdateCallGraphWithin, AddCopyEdgeWithin
       DEF Next, finished

\* The solver stays within every solution.
PreciseInv == \A S \in SUBSET (Node \X Obj) : FiRules(S) => Within(S)

LEMMA NextPrecise == IInv /\ PreciseInv /\ [Next]_vars => PreciseInv'
  <1> SUFFICES ASSUME IInv, PreciseInv, [Next]_vars,
                      NEW S \in SUBSET (Node \X Obj), FiRules(S)'
               PROVE  Within(S)'
    BY DEF PreciseInv
  <1>1. prog' = prog
    BY DEF Next, SCCDetect, mergeSccNode, collapseField, collapseOneField, endCollapseField, visit,
           postProcessNode, processNode, endWave, addCopyEdge, updateCallGraph, endRound, finished, vars
  <1>2. FiRules(S)
    BY <1>1 DEF FiRules, Stmts
  <1> QED
    BY <1>2, NextWithin DEF PreciseInv

THEOREM PreciseInvariance == Spec => [](IInv /\ PreciseInv)
  <1>1. Init => IInv /\ PreciseInv
    BY InitInv, InitWithin DEF PreciseInv
  <1>2. (IInv /\ PreciseInv) /\ [Next]_vars => (IInv /\ PreciseInv)'
    BY NextInv, NextPrecise
  <1> QED
    BY <1>1, <1>2, PTL DEF Spec

-----------------------------------------------------------------------------
(* The least solution is a solution: fiStep goes on until it adds nothing,   *)
(* which it does since there are finitely many pairs.                        *)
FiAt(A, n) == {o \in Obj : <<n, o>> \in A}
FiDirect == {<<e.src, e.dst>> : e \in {x \in prog.stmts : x.kind \in DirectKind}}
FiLoads(A) == UNION {(FiAt(A, e.src) \ constObj) \X {e.dst} : e \in Stmts("load")}
FiStores(A) == UNION {{e.src} \X (FiAt(A, e.dst) \ constObj) : e \in Stmts("store")}
FiCall(A, cs) == UNION {{<<cs.arg, formal[f]>>, <<funRet[f], cs.res>>} :
                            f \in FiAt(A, cs.fp) \intersect DOMAIN formal}
FiCalls(A) == UNION {FiCall(A, cs) : cs \in prog.calls}
FiCopies(A) == FiDirect \union FiLoads(A) \union FiStores(A) \union FiCalls(A)

LEMMA FiStep ==
    ASSUME NEW A
    PROVE  fiStep(A) = A \union {<<e.dst, e.src>> : e \in Stmts("addr")}
                         \union UNION {{c[2]} \X FiAt(A, c[1]) : c \in FiCopies(A)}
  BY Zenon DEF fiStep, FiAt, FiCopies, FiDirect, FiLoads, FiStores, FiCalls, FiCall

LEMMA FiStepIsPairs ==
    ASSUME prog \in Programs, NEW A \in SUBSET (Node \X Obj)
    PROVE  fiStep(A) \in SUBSET (Node \X Obj) /\ A \subseteq fiStep(A)
  <1>1. \A e \in prog.stmts : /\ e.src \in Node /\ e.dst \in Node
                              /\ e.kind = "addr" => e.src \in Obj
    BY AndersenAssumption DEF AndersenAssumption, Edge
  <1>2. \A cs \in prog.calls : cs.res \in Node
    BY AndersenAssumption DEF AndersenAssumption, CallSite, Node
  <1>3. \A f \in DOMAIN formal : formal[f] \in Node
    BY AndersenAssumption DEF AndersenAssumption, Node
  <1>4. \A c \in FiCopies(A) : c[2] \in Node
    <2>1. \A o \in Obj : o \in Node
      BY DEF Node
    <2> SUFFICES ASSUME NEW c \in FiCopies(A) PROVE c[2] \in Node
      OBVIOUS
    <2>2. CASE \E e \in prog.stmts : c = <<e.src, e.dst>>
      BY <1>1, <2>2
    <2>3. CASE \E e \in Stmts("load") : c \in (FiAt(A, e.src) \ constObj) \X {e.dst}
      BY <1>1, <2>3 DEF Stmts, OfKind
    <2>4. CASE \E e \in Stmts("store") : c \in {e.src} \X (FiAt(A, e.dst) \ constObj)
      BY <2>1, <2>4 DEF FiAt
    <2>5. CASE \E cs \in prog.calls : \E f \in DOMAIN formal :
                  c = <<cs.arg, formal[f]>> \/ c = <<funRet[f], cs.res>>
      BY <1>2, <1>3, <2>5
    <2>6. \/ c \in FiDirect
          \/ c \in FiLoads(A)
          \/ c \in FiStores(A)
          \/ \E cs \in prog.calls : c \in FiCall(A, cs)
      BY DEF FiCopies, FiCalls
    <2>7. c \in FiDirect => \E e \in prog.stmts : c = <<e.src, e.dst>>
      BY DEF FiDirect
    <2>8. c \in FiLoads(A) => \E e \in Stmts("load") : c \in (FiAt(A, e.src) \ constObj) \X {e.dst}
      BY DEF FiLoads
    <2>9. c \in FiStores(A) => \E e \in Stmts("store") : c \in {e.src} \X (FiAt(A, e.dst) \ constObj)
      BY DEF FiStores
    <2>10. \A cs \in prog.calls : c \in FiCall(A, cs) =>
              \E f \in DOMAIN formal : c = <<cs.arg, formal[f]>> \/ c = <<funRet[f], cs.res>>
      BY DEF FiCall
    <2> QED
      BY <2>2, <2>3, <2>4, <2>5, <2>6, <2>7, <2>8, <2>9, <2>10
  <1>5. \A c \in FiCopies(A) : {c[2]} \X FiAt(A, c[1]) \subseteq Node \X Obj
    BY <1>4 DEF FiAt
  <1>6. {<<e.dst, e.src>> : e \in Stmts("addr")} \subseteq Node \X Obj
    BY <1>1 DEF Stmts, OfKind
  <1> QED
    BY <1>5, <1>6, FiStep

LEMMA FixedIsSolution ==
    ASSUME prog \in Programs, NEW S \in SUBSET (Node \X Obj), fiStep(S) = S
    PROVE  FiRules(S)
  <1>1. \A e \in Stmts("addr") : <<e.dst, e.src>> \in S
    BY FiStep
  <1>2. ASSUME NEW a, NEW b, <<a, b>> \in FiCopies(S), NEW x, <<a, x>> \in S
        PROVE  <<b, x>> \in S
    <2>1. x \in FiAt(S, a)
      BY <1>2 DEF FiAt
    <2>2. PICK c \in FiCopies(S) : c = <<a, b>>
      BY <1>2
    <2>3. <<b, x>> \in {c[2]} \X FiAt(S, c[1])
      BY <2>1, <2>2
    <2> QED
      BY <2>3, FiStep
  <1>3. ASSUME NEW e \in prog.stmts, e.kind \in DirectKind, NEW o, <<e.src, o>> \in S
        PROVE  <<e.dst, o>> \in S
    <2>1. <<e.src, e.dst>> \in FiCopies(S)
      BY <1>3 DEF FiCopies, FiDirect
    <2> QED
      BY <1>2, <1>3, <2>1
  <1>4. ASSUME NEW e \in Stmts("load"), NEW o, <<e.src, o>> \in S, o \notin constObj, NEW x, <<o, x>> \in S
        PROVE  <<e.dst, x>> \in S
    <2>1. <<o, e.dst>> \in (FiAt(S, e.src) \ constObj) \X {e.dst}
      BY <1>4 DEF FiAt
    <2>2. <<o, e.dst>> \in FiCopies(S)
      BY <1>4, <2>1 DEF FiCopies, FiLoads
    <2> QED
      BY <1>2, <1>4, <2>2
  <1>5. ASSUME NEW e \in Stmts("store"), NEW o, <<e.dst, o>> \in S, o \notin constObj, NEW x, <<e.src, x>> \in S
        PROVE  <<o, x>> \in S
    <2>1. <<e.src, o>> \in {e.src} \X (FiAt(S, e.dst) \ constObj)
      BY <1>5 DEF FiAt
    <2>2. <<e.src, o>> \in FiCopies(S)
      <3>1. <<e.src, o>> \in FiStores(S)
        BY <1>5, <2>1 DEF FiStores
      <3> QED
        BY <3>1 DEF FiCopies
    <2> QED
      BY <1>2, <1>5, <2>2
  <1>6. ASSUME NEW cs \in prog.calls, NEW f \in DOMAIN formal, <<cs.fp, f>> \in S, NEW x
        PROVE  /\ <<cs.arg, x>> \in S => <<formal[f], x>> \in S
               /\ <<funRet[f], x>> \in S => <<cs.res, x>> \in S
    <2>1. f \in FiAt(S, cs.fp) \intersect DOMAIN formal
      BY <1>6 DEF FiAt
    <2>2. <<cs.arg, formal[f]>> \in FiCopies(S) /\ <<funRet[f], cs.res>> \in FiCopies(S)
      <3>1. <<cs.arg, formal[f]>> \in FiCall(S, cs) /\ <<funRet[f], cs.res>> \in FiCall(S, cs)
        BY <2>1 DEF FiCall
      <3>2. FiCall(S, cs) \subseteq FiCalls(S)
        BY <1>6 DEF FiCalls
      <3> QED
        BY <3>1, <3>2 DEF FiCopies
    <2> QED
      BY <1>2, <2>2
  <1> QED
    BY <1>1, <1>3, <1>4, <1>5, <1>6 DEF FiRules

LEMMA LeastIsSolution ==
    ASSUME prog \in Programs
    PROVE  fiLeast \in SUBSET (Node \X Obj) /\ FiRules(fiLeast)
  <1> DEFINE D == SUBSET (Node \X Obj)
             F == [A \in D |-> fiStep(A)]
             size == [A \in D |-> A]
             Eq(g) == g = [A \in D |-> IF fiStep(A) = A THEN A ELSE g[fiStep(A)]]
  <1>1. F \in [D -> D] /\ \A A \in D : F[A] = fiStep(A) /\ A \subseteq fiStep(A)
    BY FiStepIsPairs
  <1>2. PICK g : Iterates(D, F, g)
    <2> HIDE DEF D, F
    <2> QED
      BY <1>1, GrowExists
  <1>3. \A h : [A \in D |-> IF F[A] = A THEN A ELSE h[F[A]]]
                 = [A \in D |-> IF fiStep(A) = A THEN A ELSE h[fiStep(A)]]
    OBVIOUS
  <1>4. Eq(g)
    <2>1. g = [A \in D |-> IF F[A] = A THEN A ELSE g[F[A]]]
      BY <1>2 DEF Iterates
    <2> QED
      BY <1>3, <2>1
  <1>5. fiLeast = (CHOOSE h : Eq(h))[{}]
    BY DEF fiLeast
  <1> HIDE DEF Eq
  <1>6. Eq(CHOOSE h : Eq(h))
    BY <1>4
  <1>7. PICK h : fiLeast = h[{}] /\ Eq(h)
    BY <1>5, <1>6
  <1>8. Iterates(D, F, h)
    BY <1>3, <1>7 DEF Iterates, Eq
  <1>9. IsFiniteSet(Node \X Obj)
    BY AndersenAssumption, FS_Union, FS_Product DEF AndersenAssumption, Node
  <1>10. /\ size \in [D -> SUBSET (Node \X Obj)] /\ {} \in D /\ D \in SUBSET D
         /\ \A A \in D : size[A] = A
    BY DEF D
  <1>11. ClosedUnder(F, D)
    BY <1>1 DEF ClosedUnder
  <1>12. \A A \in D : F[A] # A => size[A] \subseteq size[F[A]] /\ size[A] # size[F[A]]
    BY <1>1, <1>10
  <1>13. h[{}] \in D /\ F[h[{}]] = h[{}]
    <2> HIDE DEF D, F, size
    <2> DEFINE U == Node \X Obj
    <2>1. size \in [D -> SUBSET U] /\ IsFiniteSet(U)
      BY <1>9, <1>10
    <2> HIDE DEF U
    <2> QED
      BY <1>1, <1>8, <1>10, <1>11, <1>12, <2>1, GrowEnds
  <1>14. fiLeast \in SUBSET (Node \X Obj) /\ fiStep(fiLeast) = fiLeast
    BY <1>1, <1>7, <1>13
  <1> QED
    BY <1>14, FixedIsSolution

(* The result is no coarser than the field-insensitive least solution:       *)
(* merging nodes and collapsing structures adds no target of its own         *)
(* (mergeSccCycle, collapseField).                                           *)
THEOREM NoTargetInvented == Spec => []Precise
  <1>1. IInv /\ PreciseInv => Precise
    <2> SUFFICES ASSUME IInv, PreciseInv, NEW v \in Var, NEW o \in getPts(v)
                 PROVE  <<v, baseOf[o]>> \in fiLeast
      BY DEF Precise
    <2>1. prog \in Programs /\ rep \in [Node -> Node] /\ pts \in [Node -> SUBSET Obj] /\ v \in Node
      BY DEF IInv, TypeInv, TypeOK, Node
    <2>2. PICK S \in SUBSET (Node \X Obj) : S = fiLeast /\ FiRules(S)
      BY <2>1, LeastIsSolution
    <2>3. TargetsWithin(S, pts) /\ RepsWithin(S)
      BY <2>2 DEF PreciseInv, Within
    <2>4. baseOf[o] \in Sol(S, v)
      BY <2>1, <2>3 DEF TargetsWithin, RepsWithin, getPts
    <2> QED
      BY <2>2, <2>4, SolOf
  <1> QED
    BY <1>1, PreciseInvariance, PTL
=============================================================================
