-------------------------- MODULE CFLSolver_proofs --------------------------
(***************************************************************************)
(* Proofs about the CFL-reachability solvers, for every grammar, graph and *)
(* set of calls: the base solver misses no pair of edges, the solved graph *)
(* is closed under the productions and lies within every closed set that   *)
(* holds the given edges, so it is what the grammar derives, and every     *)
(* step is one that the promise of CFLReachability allows.  The solver     *)
(* with maps does the same where its maps can be right.                    *)
(***************************************************************************)
EXTENDS CFLAlias, SequenceTheorems, Iteration_proofs

Labels == CFLEdge \union {NoEdge}

\* What is still to be done for the current edge concerns its label.
TodoOfCurrent ==
    /\ todo # NoProds => current \in graph
    /\ \A p \in todo.single : p[2] = current.kind
    /\ \A p \in todo.first : p[2] = current.kind
    /\ \A p \in todo.second : p[3] = current.kind

\* The single-symbol counterpart of PairHandled.
SingleHandled(p, e) ==
    \/ edge(e.src, p[1], e.dst) \in graph
    \/ e \in Pending(worklist)
    \/ current = e /\ p \in todo.single
NoSingleMissed ==
    phase # "initialize" =>
      \A p \in Unary : \A e \in graph : e.kind = p[2] => SingleHandled(p, e)

LoopsThere == phase # "initialize" => SelfLoops(graph)
\* Only edges of the graph are pending.
PendingInGraph == Pending(worklist) \ {NoEdge} \subseteq graph
AtRest == /\ phase # "solve" => todo = NoProds
          /\ phase \in {"update", "done"} => worklist = <<>>

Inv == /\ TypeOK /\ TodoOfCurrent /\ LoopsThere /\ AtRest /\ PendingInGraph
       /\ NoSingleMissed /\ NoPairMissed

\* An edge is pending if it is in one of the pushed sets.
LEMMA InPending ==
    ASSUME NEW w, NEW x
    PROVE  x \in Pending(w) <=> \E n \in 1..Len(w) : x \in w[n]
BY DEF Pending

\* Pushing adds to the pending edges exactly what is pushed.
LEMMA PendingPush ==
    ASSUME NEW w \in Seq(SUBSET Labels), NEW E \in SUBSET Labels
    PROVE  Push(w, E) \in Seq(SUBSET Labels) /\ Pending(Push(w, E)) = Pending(w) \union E
<1>1. CASE E \subseteq Pending(w)
  BY <1>1 DEF Push
<1>2. CASE ~(E \subseteq Pending(w))
  <2> DEFINE D == E \ Pending(w)
             v == Append(w, D)
  <2>1. Push(w, E) = v
    BY <1>2 DEF Push
  <2>2. D \in SUBSET Labels
    OBVIOUS
  <2>3. v \in Seq(SUBSET Labels) /\ Len(v) = Len(w) + 1 /\ v[Len(w) + 1] = D
        /\ \A n \in 1..Len(w) : v[n] = w[n]
    BY <2>2
  <2>4. Len(w) \in Nat /\ Len(v) \in Nat
    BY <2>3
  <2>5. 1..Len(v) = 1..Len(w) \union {Len(w) + 1}
    BY <2>3, <2>4
  <2>6. Pending(v) = Pending(w) \union D
    <3> HIDE DEF v, D
    <3>1. ASSUME NEW x PROVE x \in Pending(v) <=> x \in Pending(w) \union D
      <4>1. x \in Pending(v) <=> \E n \in 1..Len(v) : x \in v[n]
        BY InPending
      <4>2. x \in Pending(w) <=> \E n \in 1..Len(w) : x \in w[n]
        BY InPending
      <4> QED BY <2>3, <2>5, <4>1, <4>2
    <3> QED BY <3>1
  <2> QED BY <2>1, <2>3, <2>6
<1> QED BY <1>1, <1>2

\* Taking an edge of the first batch off the list leaves all others pending.
LEMMA PendingPop ==
    ASSUME NEW w \in Seq(SUBSET Labels), w # <<>>, NEW e \in Head(w)
    PROVE  /\ Drop(w, e) \in Seq(SUBSET Labels) /\ e \in Pending(w)
           /\ Pending(Drop(w, e)) \subseteq Pending(w)
           /\ \A x \in Pending(w) : x = e \/ x \in Pending(Drop(w, e))
<1> DEFINE v == Drop(w, e)
<1>1. Head(w) \in SUBSET Labels /\ Tail(w) \in Seq(SUBSET Labels) /\ Len(w) \in Nat \ {0}
      /\ Head(w) = w[1] /\ Len(Tail(w)) = Len(w) - 1
      /\ \A n \in 1..(Len(w) - 1) : Tail(w)[n] = w[n + 1]
  OBVIOUS
<1>2. e \in Pending(w)
  BY <1>1, InPending
<1>3. CASE Head(w) = {e}
  <2>1. v = Tail(w)
    BY <1>3 DEF Drop
  <2>2. ASSUME NEW x \in Pending(v) PROVE x \in Pending(w)
    <3>1. PICK n \in 1..(Len(w) - 1) : x \in Tail(w)[n]
      BY <2>1, <1>1, InPending
    <3>2. n + 1 \in 1..Len(w) /\ x \in w[n + 1]
      BY <3>1, <1>1
    <3> QED BY <3>2, InPending
  <2>3. ASSUME NEW x \in Pending(w), x # e PROVE x \in Pending(v)
    <3>1. PICK n \in 1..Len(w) : x \in w[n]
      BY InPending
    <3>2. n # 1
      BY <3>1, <2>3, <1>3, <1>1
    <3>3. n - 1 \in 1..(Len(w) - 1) /\ (n - 1) + 1 = n
      BY <3>1, <3>2, <1>1
    <3>4. Tail(w)[n - 1] = w[n]
      BY <3>3, <1>1
    <3>5. n - 1 \in 1..Len(v) /\ x \in v[n - 1]
      BY <3>1, <3>3, <3>4, <2>1, <1>1
    <3> QED BY <3>5, InPending
  <2> QED BY <2>1, <2>2, <2>3, <1>1, <1>2
<1>4. CASE Head(w) # {e}
  <2> DEFINE B == Head(w) \ {e}
             L == Len(w)
  <2>1. v = [w EXCEPT ![1] = B]
    BY <1>1, <1>4 DEF Drop
  <2>2. B \in SUBSET Labels /\ L \in Nat /\ 1 \in 1..L
    BY <1>1
  <2>3. v \in Seq(SUBSET Labels) /\ Len(v) = L
    <3> DEFINE T == SUBSET Labels
               u == [w EXCEPT ![1] = B]
    <3>1. w \in Seq(T) /\ 1 \in 1..Len(w) /\ B \in T
      BY <2>2
    <3> HIDE DEF B, T
    <3>2. u \in Seq(T) /\ Len(u) = Len(w)
      BY <3>1, ExceptSeq
    <3> QED BY <2>1, <3>2 DEF T
  <2>4. v[1] = B /\ \A n \in 1..L : n # 1 => v[n] = w[n]
    BY <2>1, <2>2
  <2>5. w[1] = B \union {e}
    BY <1>1
  <2>6. ASSUME NEW x \in Pending(v) PROVE x \in Pending(w)
    <3>1. PICK n \in 1..L : x \in v[n]
      BY <2>3, InPending
    <3>2. x \in w[n]
      BY <3>1, <2>4, <2>5
    <3> QED BY <3>2, InPending
  <2>7. ASSUME NEW x \in Pending(w), x # e PROVE x \in Pending(v)
    <3>1. PICK n \in 1..L : x \in w[n]
      BY InPending
    <3>2. x \in v[n]
      BY <3>1, <2>4, <2>5, <2>7
    <3> QED BY <3>2, <2>3, InPending
  <2> QED BY <2>3, <2>6, <2>7, <1>2
<1> QED BY <1>3, <1>4
-----------------------------------------------------------------------------
\* What adding the edges E and pushing the new ones does.
LEMMA AddAndPushFacts ==
    ASSUME TypeOK, NEW E \in SUBSET CFLEdge, AddAndPush(E)
    PROVE  /\ graph' = graph \union E /\ graph' \subseteq CFLEdge
           /\ worklist' \in Seq(SUBSET Labels)
           /\ Pending(worklist') = Pending(worklist) \union (E \ graph)
<1>1. worklist \in Seq(SUBSET Labels) /\ E \ graph \in SUBSET Labels
  BY DEF TypeOK, Labels
<1>2. worklist' = Push(worklist, E \ graph)
  BY DEF AddAndPush
<1> QED BY <1>1, <1>2, PendingPush DEF AddAndPush, TypeOK

\* What one production asks for has been added: the bookkeeping of the pairs
\* survives when the graph only grows by pushed edges and `todo` shrinks by a
\* production whose edges are all there.
LEMMA HandledStep ==
    ASSUME NoSingleMissed, NoPairMissed, phase # "initialize", phase' = phase,
           NEW E, graph' = graph \union E, current' = current,
           Pending(worklist') = Pending(worklist) \union (E \ graph),
           \A p \in todo.single : p \notin todo'.single =>
               edge(current.src, p[1], current.dst) \in graph',
           \A p \in todo.first : p \notin todo'.first =>
               \A z \in graph : z.kind = p[3] /\ current.dst = z.src =>
                  edge(current.src, p[1], z.dst) \in graph',
           \A p \in todo.second : p \notin todo'.second =>
               \A y \in graph : y.kind = p[2] /\ y.dst = current.src =>
                  edge(y.src, p[1], current.dst) \in graph'
    PROVE  NoSingleMissed' /\ NoPairMissed'
<1>1. NoSingleMissed'
  <2> SUFFICES ASSUME NEW p \in Unary, NEW e \in graph', e.kind = p[2]
               PROVE  SingleHandled(p, e)'
    BY DEF NoSingleMissed
  <2>1. CASE e \in graph
    <3>1. SingleHandled(p, e)
      BY <2>1 DEF NoSingleMissed
    <3> QED BY <3>1 DEF SingleHandled
  <2>2. CASE e \notin graph
    BY <2>2 DEF SingleHandled
  <2> QED BY <2>1, <2>2
<1>2. NoPairMissed'
  <2> SUFFICES ASSUME NEW p \in Binary, NEW y \in graph', NEW z \in graph',
                      y.kind = p[2], z.kind = p[3], y.dst = z.src
               PROVE  PairHandled(p, y, z)'
    BY DEF NoPairMissed
  <2>1. CASE y \in graph /\ z \in graph
    <3>1. PairHandled(p, y, z)
      BY <2>1 DEF NoPairMissed
    <3> QED BY <3>1, <2>1 DEF PairHandled
  <2>2. CASE y \notin graph \/ z \notin graph
    BY <2>2 DEF PairHandled
  <2> QED BY <2>1, <2>2
<1> QED BY <1>1, <1>2

LEMMA InitInv == ASSUME Init PROVE Inv
<1> USE DEF Init, Start, NoProds
<1>1. TypeOK
  BY CFLAssumption DEF TypeOK
<1>2. PendingInGraph
  BY InPending DEF PendingInGraph
<1> QED BY <1>1, <1>2 DEF Inv, TodoOfCurrent, LoopsThere, AtRest, NoSingleMissed, NoPairMissed

LEMMA InitializeInv == ASSUME Inv, Initialize PROVE Inv'
<1> DEFINE L == EpsilonEdges(Node)
<1>1. L \subseteq CFLEdge
  BY CFLAssumption DEF EpsilonEdges, CFLEdge, edge
<1> HIDE DEF L
<1>2. graph' = graph \union L /\ todo' = NoProds /\ todo = NoProds /\ phase' = "solve"
      /\ worklist' = Push(Push(worklist, graph), L \ graph)
  BY DEF Initialize, Inv, AtRest, L
<1>3. worklist' \in Seq(SUBSET Labels)
      /\ Pending(worklist') = Pending(worklist) \union graph \union (L \ graph)
  <2>1. worklist \in Seq(SUBSET Labels) /\ graph \in SUBSET Labels /\ L \ graph \in SUBSET Labels
    BY <1>1 DEF Inv, TypeOK, Labels
  <2>2. Push(worklist, graph) \in Seq(SUBSET Labels)
        /\ Pending(Push(worklist, graph)) = Pending(worklist) \union graph
    BY <2>1, PendingPush
  <2> QED BY <1>2, <2>1, <2>2, PendingPush
<1>4. TypeOK'
  BY <1>1, <1>2, <1>3 DEF Inv, TypeOK, Initialize, Labels
<1>5. TodoOfCurrent'
  BY <1>2 DEF TodoOfCurrent, NoProds
<1>6. LoopsThere' /\ AtRest'
  BY <1>2 DEF LoopsThere, AtRest, SelfLoops, L
<1>7. graph' \subseteq Pending(worklist')
  BY <1>2, <1>3
<1>8. NoSingleMissed' /\ NoPairMissed'
  BY <1>7 DEF NoSingleMissed, NoPairMissed, SingleHandled, PairHandled
<1>9. PendingInGraph'
  BY <1>2, <1>3 DEF Inv, PendingInGraph
<1> QED BY <1>4, <1>5, <1>6, <1>8, <1>9 DEF Inv

LEMMA PopInv == ASSUME Inv, Pop PROVE Inv'
<1>1. PICK e \in Head(worklist) \ {NoEdge} :
        /\ current' = e /\ todo' = ProdsOf(e.kind)
        /\ worklist' = Drop(worklist, e)
  BY DEF Pop
<1>2. /\ worklist # <<>> /\ todo = NoProds /\ phase = "solve"
      /\ UNCHANGED <<given, graph, phase, connected>>
  BY DEF Pop, Idle
<1>3. worklist \in Seq(SUBSET Labels)
  BY DEF Inv, TypeOK, Labels
<1>4. /\ worklist' \in Seq(SUBSET Labels) /\ e \in Pending(worklist)
      /\ \A x \in Pending(worklist) : x = e \/ x \in Pending(worklist')
  BY <1>1, <1>2, <1>3, PendingPop
<1>5. e \in CFLEdge
  BY <1>1, <1>2, <1>3, <1>4, InPending DEF Labels
<1>6. TypeOK'
  <2>1. todo' \in [single : SUBSET Unary, first : SUBSET Binary, second : SUBSET Binary]
    BY <1>1 DEF ProdsOf
  <2> QED BY <1>1, <1>2, <1>4, <1>5, <2>1 DEF Inv, TypeOK, Labels
<1>7. TodoOfCurrent'
  <2>1. e \in graph
    BY <1>2, <1>4, <1>5 DEF Inv, PendingInGraph
  <2> QED BY <1>1, <1>2, <2>1 DEF TodoOfCurrent, ProdsOf
<1>8. LoopsThere' /\ AtRest' /\ PendingInGraph'
  BY <1>1, <1>2, <1>3, PendingPop DEF Inv, LoopsThere, AtRest, SelfLoops, PendingInGraph
<1>9. NoSingleMissed'
  <2> SUFFICES ASSUME NEW p \in Unary, NEW x \in graph, x.kind = p[2]
               PROVE  SingleHandled(p, x)'
    BY <1>2 DEF NoSingleMissed
  <2>1. SingleHandled(p, x)
    BY <1>2 DEF Inv, NoSingleMissed
  <2>2. CASE x = e
    <3>1. p \in todo'.single
      BY <1>1, <2>2 DEF ProdsOf
    <3> QED BY <1>1, <2>2, <3>1 DEF SingleHandled
  <2>3. CASE x # e
    BY <1>2, <1>4, <2>1, <2>3 DEF SingleHandled, NoProds
  <2> QED BY <2>2, <2>3
<1>10. NoPairMissed'
  <2> SUFFICES ASSUME NEW p \in Binary, NEW y \in graph, NEW z \in graph,
                      y.kind = p[2], z.kind = p[3], y.dst = z.src
               PROVE  PairHandled(p, y, z)'
    BY <1>2 DEF NoPairMissed
  <2>1. PairHandled(p, y, z)
    BY <1>2 DEF Inv, NoPairMissed
  <2>2. CASE y = e
    <3>1. p \in todo'.first
      BY <1>1, <2>2 DEF ProdsOf
    <3> QED BY <1>1, <2>2, <3>1 DEF PairHandled
  <2>3. CASE z = e
    <3>1. p \in todo'.second
      BY <1>1, <2>3 DEF ProdsOf
    <3> QED BY <1>1, <2>3, <3>1 DEF PairHandled
  <2>4. CASE y # e /\ z # e
    BY <1>2, <1>4, <2>1, <2>4 DEF PairHandled, NoProds
  <2> QED BY <2>2, <2>3, <2>4
<1> QED BY <1>6, <1>7, <1>8, <1>9, <1>10 DEF Inv

\* The part of the invariant about the graph and the list, for a step that adds
\* the edges a production asks for.
LEMMA AddStep ==
    ASSUME Inv, NEW E \in SUBSET CFLEdge, AddAndPush(E), todo # NoProds,
           UNCHANGED <<given, current, phase, connected>>,
           todo' \in [single : SUBSET todo.single, first : SUBSET todo.first,
                      second : SUBSET todo.second]
    PROVE  TypeOK' /\ TodoOfCurrent' /\ LoopsThere' /\ AtRest' /\ PendingInGraph'
<1>1. /\ graph' = graph \union E /\ graph' \subseteq CFLEdge
      /\ worklist' \in Seq(SUBSET Labels)
      /\ Pending(worklist') = Pending(worklist) \union (E \ graph)
  BY AddAndPushFacts DEF Inv
<1>2. phase = "solve"
  BY DEF Inv, AtRest
<1>3. TypeOK'
  <2>1. todo \in [single : SUBSET Unary, first : SUBSET Binary, second : SUBSET Binary]
    BY DEF Inv, TypeOK
  <2>2. todo' \in [single : SUBSET Unary, first : SUBSET Binary, second : SUBSET Binary]
    BY <2>1
  <2> QED BY <1>1, <2>2 DEF Inv, TypeOK, Labels
<1>4. TodoOfCurrent'
  BY <1>1 DEF Inv, TodoOfCurrent
<1>5. LoopsThere' /\ AtRest'
  BY <1>1, <1>2 DEF Inv, LoopsThere, AtRest, SelfLoops
<1>6. PendingInGraph'
  BY <1>1 DEF Inv, PendingInGraph
<1> QED BY <1>3, <1>4, <1>5, <1>6

LEMMA SingleRHSInv == ASSUME Inv, SingleRHS PROVE Inv'
<1>1. PICK p \in todo.single :
        /\ todo' = [todo EXCEPT !.single = @ \ {p}]
        /\ AddAndPush({edge(current.src, p[1], current.dst)})
        /\ UNCHANGED <<given, current, phase, connected>>
  BY DEF SingleRHS
<1> DEFINE E == {edge(current.src, p[1], current.dst)}
<1>2. todo \in [single : SUBSET Unary, first : SUBSET Binary, second : SUBSET Binary]
      /\ todo # NoProds /\ current \in CFLEdge /\ phase = "solve" /\ p \in Unary
  BY <1>1 DEF Inv, TypeOK, TodoOfCurrent, NoProds, AtRest
<1>3. E \in SUBSET CFLEdge
  <2>1. p[1] \in Symbol
    BY <1>2, CFLAssumption
  <2> QED BY <1>2, <2>1 DEF edge, CFLEdge
<1>4. /\ todo'.single = todo.single \ {p} /\ todo'.first = todo.first
      /\ todo'.second = todo.second
      /\ todo' \in [single : SUBSET todo.single, first : SUBSET todo.first,
                     second : SUBSET todo.second]
  BY <1>1, <1>2
<1>5. TypeOK' /\ TodoOfCurrent' /\ LoopsThere' /\ AtRest' /\ PendingInGraph'
  BY <1>1, <1>2, <1>3, <1>4, AddStep
<1>6. graph' = graph \union E /\ Pending(worklist') = Pending(worklist) \union (E \ graph)
  BY <1>1, <1>3, AddAndPushFacts DEF Inv
<1>7. NoSingleMissed' /\ NoPairMissed'
  BY <1>1, <1>2, <1>4, <1>6, HandledStep DEF Inv
<1> QED BY <1>5, <1>7 DEF Inv

LEMMA FirstRHSInv == ASSUME Inv, FirstRHS PROVE Inv'
<1>1. PICK p \in todo.first :
        /\ todo' = [todo EXCEPT !.first = @ \ {p}]
        /\ AddAndPush({edge(current.src, p[1], z.dst) :
                          z \in {x \in graph : x.kind = p[3] /\ x.src = current.dst}})
        /\ UNCHANGED <<given, current, phase, connected>>
  BY DEF FirstRHS
<1> DEFINE E == {edge(current.src, p[1], z.dst) :
                   z \in {x \in graph : x.kind = p[3] /\ x.src = current.dst}}
<1>2. todo \in [single : SUBSET Unary, first : SUBSET Binary, second : SUBSET Binary]
      /\ todo # NoProds /\ current \in CFLEdge /\ phase = "solve" /\ p \in Binary
      /\ graph \subseteq CFLEdge
  BY <1>1 DEF Inv, TypeOK, TodoOfCurrent, NoProds, AtRest
<1>3. E \in SUBSET CFLEdge
  <2>1. p[1] \in Symbol
    BY <1>2, CFLAssumption
  <2> QED BY <1>2, <2>1 DEF edge, CFLEdge
<1>4. /\ todo'.single = todo.single /\ todo'.first = todo.first \ {p}
      /\ todo'.second = todo.second
      /\ todo' \in [single : SUBSET todo.single, first : SUBSET todo.first,
                     second : SUBSET todo.second]
  BY <1>1, <1>2
<1>5. TypeOK' /\ TodoOfCurrent' /\ LoopsThere' /\ AtRest' /\ PendingInGraph'
  BY <1>1, <1>2, <1>3, <1>4, AddStep
<1>6. graph' = graph \union E /\ Pending(worklist') = Pending(worklist) \union (E \ graph)
  BY <1>1, <1>3, AddAndPushFacts DEF Inv
<1>7. \A q \in todo.first : q \notin todo'.first =>
        \A z \in graph : z.kind = q[3] /\ current.dst = z.src =>
          edge(current.src, q[1], z.dst) \in graph'
  BY <1>4, <1>6
<1>8. NoSingleMissed' /\ NoPairMissed'
  <2> HIDE DEF E
  <2> QED BY <1>1, <1>2, <1>4, <1>6, <1>7, HandledStep DEF Inv
<1> QED BY <1>5, <1>8 DEF Inv

LEMMA SecondRHSInv == ASSUME Inv, SecondRHS PROVE Inv'
<1>1. PICK p \in todo.second :
        /\ todo' = [todo EXCEPT !.second = @ \ {p}]
        /\ AddAndPush({edge(z.src, p[1], current.dst) :
                          z \in {x \in graph : x.kind = p[2] /\ x.dst = current.src}})
  BY DEF SecondRHS
<1>0. UNCHANGED <<given, current, phase, connected>>
  BY DEF SecondRHS
<1> DEFINE E == {edge(z.src, p[1], current.dst) :
                   z \in {x \in graph : x.kind = p[2] /\ x.dst = current.src}}
<1>2. todo \in [single : SUBSET Unary, first : SUBSET Binary, second : SUBSET Binary]
      /\ todo # NoProds /\ current \in CFLEdge /\ phase = "solve" /\ p \in Binary
      /\ graph \subseteq CFLEdge
  BY <1>1 DEF Inv, TypeOK, TodoOfCurrent, NoProds, AtRest
<1>3. E \in SUBSET CFLEdge
  <2>1. p[1] \in Symbol
    BY <1>2, CFLAssumption
  <2> QED BY <1>2, <2>1 DEF edge, CFLEdge
<1>4. /\ todo'.single = todo.single /\ todo'.first = todo.first
      /\ todo'.second = todo.second \ {p}
      /\ todo' \in [single : SUBSET todo.single, first : SUBSET todo.first,
                     second : SUBSET todo.second]
  BY <1>1, <1>2
<1>5. TypeOK' /\ TodoOfCurrent' /\ LoopsThere' /\ AtRest' /\ PendingInGraph'
  BY <1>0, <1>1, <1>2, <1>3, <1>4, AddStep
<1>6. graph' = graph \union E /\ Pending(worklist') = Pending(worklist) \union (E \ graph)
  BY <1>1, <1>3, AddAndPushFacts DEF Inv
<1>7. \A q \in todo.second : q \notin todo'.second =>
        \A y \in graph : y.kind = q[2] /\ y.dst = current.src =>
          edge(y.src, q[1], current.dst) \in graph'
  BY <1>4, <1>6
<1>8. NoSingleMissed' /\ NoPairMissed'
  <2> HIDE DEF E
  <2> QED BY <1>0, <1>2, <1>4, <1>6, <1>7, HandledStep DEF Inv
<1> QED BY <1>5, <1>8 DEF Inv

LEMMA SolveEndsInv == ASSUME Inv, SolveEnds PROVE Inv'
<1>1. /\ todo = NoProds /\ worklist = <<>> /\ current' = NoEdge /\ phase' = "update"
      /\ phase = "solve" /\ UNCHANGED <<given, graph, worklist, todo, connected>>
  BY DEF SolveEnds, Idle
<1>2. TypeOK' /\ TodoOfCurrent' /\ LoopsThere' /\ AtRest' /\ PendingInGraph'
  BY <1>1 DEF Inv, TypeOK, TodoOfCurrent, LoopsThere, AtRest, PendingInGraph, NoProds, SelfLoops
<1>3. \A e \in graph : e \notin Pending(worklist)
  BY <1>1, InPending
<1>4. NoSingleMissed' /\ NoPairMissed'
  BY <1>1 DEF Inv, NoSingleMissed, NoPairMissed, SingleHandled, PairHandled, NoProds
<1> QED BY <1>2, <1>4 DEF Inv

\* The edges addCopyEdge inserts.
LEMMA CopiesAreEdges ==
    ASSUME TypeOK, NEW pairs, pairs = NewCopies(UNION {c.copies : c \in NewCalls})
    PROVE  CopyEdges(pairs) \union CopyBarEdges(pairs) \in SUBSET CFLEdge
<1>1. pairs \subseteq Node \X Node
  BY CFLAssumption DEF NewCopies, NewCalls
<1>2. copy \in Symbol /\ copybar \in Symbol
  BY CFLAssumption
<1> QED BY <1>1, <1>2 DEF CopyEdges, CopyBarEdges, edge, CFLEdge

LEMMA UpdateCallGraphInv == ASSUME Inv, UpdateCallGraph PROVE Inv'
<1> DEFINE pairs == NewCopies(UNION {c.copies : c \in NewCalls})
           added == CopyEdges(pairs) \union CopyBarEdges(pairs)
           bad == IF added \intersect graph = {} THEN {} ELSE {NoEdge}
           pushed == (added \ graph) \union bad
<1>1. added \in SUBSET CFLEdge
  BY CopiesAreEdges DEF Inv
<1>2. pushed \in SUBSET Labels /\ added \subseteq graph \union pushed
      /\ pushed \ {NoEdge} \subseteq added /\ added \ graph \subseteq pushed
  BY <1>1 DEF Labels
<1>3. /\ phase = "update" /\ graph' = graph \union added /\ given' = given \union added
      /\ worklist' = Push(worklist, pushed) /\ UNCHANGED <<current, todo>>
      /\ phase' = IF worklist' = <<>> THEN "done" ELSE "initialize"
      /\ connected' = connected \union NewCalls
  BY DEF UpdateCallGraph
<1> HIDE DEF pushed, added
<1>4. todo = NoProds /\ worklist = <<>> /\ worklist \in Seq(SUBSET Labels)
  BY <1>3 DEF Inv, AtRest, TypeOK, Labels
<1>5. Pending(worklist) = {}
  BY <1>4 DEF Pending
<1>6. worklist' \in Seq(SUBSET Labels) /\ Pending(worklist') = pushed
  <2>1. /\ Push(worklist, pushed) \in Seq(SUBSET Labels)
        /\ Pending(Push(worklist, pushed)) = Pending(worklist) \union pushed
    BY <1>2, <1>4, PendingPush
  <2> QED BY <1>3, <1>5, <2>1
<1>7. TypeOK'
  BY <1>1, <1>3, <1>6 DEF Inv, TypeOK, Labels, NewCalls
<1>8. TodoOfCurrent' /\ AtRest' /\ PendingInGraph'
  BY <1>2, <1>3, <1>4, <1>6 DEF TodoOfCurrent, AtRest, PendingInGraph, NoProds
<1>9. LoopsThere'
  BY <1>3 DEF Inv, LoopsThere, SelfLoops
<1>10. CASE worklist' = <<>>
  <2>1. pushed = {}
    BY <1>6, <1>10 DEF Pending
  <2>2. graph' = graph
    BY <1>2, <1>3, <2>1
  <2>3. Pending(worklist') = Pending(worklist)
    BY <1>5, <1>6, <2>1
  <2> QED BY <1>3, <1>7, <1>8, <1>9, <2>2, <2>3
          DEF Inv, NoSingleMissed, NoPairMissed, SingleHandled, PairHandled
<1>11. CASE worklist' # <<>>
  BY <1>3, <1>7, <1>8, <1>9, <1>11 DEF Inv, NoSingleMissed, NoPairMissed
<1> QED BY <1>10, <1>11

LEMMA StutterInv == ASSUME Inv, UNCHANGED vars PROVE Inv'
BY DEF Inv, vars, TypeOK, TodoOfCurrent, LoopsThere, AtRest, PendingInGraph, NoSingleMissed,
       NoPairMissed, SingleHandled, PairHandled, SelfLoops

THEOREM Invariance == Spec => []Inv
<1>1. Init => Inv
  BY InitInv
<1>2. Inv /\ [Next]_vars => Inv'
  <2> SUFFICES ASSUME Inv, [Next]_vars PROVE Inv'
    OBVIOUS
  <2>1. CASE Initialize
    BY <2>1, InitializeInv
  <2>2. CASE Pop
    BY <2>2, PopInv
  <2>3. CASE SingleRHS
    BY <2>3, SingleRHSInv
  <2>4. CASE FirstRHS
    BY <2>4, FirstRHSInv
  <2>5. CASE SecondRHS
    BY <2>5, SecondRHSInv
  <2>6. CASE SolveEnds
    BY <2>6, SolveEndsInv
  <2>7. CASE UpdateCallGraph
    BY <2>7, UpdateCallGraphInv
  <2>8. CASE Done
    BY <2>8, StutterInv DEF Done
  <2>9. CASE UNCHANGED vars
    BY <2>9, StutterInv
  <2> QED BY <2>1, <2>2, <2>3, <2>4, <2>5, <2>6, <2>7, <2>8, <2>9 DEF Next, ProcessCFLEdge
<1> QED BY <1>1, <1>2, PTL DEF Spec

\* The variables of the solver keep their types for every grammar and graph.
THEOREM TypeCorrect == Spec => []TypeOK
<1>1. Inv => TypeOK
  BY DEF Inv
<1> QED BY <1>1, Invariance, PTL

\* No two edges that a production joins are both behind processCFLEdge without
\* the edge they derive.
THEOREM NoPairIsMissed == Spec => []NoPairMissed
<1>1. Inv => NoPairMissed
  BY DEF Inv
<1> QED BY <1>1, Invariance, PTL

\* With nothing left to process the graph is closed.
LEMMA NothingLeft ==
    ASSUME Inv, todo = NoProds, worklist = <<>>, phase # "initialize"
    PROVE  Closed(graph)
<1>1. Pending(worklist) = {}
  BY DEF Pending
<1>2. SelfLoops(graph)
  BY DEF Inv, LoopsThere
<1>3. ClosedUnary(graph)
  BY <1>1 DEF Inv, NoSingleMissed, SingleHandled, ClosedUnary, NoProds
<1>4. ClosedBinary(graph)
  BY <1>1 DEF Inv, NoPairMissed, PairHandled, ClosedBinary, NoProds
<1> QED BY <1>2, <1>3, <1>4 DEF Closed

\* Whenever CFLSolver::solve returns, the graph is closed under the grammar.
THEOREM SolvedIsClosed == Spec => []ClosedWhenSolved
<1>1. Inv => ClosedWhenSolved
  BY NothingLeft DEF ClosedWhenSolved, Inv, AtRest
<1> QED BY <1>1, Invariance, PTL
-----------------------------------------------------------------------------
\* A closed set of edges that holds the given ones holds the whole graph.
Within(D) == given \subseteq D /\ Closed(D) => graph \subseteq D

LEMMA WithinStep ==
    ASSUME NEW D, Inv, Within(D), [Next]_vars
    PROVE  Within(D)'
<1> SUFFICES ASSUME given' \subseteq D, Closed(D) PROVE graph' \subseteq D
  BY DEF Within
<1>1. CASE Initialize
  BY <1>1 DEF Initialize, Within, Closed, SelfLoops
<1>2. CASE Pop
  BY <1>2 DEF Pop, Within
<1>3. CASE SingleRHS
  <2>1. current \in graph /\ graph \subseteq D
    BY <1>3 DEF SingleRHS, Within, Inv, TodoOfCurrent, NoProds
  <2>2. \A p \in todo.single : p \in Unary /\ p[2] = current.kind
    BY DEF Inv, TypeOK, TodoOfCurrent
  <2> QED BY <1>3, <2>1, <2>2 DEF SingleRHS, AddAndPush, Closed, ClosedUnary
<1>4. CASE FirstRHS
  <2>1. current \in graph /\ graph \subseteq D
    BY <1>4 DEF FirstRHS, Within, Inv, TodoOfCurrent, NoProds
  <2>2. \A p \in todo.first : p \in Binary /\ p[2] = current.kind
    BY DEF Inv, TypeOK, TodoOfCurrent
  <2> QED BY <1>4, <2>1, <2>2 DEF FirstRHS, AddAndPush, Closed, ClosedBinary
<1>5. CASE SecondRHS
  <2>1. current \in graph /\ graph \subseteq D
    BY <1>5 DEF SecondRHS, Within, Inv, TodoOfCurrent, NoProds
  <2>2. \A p \in todo.second : p \in Binary /\ p[3] = current.kind
    BY DEF Inv, TypeOK, TodoOfCurrent
  <2> QED BY <1>5, <2>1, <2>2 DEF SecondRHS, AddAndPush, Closed, ClosedBinary
<1>6. CASE SolveEnds
  BY <1>6 DEF SolveEnds, Within
<1>7. CASE UpdateCallGraph
  BY <1>7 DEF UpdateCallGraph, Within
<1>8. CASE Done \/ UNCHANGED vars
  BY <1>8 DEF Done, vars, Within
<1> QED BY <1>1, <1>2, <1>3, <1>4, <1>5, <1>6, <1>7, <1>8 DEF Next, ProcessCFLEdge

LEMMA InvStep == ASSUME Inv, [Next]_vars PROVE Inv'
BY InitializeInv, PopInv, SingleRHSInv, FirstRHSInv, SecondRHSInv, SolveEndsInv, UpdateCallGraphInv,
   StutterInv DEF Next, ProcessCFLEdge, Done

\* The solver never inserts an edge that the grammar does not force: its graph
\* lies in every closed set with the given edges (processCFLEdge, initialize).
THEOREM LeastClosed == ASSUME NEW CONSTANT D PROVE Spec => [](Inv /\ Within(D))
<1>1. Init => Inv /\ Within(D)
  BY InitInv DEF Init, Start, Within
<1>2. Inv /\ Within(D) /\ [Next]_vars => (Inv /\ Within(D))'
  BY WithinStep, InvStep
<1> QED BY <1>1, <1>2, PTL DEF Spec
-----------------------------------------------------------------------------
(* What the grammar derives from the given edges.  Derivation steps add     *)
(* edges until none is new, and there are finitely many.                    *)
Labelled == SUBSET CFLEdge
unaryEdges(p, E) == {edge(e.src, p[1], e.dst) : e \in {x \in E : x.kind = p[2]}}
binaryEdges(p, E) ==
    UNION {{edge(y.src, p[1], z.dst) : z \in {x \in E : x.kind = p[3] /\ x.src = y.dst}} :
             y \in {x \in E : x.kind = p[2]}}

LEMMA BinaryEdges ==
    ASSUME NEW p, NEW E
    PROVE  /\ \A y, z \in E : y.kind = p[2] /\ z.kind = p[3] /\ y.dst = z.src
                => edge(y.src, p[1], z.dst) \in binaryEdges(p, E)
           /\ \A e \in binaryEdges(p, E) : \E y, z \in E :
                y.kind = p[2] /\ z.kind = p[3] /\ y.dst = z.src /\ e = edge(y.src, p[1], z.dst)
BY DEF binaryEdges

LEMMA DeriveIs ==
    ASSUME NEW E
    PROVE  Derive(E) = E \union EpsilonEdges(Node) \union (UNION {unaryEdges(p, E) : p \in Unary})
                         \union (UNION {binaryEdges(p, E) : p \in Binary})
BY Zenon DEF Derive, unaryEdges, binaryEdges

LEMMA DeriveFacts ==
    ASSUME NEW E \in Labelled
    PROVE  /\ E \subseteq Derive(E) /\ Derive(E) \in Labelled
           /\ Derive(E) = E <=> Closed(E)
           /\ \A D : E \subseteq D /\ Closed(D) => Derive(E) \subseteq D
<1>0. E \subseteq CFLEdge
  BY DEF Labelled
<1>1. /\ EpsilonEdges(Node) \subseteq CFLEdge /\ \A p \in Unary : p[1] \in Symbol
      /\ \A p \in Binary : p[1] \in Symbol
  BY CFLAssumption DEF EpsilonEdges, CFLEdge, edge
<1>2. \A p \in Unary : unaryEdges(p, E) \subseteq CFLEdge
  BY <1>0, <1>1 DEF unaryEdges, CFLEdge, edge
<1>3. ASSUME NEW p \in Binary PROVE binaryEdges(p, E) \subseteq CFLEdge
  <2> SUFFICES ASSUME NEW e \in binaryEdges(p, E) PROVE e \in CFLEdge
    OBVIOUS
  <2>1. PICK y \in E, z \in E : e = edge(y.src, p[1], z.dst)
    BY BinaryEdges
  <2> QED BY <1>0, <1>1, <2>1 DEF CFLEdge, edge
<1>4. E \subseteq Derive(E) /\ Derive(E) \in Labelled
  <2>1. (UNION {unaryEdges(p, E) : p \in Unary}) \subseteq CFLEdge
    BY <1>2
  <2>2. (UNION {binaryEdges(p, E) : p \in Binary}) \subseteq CFLEdge
    BY <1>3
  <2> QED BY <1>0, <1>1, <2>1, <2>2, DeriveIs DEF Labelled
<1>5. ASSUME NEW D, E \subseteq D, Closed(D) PROVE Derive(E) \subseteq D
  <2>1. EpsilonEdges(Node) \subseteq D
    BY <1>5 DEF Closed, SelfLoops
  <2>2. \A p \in Unary : unaryEdges(p, E) \subseteq D
    BY <1>5 DEF unaryEdges, Closed, ClosedUnary
  <2>3. ASSUME NEW p \in Binary, NEW e \in binaryEdges(p, E) PROVE e \in D
    <3>1. PICK y \in E, z \in E :
            y.kind = p[2] /\ z.kind = p[3] /\ y.dst = z.src /\ e = edge(y.src, p[1], z.dst)
      BY BinaryEdges
    <3> QED BY <1>5, <3>1 DEF Closed, ClosedBinary
  <2> QED BY <1>5, <2>1, <2>2, <2>3, DeriveIs
<1>6. ASSUME Derive(E) = E PROVE Closed(E)
  <2>1. /\ EpsilonEdges(Node) \subseteq E
        /\ \A p \in Unary : unaryEdges(p, E) \subseteq E
        /\ \A p \in Binary : binaryEdges(p, E) \subseteq E
    BY <1>6, DeriveIs
  <2>2. SelfLoops(E)
    BY <2>1 DEF SelfLoops
  <2>3. ClosedUnary(E)
    BY <2>1 DEF ClosedUnary, unaryEdges
  <2>4. ClosedBinary(E)
    <3> SUFFICES ASSUME NEW p \in Binary, NEW y \in E, NEW z \in E,
                        y.kind = p[2], z.kind = p[3], y.dst = z.src
                 PROVE  edge(y.src, p[1], z.dst) \in E
      BY DEF ClosedBinary
    <3> QED BY <2>1, BinaryEdges
  <2> QED BY <2>2, <2>3, <2>4 DEF Closed
<1> QED BY <1>4, <1>5, <1>6

LEMMA EdgesFinite == IsFiniteSet(CFLEdge)
<1> DEFINE D == Node \X (Symbol \X Node)
           f == [t \in D |-> [src |-> t[1], kind |-> t[2][1], dst |-> t[2][2]]]
<1>1. IsFiniteSet(D)
  <2>1. IsFiniteSet(Symbol \X Node)
    BY CFLAssumption, FS_Product
  <2> QED BY <2>1, CFLAssumption, FS_Product
<1>2. f \in [D -> CFLEdge]
  BY DEF CFLEdge
<1>3. ASSUME NEW e \in CFLEdge PROVE \E t \in D : f[t] = e
  <2>1. /\ e = [src |-> e.src, kind |-> e.kind, dst |-> e.dst]
        /\ e.src \in Node /\ e.kind \in Symbol /\ e.dst \in Node
    BY DEF CFLEdge
  <2>2. PICK t \in D : t = <<e.src, <<e.kind, e.dst>>>>
    BY <2>1
  <2> QED BY <2>1, <2>2
<1>4. f \in Surjection(D, CFLEdge)
  <2> HIDE DEF f, D
  <2> QED BY <1>2, <1>3 DEF Surjection
<1> HIDE DEF f, D
<1> QED BY <1>1, <1>4, FS_Surjection

\* What is derivable from E is the least closed set that holds E.
LEMMA DerivableIsLeast ==
    ASSUME NEW E \in Labelled
    PROVE  /\ E \subseteq Derivable(E) /\ Derivable(E) \in Labelled /\ Closed(Derivable(E))
           /\ \A D \in Labelled : E \subseteq D /\ Closed(D) => Derivable(E) \subseteq D
<1> DEFINE F == [A \in Labelled |-> Derive(A)]
           size == [A \in Labelled |-> A]
           Eq(g) == g = [A \in Labelled |-> IF Derive(A) = A THEN A ELSE g[Derive(A)]]
<1>1. F \in [Labelled -> Labelled] /\ \A A \in Labelled : F[A] = Derive(A)
  BY DeriveFacts
<1>2. PICK g : Iterates(Labelled, F, g)
  <2> HIDE DEF F
  <2> QED BY <1>1, GrowExists
<1>3. \A h : [A \in Labelled |-> IF F[A] = A THEN A ELSE h[F[A]]]
               = [A \in Labelled |-> IF Derive(A) = A THEN A ELSE h[Derive(A)]]
  OBVIOUS
<1>4. Eq(g)
  <2>1. g = [A \in Labelled |-> IF F[A] = A THEN A ELSE g[F[A]]]
    BY <1>2 DEF Iterates
  <2> QED BY <1>3, <2>1
<1>5. Derivable(E) = (CHOOSE h : Eq(h))[E]
  BY Zenon DEF Derivable, Labelled
<1> HIDE DEF Eq
<1>6. PICK h : Derivable(E) = h[E] /\ Eq(h)
  <2>1. Eq(CHOOSE h : Eq(h))
    BY <1>4
  <2> QED BY <1>5, <2>1
<1>7. Iterates(Labelled, F, h)
  BY <1>3, <1>6 DEF Iterates, Eq
<1>8. ASSUME NEW D \in Labelled, E \subseteq D, Closed(D)
      PROVE  h[E] \in Labelled /\ E \subseteq h[E] /\ h[E] \subseteq D /\ F[h[E]] = h[E]
  <2> DEFINE K == {A \in Labelled : E \subseteq A /\ A \subseteq D}
  <2>1. ClosedUnder(F, K)
    <3> SUFFICES ASSUME NEW A \in K PROVE F[A] \in K
      BY DEF ClosedUnder
    <3>1. A \subseteq Derive(A) /\ Derive(A) \in Labelled /\ Derive(A) \subseteq D
      BY <1>8, DeriveFacts
    <3> QED BY <1>1, <3>1
  <2>2. E \in K /\ K \in SUBSET Labelled
    BY <1>8
  <2>3. \A A \in K : F[A] # A => size[A] \subseteq size[F[A]] /\ size[A] # size[F[A]]
    BY <1>1, DeriveFacts
  <2>4. size \in [Labelled -> SUBSET CFLEdge]
    BY DEF Labelled
  <2>5. h[E] \in K /\ F[h[E]] = h[E]
    <3> HIDE DEF F, K, size
    <3> QED BY <1>1, <1>7, <2>1, <2>2, <2>3, <2>4, EdgesFinite, GrowEnds
  <2> QED BY <2>5
<1>9. CFLEdge \in Labelled /\ E \subseteq CFLEdge /\ Closed(CFLEdge)
  <2>1. Derive(CFLEdge) = CFLEdge
    BY DeriveFacts DEF Labelled
  <2> QED BY <2>1, DeriveFacts DEF Labelled
<1>10. h[E] \in Labelled /\ E \subseteq h[E] /\ Derive(h[E]) = h[E]
  BY <1>1, <1>8, <1>9
<1> QED BY <1>6, <1>8, <1>10, DeriveFacts
-----------------------------------------------------------------------------
(* The solver keeps the promise of a CFL-reachability solver: between its   *)
(* rests it only adds derivable edges, at a rest it has all of them, and    *)
(* connecting calls extends what was given.                                 *)
Sound == \A D \in Labelled : Within(D)
Solving == Inv /\ given \subseteq graph /\ Sound

LEMMA GivenStays == ASSUME [Next]_vars, given \subseteq graph PROVE given' \subseteq graph'
<1>1. CASE UpdateCallGraph
  BY <1>1 DEF UpdateCallGraph
<1>2. CASE Initialize \/ Pop \/ SingleRHS \/ FirstRHS \/ SecondRHS \/ SolveEnds \/ Done \/ UNCHANGED vars
  BY <1>2 DEF Initialize, Pop, SingleRHS, FirstRHS, SecondRHS, AddAndPush, SolveEnds, Done, vars
<1> QED BY <1>1, <1>2 DEF Next, ProcessCFLEdge

LEMMA SolvingStep == ASSUME Solving, [Next]_vars PROVE Solving'
<1>1. ASSUME NEW D \in Labelled PROVE Within(D)'
  BY WithinStep DEF Solving, Sound
<1> QED BY <1>1, InvStep, GivenStays DEF Solving, Sound

LEMMA SolvingStarts ==
    ASSUME NEW g \in Graphs, NEW C \in SUBSET Calls, Start(g, C)
    PROVE  Solving /\ Promised!Init
<1> USE DEF Start, NoProds
<1>1. TypeOK
  BY CFLAssumption DEF TypeOK
<1>2. PendingInGraph
  BY InPending DEF PendingInGraph
<1>3. Inv
  BY <1>1, <1>2 DEF Inv, TodoOfCurrent, LoopsThere, AtRest, NoSingleMissed, NoPairMissed
<1>4. Promised!Init
  BY DEF Promised!Init
<1> QED BY <1>3, <1>4 DEF Solving, Sound, Within

\* While it solves, the graph lies within what is derivable.
LEMMA GraphDerivable == ASSUME Solving PROVE graph \subseteq Derivable(given)
<1>1. given \in Labelled
  BY DEF Solving, Inv, TypeOK, Labelled
<1>2. PICK D \in Labelled : D = Derivable(given) /\ given \subseteq D /\ Closed(D)
  BY <1>1, DerivableIsLeast
<1> QED BY <1>2 DEF Solving, Sound, Within

LEMMA SolvedIsDerivable ==
    ASSUME Solving, todo = NoProds, worklist = <<>>, phase # "initialize"
    PROVE  graph = Derivable(given)
<1>1. given \in Labelled /\ graph \in Labelled
  BY DEF Solving, Inv, TypeOK, Labelled
<1>2. Closed(graph)
  BY NothingLeft DEF Solving
<1>3. Derivable(given) \subseteq graph
  BY <1>1, <1>2, DerivableIsLeast DEF Solving
<1> QED BY <1>3, GraphDerivable

\* The promise is stated with the same grammar.
LEMMA SameDerive == ASSUME NEW E PROVE Promised!Derive(E) = Derive(E)
<1>1. Promised!EpsilonEdges(Node) = EpsilonEdges(Node)
  BY DEF Promised!EpsilonEdges, EpsilonEdges, Promised!edge, edge
<1> QED BY <1>1, Zenon DEF Promised!Derive, Derive, Promised!edge, edge

LEMMA SameDerivable == ASSUME NEW E PROVE Promised!Derivable(E) = Derivable(E)
<1> DEFINE Eq(g) == g = [D \in SUBSET CFLEdge |-> IF Derive(D) = D THEN D ELSE g[Derive(D)]]
           Same(g) == g = [D \in SUBSET CFLEdge |->
                             IF Promised!Derive(D) = D THEN D ELSE g[Promised!Derive(D)]]
<1>1. \A g : Eq(g) <=> Same(g)
  BY SameDerive
<1>2. Derivable(E) = (CHOOSE g : Eq(g))[E]
  BY Zenon DEF Derivable
<1>3. Promised!Derivable(E) = (CHOOSE g : Same(g))[E]
  BY Zenon DEF Promised!Derivable, Promised!CFLEdge, CFLEdge
<1> HIDE DEF Eq, Same
<1>4. (CHOOSE g : Eq(g)) = (CHOOSE g : Same(g))
  BY <1>1
<1> QED BY <1>2, <1>3, <1>4

LEMMA StepPromised == ASSUME Solving, [Next]_vars PROVE [Promised!Next]_(Promised!vars)
<1>1. Solving'
  BY SolvingStep
<1>2. graph \subseteq Derivable(given)
  BY GraphDerivable
<1>3. given' = given => graph' \subseteq Derivable(given)
  <2>1. given \in Labelled
    BY DEF Solving, Inv, TypeOK, Labelled
  <2>2. PICK D \in Labelled : D = Derivable(given) /\ given \subseteq D /\ Closed(D)
    BY <2>1, DerivableIsLeast
  <2>3. given' \subseteq D => graph' \subseteq D
    BY <1>1, <2>2 DEF Solving, Sound, Within
  <2> QED BY <2>2, <2>3
<1>4. ASSUME Initialize \/ SingleRHS \/ FirstRHS \/ SecondRHS PROVE Promised!Insert
  <2>1. graph \subseteq graph' /\ given' = given
    BY <1>4 DEF Initialize, SingleRHS, FirstRHS, SecondRHS, AddAndPush
  <2>2. CASE Initialize
    <3>1. phase = "initialize" /\ phase' = "solve"
      BY <2>2 DEF Initialize
    <3> QED BY <1>3, <2>1, <3>1, SameDerivable DEF Promised!Insert
  <2>3. CASE SingleRHS \/ FirstRHS \/ SecondRHS
    <3>1. todo # NoProds /\ phase' = phase
      <4>1. todo.single # {} \/ todo.first # {} \/ todo.second # {}
        BY <2>3 DEF SingleRHS, FirstRHS, SecondRHS
      <4>2. phase' = phase
        BY <2>3 DEF SingleRHS, FirstRHS, SecondRHS
      <4> QED BY <4>1, <4>2 DEF NoProds
    <3>2. phase = "solve"
      BY <3>1 DEF Solving, Inv, AtRest
    <3> QED BY <1>3, <2>1, <3>1, <3>2, SameDerivable DEF Promised!Insert
  <2> QED BY <1>4, <2>2, <2>3
<1>5. ASSUME SolveEnds PROVE Promised!Rest
  <2>1. /\ phase \notin {"update", "done"} /\ phase' \in {"update", "done"}
        /\ given' = given /\ graph' = graph
        /\ todo = NoProds /\ worklist = <<>> /\ phase # "initialize"
    BY <1>5 DEF SolveEnds, Idle
  <2>2. graph = Derivable(given)
    BY <2>1, SolvedIsDerivable
  <2> QED BY <2>1, <2>2, SameDerivable DEF Promised!Rest
<1>6. ASSUME UpdateCallGraph PROVE [Promised!Next]_(Promised!vars)
  <2> DEFINE pairs == NewCopies(UNION {c.copies : c \in NewCalls})
             bad(A) == IF A \intersect graph = {} THEN {} ELSE {NoEdge}
             pushed(A) == (A \ graph) \union bad(A)
  <2>1. PICK A \in Labelled : A = CopyEdges(pairs) \union CopyBarEdges(pairs)
    BY CopiesAreEdges DEF Solving, Inv, Labelled
  <2>2. /\ phase = "update" /\ graph' = graph \union A /\ given' = given \union A
        /\ worklist' = Push(worklist, pushed(A))
        /\ phase' = IF worklist' = <<>> THEN "done" ELSE "initialize"
    BY <1>6, <2>1 DEF UpdateCallGraph
  <2>3. CASE worklist' # <<>>
    <3>1. graph' = graph \union given' /\ given \subseteq given'
      BY <2>2 DEF Solving
    <3>2. Promised!Extend
      BY <2>2, <2>3, <3>1 DEF Promised!Extend
    <3> QED BY <3>2 DEF Promised!Next
  <2>4. CASE worklist' = <<>>
    <3>1. pushed(A) \in SUBSET Labels
      BY DEF Labelled, Labels
    <3>2. worklist \in Seq(SUBSET Labels)
      BY DEF Solving, Inv, TypeOK, Labels
    <3>3. Pending(Push(worklist, pushed(A))) = Pending(worklist) \union pushed(A)
      <4> HIDE DEF pushed
      <4> QED BY <3>1, <3>2, PendingPush
    <3>4. Pending(worklist') = {}
      BY <2>4 DEF Pending
    <3>5. pushed(A) = {}
      BY <2>2, <3>3, <3>4
    <3>6. A = {}
      BY <3>5
    <3>7. graph' = graph /\ given' = given
      BY <2>2, <3>6
    <3> QED BY <2>2, <2>4, <3>7 DEF Promised!vars
  <2> QED BY <2>3, <2>4
<1>7. ASSUME Pop \/ Done \/ UNCHANGED vars PROVE UNCHANGED Promised!vars
  BY <1>7 DEF Pop, Done, vars, Promised!vars
<1> QED BY <1>4, <1>5, <1>6, <1>7 DEF Next, ProcessCFLEdge, Promised!Next

\* The base solver implements the promise, step by step, for every grammar,
\* graph and set of calls (CFLSolver::solve, CFLAlias::solve); that it comes to
\* rest is left to the model checker.
THEOREM SolverImplements == Spec => Promised!Init /\ [][Promised!Next]_(Promised!vars)
<1>1. Init => Solving /\ Promised!Init
  BY SolvingStarts DEF Init
<1>2. Solving /\ [Next]_vars => Solving'
  BY SolvingStep
<1>3. Solving /\ [Next]_vars => [Promised!Next]_(Promised!vars)
  BY StepPromised
<1> QED BY <1>1, <1>2, <1>3, PTL DEF Spec
-----------------------------------------------------------------------------
(* POCRSolver.  Its maps hold what the graph holds as long as no call is    *)
(* connected, and where every node has a successor it then does what the    *)
(* base solver does.                                                        *)
NoCallDue == Calls \subseteq connected

\* What is new to the maps is new to the graph.
LEMMA InsertAndPushFacts ==
    ASSUME InStep, NEW E, NEW fresh, fresh = E \ predMap \/ fresh = E \ succMap, InsertAndPush(fresh)
    PROVE  graph' = graph \union E /\ AddAndPush(E)
<1>1. fresh = E \ graph
  BY DEF InStep
<1>2. fresh \intersect graph = {} /\ (fresh \ graph) \union {} = E \ graph
  BY <1>1
<1>3. worklist' = Push(worklist, E \ graph)
  BY <1>2 DEF InsertAndPush
<1> QED BY <1>1, <1>3 DEF InsertAndPush, AddAndPush

LEMMA NothingToAdd ==
    ASSUME NEW E, E \subseteq graph, graph' = graph, worklist' = worklist
    PROVE  AddAndPush(E)
<1>1. E \ graph = {} /\ graph \union E = graph
  OBVIOUS
<1>2. Push(worklist, {}) = worklist
  BY DEF Push
<1> QED BY <1>1, <1>2 DEF AddAndPush

LEMMA AddEdgeFacts ==
    ASSUME InStep, NEW E, AddEdge(E)
    PROVE  AddAndPush(E) /\ InStep' /\ keys' = keys \union Sources(E)
<1>1. succMap' = succMap \union E /\ predMap' = predMap \union E /\ InsertAndPush(E \ predMap)
  BY DEF AddEdge
<1>2. graph' = graph \union E /\ AddAndPush(E)
  BY <1>1, InsertAndPushFacts
<1> QED BY <1>1, <1>2 DEF InStep, AddEdge

LEMMA AddEdgesFromFacts ==
    ASSUME InStep, NEW E, AddEdgesFrom(E)
    PROVE  AddAndPush(E) /\ InStep'
<1>1. CASE E \subseteq succMap
  BY <1>1, NothingToAdd DEF AddEdgesFrom, InStep
<1>2. CASE ~(E \subseteq succMap)
  <2>1. succMap' = succMap \union E /\ predMap' = predMap \union E /\ InsertAndPush(E \ predMap)
    BY <1>2 DEF AddEdgesFrom
  <2>2. graph' = graph \union E /\ AddAndPush(E)
    BY <2>1, InsertAndPushFacts
  <2> QED BY <2>1, <2>2 DEF InStep
<1> QED BY <1>1, <1>2

LEMMA AddEdgesToFacts ==
    ASSUME InStep, NEW E, AddEdgesTo(E)
    PROVE  AddAndPush(E) /\ InStep' /\ (keys' = keys \/ keys' = keys \union Sources(E))
<1>1. CASE E \subseteq predMap
  BY <1>1, NothingToAdd DEF AddEdgesTo, InStep, maps
<1>2. CASE ~(E \subseteq predMap)
  <2>1. /\ succMap' = succMap \union E /\ predMap' = predMap \union E /\ InsertAndPush(E \ succMap)
        /\ keys' = keys \union Sources(E)
    BY <1>2 DEF AddEdgesTo
  <2>2. graph' = graph \union E /\ AddAndPush(E)
    BY <2>1, InsertAndPushFacts
  <2> QED BY <2>1, <2>2 DEF InStep
<1> QED BY <1>1, <1>2

LEMMA NoCopies == ASSUME NoCallDue, UpdateCallGraph PROVE graph' = graph
<1>1. NewCalls = {}
  BY DEF NoCallDue, NewCalls
<1>2. NewCopies(UNION {c.copies : c \in NewCalls}) = {}
  BY <1>1 DEF NewCopies
<1> QED BY <1>2 DEF UpdateCallGraph, CopyEdges, CopyBarEdges

LEMMA CallsStay == ASSUME NoCallDue, POCRNext PROVE NoCallDue'
<1>1. connected' = connected \/ UpdateCallGraph
  BY DEF POCRNext, POCRInitialize, POCRProcess, POCRSingleRHS, POCRFirstRHS, POCRSecondRHS, Pop, SolveEnds,
         Done, vars
<1> QED BY <1>1 DEF NoCallDue, UpdateCallGraph

LEMMA MapsStayInStep == ASSUME InStep, NoCallDue, POCRNext PROVE InStep'
<1>1. CASE POCRInitialize
  <2>1. PICK L : L = EpsilonEdges(keys)
    OBVIOUS
  <2>2. /\ succMap' = succMap \union L /\ predMap' = predMap \union L
        /\ graph' = graph \union (L \ predMap)
    BY <1>1, <2>1 DEF POCRInitialize
  <2> QED BY <2>2 DEF InStep
<1>2. CASE POCRSingleRHS
  BY <1>2, AddEdgeFacts DEF POCRSingleRHS
<1>3. CASE POCRFirstRHS
  BY <1>3, AddEdgesFromFacts DEF POCRFirstRHS
<1>4. CASE POCRSecondRHS
  BY <1>4, AddEdgesToFacts DEF POCRSecondRHS
<1>5. CASE (Pop \/ SolveEnds \/ UpdateCallGraph \/ Done) /\ UNCHANGED maps
  <2>1. graph' = graph
    BY <1>5, NoCopies DEF Pop, SolveEnds, Done, vars
  <2> QED BY <1>5, <2>1 DEF InStep, maps
<1> QED BY <1>1, <1>2, <1>3, <1>4, <1>5 DEF POCRNext, POCRProcess

LEMMA SourcesAreNodes == ASSUME NEW E \in Labelled PROVE Sources(E) \subseteq Node
BY DEF Sources, Labelled, CFLEdge

\* A step of POCRSolver is one of the base solver.
LEMMA ActsLikeBase ==
    ASSUME Solving, InStep, keys = Node, POCRNext
    PROVE  Next /\ keys' = Node
<1>1. CASE POCRInitialize
  <2>1. PICK L : L = EpsilonEdges(Node)
    OBVIOUS
  <2>2. PICK fresh : fresh = L \ graph
    OBVIOUS
  <2>3. /\ phase = "initialize" /\ phase' = "solve" /\ graph' = graph \union fresh
        /\ worklist' = Push(Push(worklist, graph), (fresh \ graph) \union
                            (IF fresh \intersect graph = {} THEN {} ELSE {NoEdge}))
        /\ UNCHANGED <<given, current, todo, connected, keys>>
    BY <1>1, <2>1, <2>2 DEF POCRInitialize, InStep
  <2>4. fresh \intersect graph = {} /\ (fresh \ graph) \union {} = L \ graph /\ graph \union fresh = graph \union L
    BY <2>2
  <2>5. worklist' = Push(Push(worklist, graph), L \ graph)
    BY <2>3, <2>4
  <2>6. Initialize
    BY <2>1, <2>3, <2>4, <2>5 DEF Initialize
  <2> QED BY <2>3, <2>6 DEF Next
<1>2. CASE POCRSingleRHS
  <2>1. PICK p \in todo.single :
          /\ todo' = [todo EXCEPT !.single = @ \ {p}]
          /\ AddEdge({edge(current.src, p[1], current.dst)})
          /\ UNCHANGED <<given, current, phase, connected>>
    BY <1>2 DEF POCRSingleRHS
  <2>2. PICK E : E = {edge(current.src, p[1], current.dst)}
    OBVIOUS
  <2>3. AddAndPush(E) /\ keys' = keys \union Sources(E)
    BY <2>1, <2>2, AddEdgeFacts
  <2>4. SingleRHS
    BY <2>1, <2>2, <2>3 DEF SingleRHS
  <2>5. current \in CFLEdge
    <3>1. todo # NoProds
      BY <2>1 DEF NoProds
    <3> QED BY <3>1 DEF Solving, Inv, TypeOK, TodoOfCurrent
  <2>6. Sources(E) \subseteq Node
    BY <2>2, <2>5 DEF Sources, edge, CFLEdge
  <2> QED BY <2>3, <2>4, <2>6 DEF Next, ProcessCFLEdge
<1>3. CASE POCRFirstRHS
  <2>1. PICK p \in todo.first :
          /\ todo' = [todo EXCEPT !.first = @ \ {p}]
          /\ LET E == {edge(current.src, p[1], z.dst) : z \in {x \in succMap : x.kind = p[3] /\ x.src = current.dst}}
             IN  AddEdgesFrom(E) /\ keys' = keys \union {current.dst} \union Sources(E)
    BY <1>3 DEF POCRFirstRHS
  <2>2. PICK E : E = {edge(current.src, p[1], z.dst) :
                        z \in {x \in graph : x.kind = p[3] /\ x.src = current.dst}}
    OBVIOUS
  <2>3. AddEdgesFrom(E) /\ keys' = keys \union {current.dst} \union Sources(E)
    BY <2>1, <2>2 DEF InStep
  <2>4. AddAndPush(E)
    BY <2>3, AddEdgesFromFacts
  <2>5. FirstRHS
    BY <1>3, <2>1, <2>2, <2>4 DEF FirstRHS, POCRFirstRHS
  <2>6. current \in CFLEdge
    <3>1. todo # NoProds
      BY <2>1 DEF NoProds
    <3> QED BY <3>1 DEF Solving, Inv, TypeOK, TodoOfCurrent
  <2>7. Sources(E) \subseteq Node /\ current.dst \in Node
    BY <2>2, <2>6 DEF Sources, edge, CFLEdge
  <2> QED BY <2>3, <2>5, <2>7 DEF Next, ProcessCFLEdge
<1>4. CASE POCRSecondRHS
  <2>1. PICK p \in todo.second :
          /\ todo' = [todo EXCEPT !.second = @ \ {p}]
          /\ AddEdgesTo({edge(z.src, p[1], current.dst) :
                          z \in {x \in predMap : x.kind = p[2] /\ x.dst = current.src}})
    BY <1>4 DEF POCRSecondRHS
  <2>2. PICK E : E = {edge(z.src, p[1], current.dst) :
                        z \in {x \in graph : x.kind = p[2] /\ x.dst = current.src}}
    OBVIOUS
  <2>3. AddEdgesTo(E)
    BY <2>1, <2>2 DEF InStep
  <2>4. AddAndPush(E) /\ (keys' = keys \/ keys' = keys \union Sources(E))
    BY <2>3, AddEdgesToFacts
  <2>5. SecondRHS
    BY <1>4, <2>1, <2>2, <2>4 DEF SecondRHS, POCRSecondRHS
  <2>6. graph \subseteq CFLEdge
    BY DEF Solving, Inv, TypeOK
  <2>7. Sources(E) \subseteq Node
    BY <2>2, <2>6 DEF Sources, edge, CFLEdge
  <2> QED BY <2>4, <2>5, <2>7 DEF Next, ProcessCFLEdge
<1>5. CASE (Pop \/ SolveEnds \/ UpdateCallGraph \/ Done) /\ UNCHANGED maps
  BY <1>5 DEF Next, maps
<1> QED BY <1>1, <1>2, <1>3, <1>4, <1>5 DEF POCRNext, POCRProcess

\* The setups of POCRSolver in which no call is left to connect, and in which
\* every node has a successor as well.
CallsConnected == \A s \in Setups : s.pocr => s.calls = {}
NodesConnected == \A s \in Setups : s.pocr => Sources(s.graph) = Node

LEMMA SetupStarts ==
    ASSUME AliasInit
    PROVE  /\ Solving /\ Promised!Init
           /\ CallsConnected => (pocr => InStep /\ NoCallDue)
           /\ NodesConnected => (pocr => keys = Node)
<1>1. PICK s \in Setups : /\ pocr = s.pocr /\ Start(s.graph, Calls \ s.calls)
                          /\ buildCFLData(IF pocr THEN s.graph ELSE {})
  BY DEF AliasInit
<1>2. s.graph \in Graphs
  BY SetupAssumption
<1>3. Calls \ s.calls \in SUBSET Calls
  OBVIOUS
<1>4. Solving /\ Promised!Init
  BY <1>1, <1>2, <1>3, SolvingStarts
<1>5. ASSUME CallsConnected, pocr PROVE InStep /\ NoCallDue
  <2>1. connected = Calls \ s.calls /\ s.calls = {} /\ succMap = s.graph /\ predMap = s.graph /\ graph = s.graph
    BY <1>1, <1>5 DEF CallsConnected, Start, buildCFLData
  <2> QED BY <2>1 DEF InStep, NoCallDue
<1>6. ASSUME NodesConnected, pocr PROVE keys = Node
  BY <1>1, <1>6 DEF NodesConnected, buildCFLData
<1> QED BY <1>4, <1>5, <1>6

\* The maps of POCRSolver never differ from the graph while no call is left to
\* be connected (addEdge, addEdges, buildCFLData).
THEOREM MapsStayRight == ASSUME CallsConnected PROVE AliasSpec => []MapsAgree
<1> DEFINE Agree == pocr => InStep /\ NoCallDue
<1>1. AliasInit => Agree
  BY SetupStarts
<1>2. Agree /\ [AliasNext]_aliasVars => Agree'
  <2> SUFFICES ASSUME Agree, [AliasNext]_aliasVars PROVE Agree'
    OBVIOUS
  <2>1. CASE pocr /\ POCRNext /\ UNCHANGED pocr
    BY <2>1, MapsStayInStep, CallsStay
  <2>2. CASE ~pocr /\ Next /\ UNCHANGED <<maps, pocr>>
    BY <2>2
  <2>3. CASE UNCHANGED aliasVars
    BY <2>3 DEF aliasVars, vars, maps, InStep, NoCallDue
  <2> QED BY <2>1, <2>2, <2>3 DEF AliasNext
<1>3. Agree => MapsAgree
  BY DEF MapsAgree
<1> HIDE DEF Agree
<1> QED BY <1>1, <1>2, <1>3, PTL DEF AliasSpec

\* Either solver then implements the promise: it misses no pair, and each of
\* its steps is one the promise allows (CFLAlias::solve).
THEOREM SolversImplement ==
    ASSUME CallsConnected, NodesConnected
    PROVE  AliasSpec => [](TypeOK /\ NoPairMissed) /\ Promised!Init /\ [][Promised!Next]_(Promised!vars)
<1> DEFINE Agree == pocr => InStep /\ NoCallDue /\ keys = Node
           Good == Solving /\ Agree
<1>1. AliasInit => Good /\ Promised!Init
  BY SetupStarts
<1>2. Good /\ [AliasNext]_aliasVars => Good' /\ [Next]_vars
  <2> SUFFICES ASSUME Good, [AliasNext]_aliasVars PROVE Good' /\ [Next]_vars
    OBVIOUS
  <2>1. CASE pocr /\ POCRNext /\ UNCHANGED pocr
    <3>1. Next /\ keys' = Node
      BY <2>1, ActsLikeBase
    <3> QED BY <2>1, <3>1, SolvingStep, MapsStayInStep, CallsStay
  <2>2. CASE ~pocr /\ Next /\ UNCHANGED <<maps, pocr>>
    BY <2>2, SolvingStep
  <2>3. CASE UNCHANGED aliasVars
    <3>1. UNCHANGED vars /\ UNCHANGED maps /\ pocr' = pocr
      BY <2>3 DEF aliasVars
    <3>2. Agree'
      BY <3>1 DEF vars, maps, InStep, NoCallDue
    <3> QED BY <3>1, <3>2, SolvingStep
  <2> QED BY <2>1, <2>2, <2>3 DEF AliasNext
<1>3. Good /\ [Next]_vars => [Promised!Next]_(Promised!vars)
  BY StepPromised
<1>4. Good => TypeOK /\ NoPairMissed
  BY DEF Solving, Inv
<1> HIDE DEF Good
<1> QED BY <1>1, <1>2, <1>3, <1>4, PTL DEF AliasSpec
=============================================================================
