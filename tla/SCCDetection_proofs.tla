------------------------ MODULE SCCDetection_proofs -------------------------
(***************************************************************************)
(* SCCDetection implements Condensation on every finite graph: what visit  *)
(* hands out are whole components, successors first, and sub-node sets are *)
(* their members.                                                          *)
(***************************************************************************)
EXTENDS SCCDetection, TLAPS, SequenceTheorems, FiniteSetTheorems, WellFoundedInduction

-----------------------------------------------------------------------------
(* The inductive invariant.                                                 *)

FN(i) == frames[i].node
OnFrames == {FN(i) : i \in 1..Len(frames)}
OnStack == {stack[i] : i \in 1..Len(stack)}
Reach(n, m) == C!Reaches(edges, n, m)
Open(n) == visited(n) /\ n \notin inSCC

Types ==
    /\ edges \in SUBSET (Node \X Node)
    /\ todo \in SUBSET Node /\ inSCC \in SUBSET Node
    /\ frames \in Seq(Frame) /\ stack \in Seq(Node)
    /\ I \in Nat /\ D \in [Node -> Nat]
    /\ rep \in [Node -> Node \union {NoNode}]

(* Visit numbers are distinct and none exceeds the counter. *)
Numbered ==
    /\ \A n \in Node : D[n] <= I
    /\ \A n, m \in Node : visited(n) /\ D[n] = D[m] => n = m

(* A visited node is in exactly one place: on the frames, on _SS, closed. *)
Placed ==
    /\ \A n \in Node : visited(n) <=> n \in inSCC \/ n \in OnFrames \/ n \in OnStack
    /\ \A n \in inSCC : n \notin OnFrames /\ n \notin OnStack
    /\ \A n \in OnStack : n \notin OnFrames

(* The frames form a path, in the order they were met. *)
Path ==
    /\ \A i, j \in 1..Len(frames) : i < j => D[FN(i)] < D[FN(j)]
    /\ \A i \in 1..Len(frames) : i < Len(frames) => frames[i].child = FN(i+1)
    /\ \A i \in 1..Len(frames) : frames[i].child # NoNode => frames[i].child \in succs(FN(i))
    /\ \A i \in 1..Len(frames) : frames[i].kids \subseteq succs(FN(i))

(* Edges of nodes that were left are all explored, edges of active nodes when *)
(* they are no longer due; closed components have no edge to the rest.        *)
Explored ==
    /\ \A n \in Node : n \in inSCC \/ n \in OnStack => \A x \in succs(n) : visited(x)
    /\ \A i \in 1..Len(frames) : \A x \in succs(FN(i)) :
          x \in frames[i].kids \/ x = frames[i].child \/ visited(x)
    /\ \A n \in inSCC : succs(n) \subseteq inSCC

(* The representative of an open node is open, reachable, met no later. *)
RepRight ==
    \A n \in Node : Open(n) =>
        /\ rep[n] \in Node /\ Open(rep[n]) /\ D[rep[n]] <= D[n]
        /\ Reach(n, rep[n])

(* An active node reaches everything met since, *)
Down == \A i \in 1..Len(frames) : \A n \in Node :
            D[FN(i)] <= D[n] => Reach(FN(i), n)

(* and what was left on _SS reaches an active node met before it. *)
Up == \A n \in OnStack : \E i \in 1..Len(frames) :
            D[FN(i)] < D[n] /\ Reach(n, FN(i))

(* The nodes that belong to the i-th frame: its own, and those on _SS met    *)
(* after it and before the next frame.                                       *)
Under(i, n) ==
    \/ n = FN(i)
    \/ /\ n \in OnStack /\ D[FN(i)] < D[n]
       /\ i < Len(frames) => D[n] < D[FN(i+1)]
due(i, n, x) == n = FN(i) /\ (x \in frames[i].kids \/ x = frames[i].child)
\* What the i-th frame knows, or learns when the pending successor is compared.
Knows(i, d) ==
    \/ D[rep[FN(i)]] <= d
    \/ /\ i = Len(frames) /\ frames[i].child # NoNode
       /\ Open(frames[i].child) /\ D[rep[frames[i].child]] <= d

(* The low-link property: the representative of an active node was met no    *)
(* later than any open node that an explored edge from under it leads to.    *)
LowLink ==
    \A i \in 1..Len(frames) : \A n, x \in Node :
        Under(i, n) /\ x \in succs(n) /\ ~due(i, n, x) /\ Open(x) => Knows(i, D[x])

(* On _SS the nodes met after an active node lie above those met before it. *)
Layered ==
    \A i, j \in 1..Len(stack), k \in 1..Len(frames) :
        i < j /\ D[FN(k)] < D[stack[i]] => D[FN(k)] < D[stack[j]]

IInv ==
    /\ Types /\ Numbered /\ Placed /\ Path /\ Explored
    /\ RepRight /\ Down /\ Up /\ LowLink /\ Layered

-----------------------------------------------------------------------------
(* Reachability.                                                            *)

LEMMA ReachRefl == ASSUME NEW n \in Node PROVE Reach(n, n)
BY DEF Reach, C!Reaches

LEMMA ReachTrans ==
    ASSUME NEW n, NEW m, NEW k, Reach(n, m), Reach(m, k)
    PROVE  Reach(n, k)
BY DEF Reach, C!Reaches

LEMMA SuccsEdges ==
    ASSUME edges \in SUBSET (Node \X Node), NEW n, NEW x
    PROVE  /\ x \in succs(n) <=> <<n, x>> \in edges
           /\ x \in succs(n) => n \in Node /\ x \in Node
BY DEF succs

LEMMA ReachEdge ==
    ASSUME edges \in SUBSET (Node \X Node), NEW n, NEW x \in succs(n)
    PROVE  Reach(n, x)
<1>1. <<n, x>> \in edges
  BY SuccsEdges
<1> QED
  BY <1>1 DEF Reach, C!Reaches, C!Closed

(* What a set closed under the edges cuts off is not reached. *)
LEMMA ReachClosed ==
    ASSUME edges \in SUBSET (Node \X Node),
           NEW S \in SUBSET Node, NEW n \in S, NEW m,
           \A u \in S : succs(u) \subseteq S,
           Reach(n, m)
    PROVE  m \in S
<1>1. C!Closed(edges, S)
  <2> SUFFICES ASSUME NEW e \in edges, e[1] \in S PROVE e[2] \in S
    BY DEF C!Closed
  <2>1. e[2] \in succs(e[1])
    BY DEF succs
  <2> QED BY <2>1
<1> QED
  BY <1>1 DEF Reach, C!Reaches

LEMMA ReachSame ==
    ASSUME edges' = edges
    PROVE  \A n, m : /\ Reach(n, m)' <=> Reach(n, m)
                     /\ (m \in succs(n))' <=> m \in succs(n)
BY DEF Reach, C!Reaches, C!Closed, succs

-----------------------------------------------------------------------------
(* The frame stack.                                                         *)

LEMMA FramesPushed ==
    ASSUME frames \in Seq(Frame), NEW f \in Frame, frames' = Append(frames, f)
    PROVE  /\ frames' \in Seq(Frame)
           /\ Len(frames') = Len(frames) + 1
           /\ \A i \in 1..Len(frames) : frames'[i] = frames[i]
           /\ frames'[Len(frames) + 1] = f
BY AppendProperties

LEMMA Prefix ==
    ASSUME NEW S, NEW s \in Seq(S), NEW k \in 0..Len(s)
    PROVE  /\ SubSeq(s, 1, k) \in Seq(S)
           /\ Len(SubSeq(s, 1, k)) = k
           /\ \A i \in 1..k : SubSeq(s, 1, k)[i] = s[i]
<1>1. \A i \in 1..k : s[i] \in S
  BY ElementOfSeq, LenProperties
<1>2. k \in Nat
  BY LenProperties
<1>3. /\ SubSeq(s, 1, k) \in Seq(S)
      /\ Len(SubSeq(s, 1, k)) = IF 1 <= k THEN k-1+1 ELSE 0
      /\ \A i \in 1..k-1+1 : SubSeq(s, 1, k)[i] = s[1+i-1]
  BY <1>1, <1>2, SubSeqProperties
<1>4. Len(SubSeq(s, 1, k)) = k
  BY <1>2, <1>3
<1>5. ASSUME NEW i \in 1..k PROVE SubSeq(s, 1, k)[i] = s[i]
  <2>1. i \in 1..k-1+1 /\ 1+i-1 = i
    BY <1>2
  <2> QED BY <1>3, <2>1
<1> QED
  BY <1>3, <1>4, <1>5

LEMMA FramesPopped ==
    ASSUME frames \in Seq(Frame), frames # <<>>, frames' = Front(frames)
    PROVE  /\ frames' \in Seq(Frame)
           /\ Len(frames) \in Nat \ {0}
           /\ Len(frames') = Len(frames) - 1
           /\ \A i \in 1..Len(frames) - 1 : frames'[i] = frames[i]
<1>1. Len(frames) \in Nat \ {0}
  BY EmptySeq, LenProperties
<1>2. Len(frames) - 1 \in 0..Len(frames)
  BY <1>1
<1>3. frames' = SubSeq(frames, 1, Len(frames) - 1)
  BY DEF Front
<1>4. /\ SubSeq(frames, 1, Len(frames) - 1) \in Seq(Frame)
      /\ Len(SubSeq(frames, 1, Len(frames) - 1)) = Len(frames) - 1
      /\ \A i \in 1..Len(frames) - 1 : SubSeq(frames, 1, Len(frames) - 1)[i] = frames[i]
  BY <1>2, Prefix
<1> QED
  BY <1>1, <1>3, <1>4

LEMMA FramesTop ==
    ASSUME frames \in Seq(Frame), frames # <<>>, NEW f \in Frame,
           frames' = [frames EXCEPT ![Len(frames)] = f]
    PROVE  /\ frames' \in Seq(Frame)
           /\ Len(frames) \in 1..Len(frames)
           /\ Len(frames') = Len(frames)
           /\ \A i \in 1..Len(frames) : i < Len(frames) => frames'[i] = frames[i]
           /\ frames'[Len(frames)] = f
<1>1. Len(frames) \in 1..Len(frames)
  BY EmptySeq, LenProperties
<1> QED
  BY <1>1, ExceptSeq

-----------------------------------------------------------------------------
(* Entering visit(v), from find or from the loop over successors.           *)

LEMMA VisitKeeps ==
    ASSUME IInv, NEW v \in Node, ~visited(v), visit(v), todo' \in SUBSET Node,
           frames # <<>> => top.child = v
    PROVE  IInv'
<1>1. PICK L \in Nat : L = Len(frames)
  BY LenProperties DEF IInv, Types
<1>2. frame(v, succs(v), NoNode) \in Frame
  BY SuccsEdges DEF IInv, Types, Frame, frame
<1>3. /\ frames' \in Seq(Frame)
      /\ Len(frames') = L + 1
      /\ \A i \in 1..L : frames'[i] = frames[i]
      /\ frames'[L + 1] = frame(v, succs(v), NoNode)
  BY <1>1, <1>2, FramesPushed DEF IInv, Types, visit
<1>4. /\ \A i \in 1..L : FN(i)' = FN(i) /\ FN(i) \in Node
      /\ FN(L + 1)' = v
  <2>1. \A i \in 1..L : frames[i] \in Frame
    BY <1>1, ElementOfSeq DEF IInv, Types
  <2> QED BY <1>3, <2>1 DEF FN, frame, Frame
<1>5. /\ edges' = edges /\ stack' = stack /\ inSCC' = inSCC
      /\ D' = [D EXCEPT ![v] = I + 1] /\ I' = I + 1
      /\ D'[v] = I + 1 /\ \A n \in Node : n # v => D'[n] = D[n]
      /\ rep' = [n \in Node |-> IF n \in {v} THEN v ELSE rep[n]]
  BY DEF visit, setRep, IInv, Types
<1>6. v \notin inSCC /\ v \notin OnFrames /\ v \notin OnStack
  BY DEF IInv, Placed
<1>7. \A n \in Node : /\ visited(n)' <=> visited(n) \/ n = v
                      /\ Open(n)' <=> Open(n) \/ n = v
                      /\ D[n] <= I /\ D[n] \in Nat /\ I \in Nat
  BY <1>5, <1>6 DEF visited, Open, IInv, Types, Numbered
<1>8. OnStack' = OnStack /\ OnStack \subseteq Node
  BY <1>5, ElementOfSeq DEF OnStack, IInv, Types
<1>9. OnFrames' = OnFrames \union {v} /\ OnFrames \subseteq Node
  <2>1. \A i : i \in 1..L+1 <=> i \in 1..L \/ i = L+1
    OBVIOUS
  <2>2. OnFrames' = {FN(i)' : i \in 1..L+1}
    BY <1>3 DEF OnFrames, FN
  <2> QED BY <1>1, <1>4, <2>1, <2>2 DEF OnFrames
<1>10. \A n, m : /\ Reach(n, m)' <=> Reach(n, m)
                 /\ (m \in succs(n))' <=> m \in succs(n)
  BY <1>5, ReachSame
<1>11. L > 0 => frames[L].child = v /\ v \in succs(FN(L)) /\ FN(L) \in Node
  <2> SUFFICES ASSUME L > 0 PROVE frames[L].child = v /\ v \in succs(FN(L)) /\ FN(L) \in Node
    OBVIOUS
  <2>1. L \in 1..L
    OBVIOUS
  <2>2. frames[L].child = v
    BY <2>1, <1>1, EmptySeq DEF top
  <2>3. frames[L].child # NoNode
    BY <2>2, NodeAssumption
  <2>4. frames[L].child \in succs(FN(L))
    BY <2>1, <2>3, <1>1 DEF IInv, Path
  <2> QED BY <2>1, <2>2, <2>4, <1>4
<1>12. \A i \in 1..L : /\ FN(i) \in OnFrames /\ FN(i) # v /\ D'[FN(i)] = D[FN(i)]
                       /\ visited(FN(i)) /\ D[FN(i)] <= I
  BY <1>1, <1>4, <1>5, <1>6, <1>7 DEF OnFrames, IInv, Placed
<1>13. \A n \in OnStack : n \in Node /\ n # v /\ D'[n] = D[n] /\ visited(n) /\ D[n] <= I
  BY <1>5, <1>6, <1>7, <1>8 DEF IInv, Placed
<1>14. \A i : i \in 1..L+1 <=> i \in 1..L \/ i = L+1
  OBVIOUS
<1>t. Types'
  BY <1>3, <1>5, <1>7 DEF IInv, Types
<1>n. Numbered'
  <2>1. \A n \in Node : D'[n] <= I'
    BY <1>5, <1>7
  <2>2. ASSUME NEW n \in Node, NEW m \in Node, visited(n)', D'[n] = D'[m] PROVE n = m
    <3>1. CASE n = v \/ m = v
      BY <3>1, <2>2, <1>5, <1>7
    <3>2. CASE n # v /\ m # v
      BY <3>2, <2>2, <1>5, <1>7 DEF IInv, Numbered
    <3> QED BY <3>1, <3>2
  <2> QED BY <2>1, <2>2 DEF Numbered
<1>p. Placed'
  BY <1>5, <1>6, <1>7, <1>8, <1>9 DEF IInv, Placed
<1>h. Path'
  <2>1. ASSUME NEW i \in 1..L+1, NEW j \in 1..L+1, i < j PROVE D'[FN(i)'] < D'[FN(j)']
    <3>1. i \in 1..L
      BY <2>1
    <3>2. CASE j = L+1
      BY <3>1, <3>2, <1>4, <1>5, <1>7, <1>12
    <3>3. CASE j \in 1..L
      BY <3>1, <3>3, <2>1, <1>1, <1>4, <1>12 DEF IInv, Path
    <3> QED BY <3>2, <3>3, <1>14
  <2>2. ASSUME NEW i \in 1..L+1, i < L+1 PROVE frames'[i].child = FN(i+1)'
    <3>1. i \in 1..L
      BY <2>2
    <3>2. CASE i = L
      BY <3>1, <3>2, <1>3, <1>4, <1>11
    <3>3. CASE i < L
      <4>1. i + 1 \in 1..L
        BY <3>1, <3>3
      <4>2. frames[i].child = FN(i+1)
        BY <3>1, <3>3, <1>1 DEF IInv, Path
      <4> QED BY <3>1, <4>1, <4>2, <1>3, <1>4
    <3> QED BY <3>1, <3>2, <3>3
  <2>3. ASSUME NEW i \in 1..L+1, frames'[i].child # NoNode
        PROVE  (frames[i].child \in succs(FN(i)))'
    <3>1. CASE i \in 1..L
      <4>1. frames[i].child \in succs(FN(i))
        BY <3>1, <2>3, <1>1, <1>3 DEF IInv, Path
      <4> QED BY <3>1, <4>1, <1>3, <1>4, <1>5 DEF succs
    <3>2. CASE i = L+1
      BY <3>2, <2>3, <1>3 DEF frame
    <3> QED BY <3>1, <3>2, <1>14
  <2>4. ASSUME NEW i \in 1..L+1 PROVE (frames[i].kids \subseteq succs(FN(i)))'
    <3>1. CASE i \in 1..L
      <4>1. frames[i].kids \subseteq succs(FN(i))
        BY <3>1, <1>1 DEF IInv, Path
      <4> QED BY <3>1, <4>1, <1>3, <1>4, <1>5 DEF succs
    <3>2. CASE i = L+1
      BY <3>2, <1>3, <1>4, <1>5 DEF frame, succs
    <3> QED BY <3>1, <3>2, <1>14
  <2> QED BY <2>1, <2>2, <2>3, <2>4, <1>3 DEF Path
<1>e. Explored'
  <2>1. ASSUME NEW n \in Node, n \in inSCC \/ n \in OnStack, NEW x \in succs(n)
        PROVE  visited(x)'
    BY <2>1, <1>7, SuccsEdges DEF IInv, Types, Explored
  <2>2. ASSUME NEW i \in 1..L+1, NEW x, (x \in succs(FN(i)))'
        PROVE  (x \in frames[i].kids \/ x = frames[i].child \/ visited(x))'
    <3>1. CASE i \in 1..L
      <4>1. x \in succs(FN(i)) /\ x \in Node
        BY <3>1, <2>2, <1>4, <1>5, SuccsEdges DEF succs, IInv, Types
      <4> QED BY <4>1, <3>1, <1>1, <1>3, <1>7 DEF IInv, Explored
    <3>2. CASE i = L+1
      BY <3>2, <2>2, <1>3, <1>4, <1>5 DEF frame, succs
    <3> QED BY <3>1, <3>2, <1>14
  <2>3. \A n \in inSCC : succs(n)' \subseteq inSCC
    BY <1>5 DEF succs, IInv, Explored
  <2>4. \A n : succs(n)' = succs(n)
    BY <1>5 DEF succs
  <2> QED BY <2>1, <2>2, <2>3, <2>4, <1>3, <1>5, <1>8 DEF Explored
<1>r. RepRight'
  <2> SUFFICES ASSUME NEW n \in Node, Open(n)', NEW r, r = rep'[n]
               PROVE  r \in Node /\ Open(r)' /\ D'[r] <= D'[n] /\ Reach(n, r)
    BY <1>10 DEF RepRight
  <2>1. CASE n = v
    BY <2>1, <1>5, <1>7, ReachRefl
  <2>2. CASE n # v
    <3>1. Open(n)
      BY <2>2, <1>7
    <3>2. /\ rep[n] \in Node /\ Open(rep[n]) /\ D[rep[n]] <= D[n] /\ Reach(n, rep[n])
      BY <3>1 DEF IInv, RepRight
    <3>3. r = rep[n] /\ r # v
      BY <2>2, <3>2, <1>5 DEF Open
    <3> QED BY <2>2, <3>2, <3>3, <1>5, <1>7
  <2> QED BY <2>1, <2>2
<1>d. Down'
  <2> SUFFICES ASSUME NEW i \in 1..L+1, NEW n \in Node, D'[FN(i)'] <= D'[n]
               PROVE  Reach(FN(i)', n)
    BY <1>3, <1>10 DEF Down
  <2>1. CASE i \in 1..L /\ n # v
    BY <2>1, <1>1, <1>4, <1>5, <1>12 DEF IInv, Down
  <2>2. CASE i \in 1..L /\ n = v
    <3>1. L \in 1..L
      BY <2>2
    <3>2. D[FN(i)] <= D[FN(L)]
      BY <2>2, <3>1, <1>1, <1>4, <1>7 DEF IInv, Path
    <3>3. Reach(FN(i), FN(L))
      BY <2>2, <3>1, <3>2, <1>1, <1>4 DEF IInv, Down
    <3>4. Reach(FN(L), v)
      BY <3>1, <1>11, ReachEdge DEF IInv, Types
    <3> QED BY <2>2, <3>3, <3>4, <1>4, ReachTrans
  <2>3. CASE i = L+1
    <3>1. n = v
      BY <2>3, <1>4, <1>5, <1>7
    <3> QED BY <2>3, <3>1, <1>4, ReachRefl
  <2> QED BY <2>1, <2>2, <2>3, <1>14
<1>u. Up'
  <2> SUFFICES ASSUME NEW n \in OnStack
               PROVE  \E i \in 1..L+1 : D'[FN(i)'] < D'[n] /\ Reach(n, FN(i)')
    BY <1>3, <1>8, <1>10 DEF Up
  <2>1. PICK i \in 1..L : D[FN(i)] < D[n] /\ Reach(n, FN(i))
    BY <1>1 DEF IInv, Up
  <2>2. i \in 1..L+1
    OBVIOUS
  <2> QED BY <2>1, <2>2, <1>4, <1>12, <1>13
<1>w. LowLink'
  <2> SUFFICES ASSUME NEW i \in 1..L+1, NEW n \in Node, NEW x \in Node, Under(i, n)',
                      x \in succs(n), ~due(i, n, x)', Open(x)'
               PROVE  Knows(i, D[x])'
    BY <1>3, <1>10 DEF LowLink
  <2>1. CASE i = L+1
    <3>1. n = v
      BY <2>1, <1>4, <1>5, <1>7, <1>8, <1>13 DEF Under
    <3> QED BY <2>1, <3>1, <1>3, <1>4 DEF due, frame
  <2>2. CASE i \in 1..L
    <3>1. Under(i, n)
      BY <2>2, <1>1, <1>3, <1>4, <1>8, <1>12, <1>13, <1>14, <1>5 DEF Under
    <3>2. ~due(i, n, x)
      BY <2>2, <1>3, <1>4 DEF due
    <3>3. visited(x)
      BY <2>2, <3>1, <3>2, <1>1 DEF Under, due, IInv, Explored
    <3>4. Open(x) /\ x # v
      BY <3>3, <1>7
    <3>5. Knows(i, D[x])
      BY <2>2, <3>1, <3>2, <3>4, <1>1 DEF IInv, LowLink
    <3>6. D[rep[FN(i)]] <= D[x]
      BY <2>2, <3>5, <1>1, <1>11 DEF Knows, Open
    <3>7. Open(FN(i))
      BY <2>2, <1>1, <1>12 DEF Open, IInv, Placed
    <3>8. rep[FN(i)] \in Node /\ rep[FN(i)] # v
      BY <2>2, <3>7, <1>4 DEF IInv, RepRight, Open
    <3> QED BY <2>2, <3>4, <3>6, <3>8, <1>4, <1>5, <1>12 DEF Knows
  <2> QED BY <2>1, <2>2, <1>14
<1>l. Layered'
  <2> SUFFICES ASSUME NEW i \in 1..Len(stack), NEW j \in 1..Len(stack), NEW k \in 1..L+1,
                      i < j, D'[FN(k)'] < D'[stack[i]]
               PROVE  D'[FN(k)'] < D'[stack[j]]
    BY <1>3, <1>5 DEF Layered
  <2>1. stack[i] \in OnStack /\ stack[j] \in OnStack
    BY DEF OnStack
  <2>2. k \in 1..L
    BY <2>1, <1>4, <1>5, <1>7, <1>13, <1>14
  <2> QED BY <2>1, <2>2, <1>1, <1>4, <1>12, <1>13 DEF IInv, Layered
<1> QED
  BY <1>t, <1>n, <1>p, <1>h, <1>e, <1>r, <1>d, <1>u, <1>w, <1>l DEF IInv

-----------------------------------------------------------------------------
(* The loop over the successors changes the top frame and no node's place.  *)

LEMMA TopNode ==
    ASSUME Types, frames # <<>>
    PROVE  /\ Len(frames) \in Nat /\ Len(frames) \in 1..Len(frames)
           /\ top = frames[Len(frames)] /\ top \in Frame
           /\ top.node = FN(Len(frames)) /\ top.node \in Node
<1>1. Len(frames) \in 1..Len(frames)
  BY EmptySeq, LenProperties DEF Types
<1>2. top \in Frame
  BY <1>1, ElementOfSeq DEF top, Types
<1> QED
  BY <1>1, <1>2 DEF top, FN, Frame

LEMMA TopChanged ==
    ASSUME IInv, frames # <<>>, NEW L, L = Len(frames),
           NEW K \in SUBSET succs(FN(L)), NEW c \in Node \union {NoNode},
           c # NoNode => c \in succs(FN(L)),
           \A x \in succs(FN(L)) : x \in K \/ x = c \/ visited(x),
           frames' = setTop(K, c),
           UNCHANGED <<edges, I, D, inSCC, stack>>
    PROVE  /\ frames' \in Seq(Frame) /\ Len(frames') = L /\ L \in Nat /\ L \in 1..L
           /\ \A i \in 1..L : FN(i)' = FN(i)
           /\ \A i \in 1..L : i # L => frames'[i] = frames[i]
           /\ frames'[L] = frame(FN(L), K, c)
           /\ Numbered' /\ Placed' /\ Path' /\ Explored' /\ Down' /\ Up' /\ Layered'
<1>1. L \in Nat /\ L \in 1..L /\ top.node = FN(L) /\ FN(L) \in Node
  BY TopNode DEF IInv
<1>2. frame(FN(L), K, c) \in Frame
  BY <1>1, SuccsEdges DEF IInv, Types, Frame, frame
<1>3. /\ frames' \in Seq(Frame) /\ Len(frames') = L
      /\ \A i \in 1..L : i < L => frames'[i] = frames[i]
      /\ frames'[L] = frame(FN(L), K, c)
  BY <1>1, <1>2, FramesTop DEF setTop, IInv, Types
<1>4. \A i \in 1..L : i # L => frames'[i] = frames[i]
  BY <1>1, <1>3
<1>5. \A i \in 1..L : FN(i)' = FN(i)
  BY <1>3, <1>4 DEF FN, frame
<1>6. OnFrames' = OnFrames /\ OnStack' = OnStack
  BY <1>3, <1>5 DEF OnFrames, OnStack
<1>7. \A n, m : /\ Reach(n, m)' <=> Reach(n, m)
                /\ succs(n)' = succs(n)
                /\ visited(n)' <=> visited(n)
  BY ReachSame DEF visited, succs
<1>n. Numbered'
  BY <1>7 DEF Numbered, IInv
<1>p. Placed'
  BY <1>6, <1>7 DEF Placed, IInv
<1>h. Path'
  <2>1. \A i, j \in 1..L : i < j => D[FN(i)'] < D[FN(j)']
    BY <1>5 DEF IInv, Path
  <2>2. ASSUME NEW i \in 1..L, i < L PROVE frames'[i].child = FN(i+1)'
    <3>1. i + 1 \in 1..L
      BY <2>2
    <3> QED BY <2>2, <3>1, <1>3, <1>5 DEF IInv, Path
  <2>3. ASSUME NEW i \in 1..L
        PROVE  /\ frames'[i].child # NoNode => frames'[i].child \in succs(FN(i)')
               /\ frames'[i].kids \subseteq succs(FN(i)')
    <3>1. CASE i = L
      BY <3>1, <1>3, <1>5 DEF frame
    <3>2. CASE i # L
      BY <3>2, <1>4, <1>5 DEF IInv, Path
    <3> QED BY <3>1, <3>2
  <2> QED BY <2>1, <2>2, <2>3, <1>3, <1>7 DEF Path
<1>e. Explored'
  <2>1. ASSUME NEW i \in 1..L, NEW x \in succs(FN(i))
        PROVE  x \in frames'[i].kids \/ x = frames'[i].child \/ visited(x)
    <3>1. CASE i = L
      BY <3>1, <1>3 DEF frame
    <3>2. CASE i # L
      BY <3>2, <1>4 DEF IInv, Explored
    <3> QED BY <3>1, <3>2
  <2> QED BY <2>1, <1>3, <1>5, <1>6, <1>7 DEF IInv, Explored
<1>d. Down'
  BY <1>3, <1>5, <1>7 DEF IInv, Down
<1>u. Up'
  BY <1>3, <1>5, <1>6, <1>7 DEF IInv, Up
<1>l. Layered'
  BY <1>3, <1>5 DEF IInv, Layered
<1> QED
  BY <1>1, <1>3, <1>4, <1>5, <1>n, <1>p, <1>h, <1>e, <1>d, <1>u, <1>l

LEMMA NextSuccKeeps ==
    ASSUME IInv, NEW w \in Node, NextSucc(w)
    PROVE  IInv'
<1>1. PICK L : L = Len(frames)
  OBVIOUS
<1>2. /\ frames # <<>> /\ L \in Nat /\ L \in 1..L /\ top = frames[L] /\ top.node = FN(L)
      /\ frames[L].child = NoNode /\ w \in frames[L].kids
      /\ frames' = setTop(frames[L].kids \ {w}, w)
      /\ w # NoNode
  BY <1>1, TopNode, NodeAssumption DEF NextSucc, IInv
<1>3. frames[L].kids \subseteq succs(FN(L))
  BY <1>1, <1>2 DEF IInv, Path
<1>4. \A x \in succs(FN(L)) : x \in frames[L].kids \/ visited(x)
  <2> SUFFICES ASSUME NEW x \in succs(FN(L)) PROVE x \in frames[L].kids \/ visited(x)
    OBVIOUS
  <2>1. x # NoNode
    BY SuccsEdges, NodeAssumption DEF IInv, Types
  <2>2. x \in frames[L].kids \/ x = frames[L].child \/ visited(x)
    BY <1>1, <1>2 DEF IInv, Explored
  <2> QED BY <2>1, <2>2, <1>2
<1>5. UNCHANGED <<edges, todo, I, D, inSCC, stack, rep>>
  BY DEF NextSucc, aux
<1>6. /\ frames' \in Seq(Frame) /\ Len(frames') = L
      /\ \A i \in 1..L : FN(i)' = FN(i)
      /\ \A i \in 1..L : i # L => frames'[i] = frames[i]
      /\ frames'[L] = frame(FN(L), frames[L].kids \ {w}, w)
      /\ Numbered' /\ Placed' /\ Path' /\ Explored' /\ Down' /\ Up' /\ Layered'
  <2> DEFINE K == frames[L].kids \ {w}
  <2>1. K \in SUBSET succs(FN(L)) /\ w \in succs(FN(L))
    BY <1>2, <1>3
  <2>2. \A x \in succs(FN(L)) : x \in K \/ x = w \/ visited(x)
    BY <1>4
  <2>3. frames' = setTop(K, w)
    BY <1>2
  <2> HIDE DEF K
  <2>4. /\ frames' \in Seq(Frame) /\ Len(frames') = L
        /\ \A i \in 1..L : FN(i)' = FN(i)
        /\ \A i \in 1..L : i # L => frames'[i] = frames[i]
        /\ frames'[L] = frame(FN(L), K, w)
        /\ Numbered' /\ Placed' /\ Path' /\ Explored' /\ Down' /\ Up' /\ Layered'
    BY <2>1, <2>2, <2>3, <1>1, <1>2, <1>5, TopChanged
  <2> QED BY <2>4 DEF K
<1>t. Types'
  BY <1>5, <1>6 DEF IInv, Types
<1>7. \A n, m : /\ (m \in succs(n))' <=> m \in succs(n)
                /\ Reach(n, m)' <=> Reach(n, m)
                /\ Open(n)' <=> Open(n)
  BY <1>5, ReachSame DEF Open, visited
<1>r. RepRight'
  BY <1>5, <1>7 DEF IInv, RepRight
<1>w. LowLink'
  <2> SUFFICES ASSUME NEW i \in 1..L, NEW n \in Node, NEW x \in Node, Under(i, n)',
                      x \in succs(n), ~due(i, n, x)', Open(x)
               PROVE  Knows(i, D[x])'
    BY <1>6, <1>7 DEF LowLink
  <2>1. Under(i, n)
    <3>1. OnStack' = OnStack
      BY <1>5 DEF OnStack
    <3>2. i < L => i + 1 \in 1..L
      BY <1>2
    <3> QED BY <3>1, <3>2, <1>1, <1>5, <1>6 DEF Under
  <2>2. ~due(i, n, x)
    <3>1. CASE i = L
      <4>1. frames'[L].kids = frames[L].kids \ {w} /\ frames'[L].child = w
        BY <1>6 DEF frame
      <4>2. n # FN(L) \/ ~(x \in frames[L].kids \ {w} \/ x = w)
        BY <3>1, <4>1, <1>6 DEF due
      <4>3. n # FN(L) \/ ~(x \in frames[L].kids \/ x = NoNode)
        BY <4>2, NodeAssumption
      <4> QED BY <3>1, <4>3, <1>2 DEF due
    <3>2. CASE i # L
      BY <3>2, <1>6 DEF due
    <3> QED BY <3>1, <3>2
  <2>3. Knows(i, D[x])
    BY <2>1, <2>2, <1>1 DEF IInv, LowLink
  <2>4. D[rep[FN(i)]] <= D[x]
    BY <2>3, <1>1, <1>2 DEF Knows
  <2> QED BY <2>4, <1>5, <1>6 DEF Knows
<1> QED
  BY <1>t, <1>r, <1>6, <1>w DEF IInv

LEMMA ActiveOpen ==
    ASSUME IInv, NEW i \in 1..Len(frames)
    PROVE  /\ FN(i) \in Node /\ Open(FN(i)) /\ FN(i) \in OnFrames
           /\ rep[FN(i)] \in Node /\ Open(rep[FN(i)]) /\ D[rep[FN(i)]] <= D[FN(i)]
           /\ D[FN(i)] \in Nat /\ D[rep[FN(i)]] \in Nat /\ Reach(FN(i), rep[FN(i)])
<1>1. FN(i) \in Node /\ FN(i) \in OnFrames
  <2>1. frames[i] \in Frame
    BY ElementOfSeq DEF IInv, Types
  <2> QED BY <2>1 DEF FN, Frame, OnFrames
<1>2. Open(FN(i))
  BY <1>1 DEF IInv, Placed, Open
<1>3. rep[FN(i)] \in Node /\ Open(rep[FN(i)]) /\ D[rep[FN(i)]] <= D[FN(i)] /\ Reach(FN(i), rep[FN(i)])
  BY <1>1, <1>2 DEF IInv, RepRight
<1> QED
  BY <1>1, <1>2, <1>3 DEF IInv, Types

LEMMA CompareRepKeeps ==
    ASSUME IInv, CompareRep
    PROVE  IInv'
<1>1. PICK L, w : L = Len(frames) /\ w = top.child
  OBVIOUS
<1>2. /\ frames # <<>> /\ L \in Nat /\ L \in 1..L /\ top = frames[L] /\ top.node = FN(L)
      /\ frames[L].child = w /\ w # NoNode /\ visited(w)
      /\ frames' = setTop(frames[L].kids, NoNode)
  BY <1>1, TopNode DEF CompareRep, IInv
<1>3. frames[L].kids \subseteq succs(FN(L)) /\ w \in succs(FN(L)) /\ w \in Node
  BY <1>1, <1>2, SuccsEdges DEF IInv, Types, Path
<1>4. \A x \in succs(FN(L)) : x \in frames[L].kids \/ x = NoNode \/ visited(x)
  BY <1>1, <1>2 DEF IInv, Explored
<1>5. UNCHANGED <<edges, todo, I, D, inSCC, stack>>
  BY DEF CompareRep
<1>6. /\ frames' \in Seq(Frame) /\ Len(frames') = L
      /\ \A i \in 1..L : FN(i)' = FN(i)
      /\ \A i \in 1..L : i # L => frames'[i] = frames[i]
      /\ frames'[L] = frame(FN(L), frames[L].kids, NoNode)
      /\ Numbered' /\ Placed' /\ Path' /\ Explored' /\ Down' /\ Up' /\ Layered'
  <2> DEFINE K == frames[L].kids
  <2>1. K \in SUBSET succs(FN(L))
    BY <1>3
  <2>2. \A x \in succs(FN(L)) : x \in K \/ x = NoNode \/ visited(x)
    BY <1>4
  <2>3. frames' = setTop(K, NoNode)
    BY <1>2
  <2> HIDE DEF K
  <2>4. /\ frames' \in Seq(Frame) /\ Len(frames') = L
        /\ \A i \in 1..L : FN(i)' = FN(i)
        /\ \A i \in 1..L : i # L => frames'[i] = frames[i]
        /\ frames'[L] = frame(FN(L), K, NoNode)
        /\ Numbered' /\ Placed' /\ Path' /\ Explored' /\ Down' /\ Up' /\ Layered'
    BY <2>1, <2>2, <2>3, <1>1, <1>2, <1>5, TopChanged
  <2> QED BY <2>4 DEF K
<1>7. \A n, m : /\ (m \in succs(n))' <=> m \in succs(n)
                /\ Reach(n, m)' <=> Reach(n, m)
                /\ Open(n)' <=> Open(n)
  BY <1>5, ReachSame DEF Open, visited
<1>8. PICK v \in Node : v = FN(L)
  BY <1>1, <1>2, ActiveOpen
<1>9. /\ Open(v) /\ rep[v] \in Node /\ Open(rep[v]) /\ D[rep[v]] <= D[v]
      /\ D[rep[v]] \in Nat /\ D[v] \in Nat /\ Reach(v, rep[v]) /\ Reach(v, w)
  BY <1>1, <1>2, <1>3, <1>8, ActiveOpen, ReachEdge DEF IInv, Types
<1>10. Open(w) => /\ rep[w] \in Node /\ Open(rep[w]) /\ D[rep[w]] <= D[w]
                  /\ D[rep[w]] \in Nat /\ D[w] \in Nat /\ Reach(v, rep[w])
  BY <1>3, <1>9, ReachTrans DEF IInv, Types, RepRight
<1>11. \A n \in Node : n # v => rep'[n] = rep[n]
  BY <1>2, <1>8 DEF CompareRep, setRep, aux
<1>12. PICK r \in Node :
          /\ rep'[v] = r /\ rep' \in [Node -> Node \union {NoNode}]
          /\ Open(r) /\ D[r] \in Nat /\ D[r] <= D[v] /\ D[r] <= D[rep[v]] /\ Reach(v, r)
          /\ Open(w) => D[r] <= D[rep[w]]
  <2>1. CASE w \in inSCC
    <3>1. rep' = rep
      BY <2>1, <1>1 DEF CompareRep, open, aux
    <3> QED BY <2>1, <3>1, <1>9 DEF Open, IInv, Types
  <2>2. CASE w \notin inSCC
    <3>1. Open(w)
      BY <2>2, <1>2 DEF Open
    <3>2. rep' = [n \in Node |-> IF n \in {v} THEN earlier(rep[v], rep[w]) ELSE rep[n]]
      BY <2>2, <1>1, <1>2, <1>8 DEF CompareRep, open, setRep
    <3>3. earlier(rep[v], rep[w]) \in {rep[v], rep[w]}
      BY DEF earlier
    <3>4. D[earlier(rep[v], rep[w])] <= D[rep[v]] /\ D[earlier(rep[v], rep[w])] <= D[rep[w]]
      BY <3>1, <1>9, <1>10 DEF earlier
    <3>5. PICK r : r = earlier(rep[v], rep[w])
      OBVIOUS
    <3>6. r \in Node /\ Open(r) /\ D[r] \in Nat /\ Reach(v, r)
      BY <3>1, <3>3, <3>5, <1>9, <1>10
    <3>7. rep'[v] = r /\ rep' \in [Node -> Node \union {NoNode}]
      BY <3>2, <3>5, <3>6 DEF IInv, Types
    <3> QED BY <3>1, <3>4, <3>5, <3>6, <3>7, <1>9, <1>10
  <2> QED BY <2>1, <2>2
<1>t. Types'
  BY <1>5, <1>6, <1>12 DEF IInv, Types
<1>r. RepRight'
  <2> SUFFICES ASSUME NEW n \in Node, Open(n), NEW q, q = rep'[n]
               PROVE  q \in Node /\ Open(q) /\ D[q] <= D[n] /\ Reach(n, q)
    BY <1>5, <1>7 DEF RepRight
  <2>1. CASE n = v
    BY <2>1, <1>12
  <2>2. CASE n # v
    BY <2>2, <1>11 DEF IInv, RepRight
  <2> QED BY <2>1, <2>2
<1>w. LowLink'
  <2> SUFFICES ASSUME NEW i \in 1..L, NEW n \in Node, NEW x \in Node, Under(i, n)',
                      x \in succs(n), ~due(i, n, x)', Open(x)
               PROVE  Knows(i, D[x])'
    BY <1>6, <1>7 DEF LowLink
  <2>1. Under(i, n)
    <3>1. OnStack' = OnStack
      BY <1>5 DEF OnStack
    <3>2. i < L => i + 1 \in 1..L
      BY <1>2
    <3> QED BY <3>1, <3>2, <1>1, <1>5, <1>6 DEF Under
  <2>2. D[x] \in Nat
    BY DEF IInv, Types
  <2>3. CASE i # L
    <3>1. ~due(i, n, x)
      BY <2>3, <1>6 DEF due
    <3>2. Knows(i, D[x])
      BY <2>1, <3>1, <1>1 DEF IInv, LowLink
    <3>3. D[rep[FN(i)]] <= D[x]
      BY <2>3, <3>2, <1>1 DEF Knows
    <3>4. FN(i) \in Node /\ D[FN(i)] \in Nat
      BY <1>1, ActiveOpen
    <3>5. D[FN(i)] < D[v]
      BY <2>3, <1>1, <1>2, <1>8 DEF IInv, Path
    <3>6. FN(i) # v
      BY <3>4, <3>5, <1>9
    <3> QED BY <3>3, <3>4, <3>6, <1>5, <1>6, <1>11 DEF Knows
  <2>4. CASE i = L
    <3>1. CASE due(i, n, x)
      <4>1. x = w
        BY <2>4, <3>1, <1>2, <1>6 DEF due, frame
      <4>2. D[rep'[v]] <= D[x]
        BY <4>1, <1>10, <1>12, <2>2
      <4> QED BY <2>4, <4>2, <1>5, <1>6, <1>8 DEF Knows
    <3>2. CASE ~due(i, n, x)
      <4>1. Knows(L, D[x])
        BY <2>1, <2>4, <3>2, <1>1 DEF IInv, LowLink
      <4>2. D[rep[v]] <= D[x] \/ (Open(w) /\ D[rep[w]] <= D[x])
        BY <4>1, <1>2, <1>8 DEF Knows
      <4>3. D[rep'[v]] <= D[x]
        BY <4>2, <1>9, <1>10, <1>12, <2>2
      <4> QED BY <2>4, <4>3, <1>5, <1>6, <1>8 DEF Knows
    <3> QED BY <3>1, <3>2
  <2> QED BY <2>3, <2>4
<1> QED
  BY <1>t, <1>r, <1>6, <1>w DEF IInv

-----------------------------------------------------------------------------
(* Leaving visit(v): the top frame goes.                                    *)

LEMMA FrameLeft ==
    ASSUME IInv, frames # <<>>, frames' = Front(frames), NEW L, L = Len(frames)
    PROVE  /\ L \in Nat /\ L \in 1..L /\ L - 1 \in Nat
           /\ frames' \in Seq(Frame) /\ Len(frames') = L - 1
           /\ \A i \in 1..L-1 : /\ i \in 1..L /\ frames'[i] = frames[i] /\ FN(i)' = FN(i)
                                /\ D[FN(i)] < D[FN(L)] /\ FN(i) # FN(L)
           /\ \A i \in 1..L : i = L \/ i \in 1..L-1
           /\ OnFrames' = OnFrames \ {FN(L)}
<1>1. /\ L \in Nat /\ L # 0
      /\ frames' \in Seq(Frame) /\ Len(frames') = L - 1
      /\ \A i \in 1..L-1 : frames'[i] = frames[i]
  BY FramesPopped DEF IInv, Types
<1>2. L \in 1..L /\ L - 1 \in Nat /\ (\A i \in 1..L : i = L \/ i \in 1..L-1)
      /\ (\A i \in 1..L-1 : i \in 1..L /\ i < L)
  BY <1>1
<1>3. \A i \in 1..L-1 : D[FN(i)] < D[FN(L)]
  BY <1>2 DEF IInv, Path
<1>4. \A i \in 1..L-1 : FN(i) # FN(L)
  BY <1>2, <1>3, ActiveOpen
<1>5. \A i \in 1..L-1 : FN(i)' = FN(i)
  BY <1>1 DEF FN
<1>6. OnFrames' = {FN(i) : i \in 1..L-1}
  BY <1>1, <1>5 DEF OnFrames
<1>7. OnFrames' = OnFrames \ {FN(L)}
  BY <1>2, <1>4, <1>6 DEF OnFrames
<1> QED
  BY <1>1, <1>2, <1>3, <1>4, <1>5, <1>7

LEMMA LeaveInnerKeeps ==
    ASSUME IInv, LeaveInner
    PROVE  IInv'
<1>1. PICK L \in Nat : L = Len(frames)
  BY LenProperties DEF IInv, Types
<1>2. frames # <<>> /\ frames' = Front(frames)
  BY DEF LeaveInner, finished
<1>3. /\ L \in Nat /\ L \in 1..L /\ L - 1 \in Nat
      /\ frames' \in Seq(Frame) /\ Len(frames') = L - 1
      /\ \A i \in 1..L-1 : /\ i \in 1..L /\ frames'[i] = frames[i] /\ FN(i)' = FN(i)
                           /\ D[FN(i)] < D[FN(L)] /\ FN(i) # FN(L)
      /\ \A i \in 1..L : i = L \/ i \in 1..L-1
      /\ OnFrames' = OnFrames \ {FN(L)}
  BY <1>1, <1>2, FrameLeft
<1>4. PICK v \in Node : v = FN(L) /\ v = top.node
  BY <1>1, <1>2, TopNode DEF IInv
<1>5. frames[L].child = NoNode /\ frames[L].kids = {} /\ rep[v] # v /\ stack' = Append(stack, v)
  BY <1>1, <1>2, <1>4, TopNode DEF LeaveInner, finished, IInv
<1>6. UNCHANGED <<edges, todo, I, D, inSCC, rep>>
  BY DEF LeaveInner, aux
<1>7. PICK M \in Nat : /\ M = Len(stack) /\ stack' \in Seq(Node) /\ Len(stack') = M + 1
                       /\ \A i \in 1..M : stack'[i] = stack[i]
                       /\ stack'[M+1] = v
  BY <1>5, LenProperties, AppendProperties DEF IInv, Types
<1>8. OnStack' = OnStack \union {v} /\ OnStack \subseteq Node
  <2>1. \A i : i \in 1..M+1 <=> i \in 1..M \/ i = M+1
    OBVIOUS
  <2>2. OnStack = {stack[i] : i \in 1..M} /\ OnStack' = {stack'[i] : i \in 1..M+1}
    BY <1>7 DEF OnStack
  <2>3. \A i \in 1..M : stack[i] \in Node
    BY <1>7, ElementOfSeq DEF IInv, Types
  <2> QED BY <2>1, <2>2, <2>3, <1>7
<1>9. /\ v \in OnFrames /\ v \notin OnStack /\ v \notin inSCC /\ Open(v) /\ visited(v)
      /\ rep[v] \in Node /\ Open(rep[v]) /\ D[rep[v]] <= D[v] /\ Reach(v, rep[v])
      /\ D[v] \in Nat /\ D[rep[v]] \in Nat
  <2>1. /\ FN(L) \in OnFrames /\ Open(FN(L))
        /\ rep[FN(L)] \in Node /\ Open(rep[FN(L)]) /\ D[rep[FN(L)]] <= D[FN(L)]
        /\ Reach(FN(L), rep[FN(L)]) /\ D[FN(L)] \in Nat /\ D[rep[FN(L)]] \in Nat
    BY <1>1, <1>3, ActiveOpen
  <2>2. v \notin OnStack
    BY <2>1, <1>4 DEF IInv, Placed
  <2> QED BY <2>1, <2>2, <1>4 DEF Open
<1>10. D[rep[v]] < D[v]
  BY <1>5, <1>9 DEF IInv, Numbered
<1>11. \A n, m : /\ succs(n)' = succs(n)
                 /\ Reach(n, m)' <=> Reach(n, m)
                 /\ Open(n)' <=> Open(n)
                 /\ visited(n)' <=> visited(n)
  BY <1>6, ReachSame DEF Open, visited, succs
<1>12. \A n \in Node : D[n] \in Nat
  BY DEF IInv, Types
<1>13. \A i \in 1..L : FN(i) \in Node /\ D[FN(i)] \in Nat
  BY <1>1, ActiveOpen
<1>14. PICK b \in 1..L-1 : D[FN(b)] < D[v] /\ Reach(v, FN(b))
  <2>1. CASE rep[v] \in OnFrames
    <3>1. PICK b \in 1..L : rep[v] = FN(b)
      BY <2>1, <1>1 DEF OnFrames
    <3>2. b \in 1..L-1
      BY <3>1, <1>3, <1>4, <1>5
    <3> QED BY <3>1, <3>2, <1>9, <1>10
  <2>2. CASE rep[v] \in OnStack
    <3>1. PICK b \in 1..L : D[FN(b)] < D[rep[v]] /\ Reach(rep[v], FN(b))
      BY <2>2, <1>1, <1>9 DEF IInv, Up
    <3>2. D[FN(b)] < D[v]
      BY <3>1, <1>9, <1>10, <1>13
    <3>3. b \in 1..L-1
      <4>1. ASSUME b = L PROVE FALSE
        <5>1. FN(b) = v
          BY <4>1, <1>4
        <5>2. D[v] < D[v]
          BY <3>2, <5>1
        <5> QED BY <5>2, <1>9
      <4> QED BY <4>1, <1>3
    <3>4. Reach(v, FN(b))
      BY <3>1, <1>9, ReachTrans
    <3> QED BY <3>2, <3>3, <3>4
  <2> QED BY <2>1, <2>2, <1>9 DEF IInv, Placed, Open
<1>t. Types'
  BY <1>3, <1>6, <1>7 DEF IInv, Types
<1>n. Numbered'
  BY <1>6, <1>11 DEF IInv, Numbered
<1>p. Placed'
  BY <1>3, <1>4, <1>6, <1>8, <1>9, <1>11 DEF IInv, Placed
<1>h. Path'
  <2>1. \A i, j \in 1..L-1 : i < j => D[FN(i)'] < D[FN(j)']
    BY <1>1, <1>3 DEF IInv, Path
  <2>2. ASSUME NEW i \in 1..L-1, i < L-1 PROVE frames'[i].child = FN(i+1)'
    <3>1. i + 1 \in 1..L-1 /\ i < L
      BY <2>2, <1>3
    <3> QED BY <3>1, <1>1, <1>3 DEF IInv, Path
  <2>3. \A i \in 1..L-1 :
            /\ frames'[i].child # NoNode => frames'[i].child \in succs(FN(i)')
            /\ frames'[i].kids \subseteq succs(FN(i)')
    BY <1>1, <1>3 DEF IInv, Path
  <2>4. D' = D /\ Len(frames') = L-1
    BY <1>3, <1>6
  <2>5. \A n : succs(n)' = succs(n)
    BY <1>11
  <2> QED BY <2>1, <2>2, <2>3, <2>4, <2>5 DEF Path
<1>e. Explored'
  <2>1. \A x \in succs(v) : visited(x)
    <3> SUFFICES ASSUME NEW x \in succs(v) PROVE visited(x)
      OBVIOUS
    <3>1. x # NoNode
      BY SuccsEdges, NodeAssumption DEF IInv, Types
    <3> QED BY <3>1, <1>1, <1>3, <1>4, <1>5 DEF IInv, Explored
  <2>2. \A i \in 1..L-1 : \A x \in succs(FN(i)) :
            x \in frames'[i].kids \/ x = frames'[i].child \/ visited(x)
    BY <1>1, <1>3 DEF IInv, Explored
  <2> QED BY <2>1, <2>2, <1>3, <1>6, <1>8, <1>11 DEF IInv, Explored
<1>r. RepRight'
  BY <1>6, <1>11 DEF IInv, RepRight
<1>d. Down'
  BY <1>1, <1>3, <1>6, <1>11 DEF IInv, Down
<1>u. Up'
  <2> SUFFICES ASSUME NEW n \in OnStack \union {v}
               PROVE  \E i \in 1..L-1 : D[FN(i)] < D[n] /\ Reach(n, FN(i))
    BY <1>3, <1>6, <1>8, <1>11 DEF Up
  <2>1. CASE n = v
    BY <2>1, <1>14
  <2>2. CASE n \in OnStack
    <3>1. PICK i \in 1..L : D[FN(i)] < D[n] /\ Reach(n, FN(i))
      BY <2>2, <1>1 DEF IInv, Up
    <3>2. CASE i \in 1..L-1
      BY <3>1, <3>2
    <3>3. CASE i = L
      <4>1. Reach(n, FN(b))
        BY <3>1, <3>3, <1>4, <1>14, ReachTrans
      <4>2. D[FN(b)] < D[n]
        BY <3>1, <3>3, <2>2, <1>3, <1>4, <1>8, <1>12, <1>13, <1>14
      <4> QED BY <4>1, <4>2
    <3> QED BY <3>2, <3>3, <1>3
  <2> QED BY <2>1, <2>2
<1>w. LowLink'
  <2> SUFFICES ASSUME NEW i \in 1..L-1, NEW n \in Node, NEW x \in Node, Under(i, n)',
                      x \in succs(n), ~due(i, n, x)', Open(x)
               PROVE  Knows(i, D[x])'
    BY <1>3, <1>11 DEF LowLink
  <2>1. ~due(i, n, x)
    BY <1>3 DEF due
  <2>2. i # L /\ i \in 1..L /\ (i < L-1 => i+1 \in 1..L-1) /\ (i < L-1 \/ i = L-1) /\ i + 1 \in 1..L
    BY <1>3
  <2>3. CASE Under(i, n)
    <3>1. Knows(i, D[x])
      BY <2>1, <2>2, <2>3, <1>1 DEF IInv, LowLink
    <3>2. D[rep[FN(i)]] <= D[x]
      BY <2>2, <3>1, <1>1 DEF Knows
    <3> QED BY <3>2, <1>3, <1>6 DEF Knows
  <2>4. CASE ~Under(i, n)
    <3>1. n # FN(i) /\ n \in OnStack \union {v} /\ D[FN(i)] < D[n]
          /\ (i < L-1 => D[n] < D[FN(i+1)])
      BY <2>2, <2>4, <1>3, <1>6, <1>8 DEF Under
    <3>2. i < L-1 => D[FN(i+1)] < D[v]
      BY <2>2, <1>3, <1>4
    <3>3. i < L-1 => n # v
      BY <3>1, <3>2, <2>2, <1>9, <1>13
    <3>4. i = L-1
      BY <3>1, <3>3, <2>2, <2>4, <1>1 DEF Under
    <3>x. i + 1 = L /\ i < Len(frames) /\ FN(i+1) = v
      <4>1. i + 1 = L /\ i < Len(frames)
        BY <3>4, <1>1, <1>3
      <4>2. FN(i+1) = FN(L)
        BY <4>1
      <4> QED BY <4>1, <4>2, <1>4
    <3>5. n = v \/ (n \in OnStack /\ ~(D[n] < D[v]))
      BY <3>1, <3>x, <2>4 DEF Under
    <3>6. Under(L, n)
      <4>1. n # v => D[v] < D[n]
        BY <3>5, <1>9, <1>12 DEF IInv, Numbered
      <4> QED BY <3>5, <4>1, <1>1, <1>3, <1>4 DEF Under
    <3>7. ~due(L, n, x)
      BY <1>5, NodeAssumption DEF due
    <3>8. Knows(L, D[x])
      BY <3>6, <3>7, <1>1, <1>3 DEF IInv, LowLink
    <3>9. D[rep[v]] <= D[x]
      BY <3>8, <1>4, <1>5 DEF Knows
    <3>10. frames[i].child = v
      <4>1. frames[i].child = FN(i+1)
        BY <3>x, <2>2, <1>1 DEF IInv, Path
      <4> QED BY <4>1, <3>x
    <3>11. (frames[i].child)' = v /\ v # NoNode
      BY <3>10, <1>3, NodeAssumption
    <3> QED BY <3>4, <3>9, <3>11, <1>3, <1>6, <1>9, <1>11 DEF Knows
  <2> QED BY <2>3, <2>4
<1>l. Layered'
  <2> SUFFICES ASSUME NEW i \in 1..M+1, NEW j \in 1..M+1, NEW k \in 1..L-1,
                      i < j, D[FN(k)] < D[stack'[i]]
               PROVE  D[FN(k)] < D[stack'[j]]
    BY <1>3, <1>6, <1>7 DEF Layered
  <2>1. CASE j = M+1
    BY <2>1, <1>3, <1>4, <1>7
  <2>2. CASE j \in 1..M
    <3>1. i \in 1..M
      BY <2>2
    <3> QED BY <2>2, <3>1, <1>1, <1>3, <1>7 DEF IInv, Layered
  <2> QED BY <2>1, <2>2
<1> QED
  BY <1>t, <1>n, <1>p, <1>h, <1>e, <1>r, <1>d, <1>u, <1>w, <1>l DEF IInv

-----------------------------------------------------------------------------
(* Leaving the root of a component: what is popped is what was met later.   *)

LEMMA Greatest ==
    ASSUME NEW N \in Nat, NEW S \in SUBSET (0..N), NEW s \in S
    PROVE  \E x \in S : \A y \in S : y <= x
<1> DEFINE R == OpToRel(<, Nat)
           T == {m \in Nat : N - m \in S /\ m <= N}
<1>1. IsWellFoundedOn(R, Nat)
  BY NatLessThanWellFounded
<1>2. \A x, y \in Nat : y < x => <<y, x>> \in R
  BY DEF OpToRel
<1>3. T \subseteq Nat
  OBVIOUS
<1>4. s \in 0..N
  OBVIOUS
<1>5. N - s \in Nat /\ N - (N - s) = s /\ N - s <= N
  BY <1>4
<1>6. T # {}
  BY <1>5
<1> HIDE DEF R, T
<1>7. PICK t \in T : \A y \in T : ~ (<<y, t>> \in R)
  BY <1>1, <1>3, <1>6, WFMin
<1>8. t \in Nat /\ N - t \in S /\ t <= N
  BY DEF T
<1>9. ASSUME NEW y \in S PROVE y <= N - t
  <2>1. y \in 0..N
    OBVIOUS
  <2>2. N - y \in Nat /\ N - (N - y) = y /\ N - y <= N
    BY <2>1
  <2>3. N - y \in T
    BY <2>2 DEF T
  <2>4. ~(N - y < t)
    BY <2>3, <2>2, <1>2, <1>7, <1>8
  <2> QED BY <2>1, <2>4, <1>8
<1> QED
  BY <1>8, <1>9

LEMMA KeptExists ==
    ASSUME IInv, NEW v \in Node
    PROVE  /\ kept(v) \in 0..Len(stack)
           /\ kept(v) > 0 => D[stack[kept(v)]] <= D[v]
           /\ \A j \in (kept(v)+1)..Len(stack) : D[stack[j]] > D[v]
<1> DEFINE S == {k \in 0..Len(stack) : k > 0 => D[stack[k]] <= D[v]}
           Good(k) == /\ k > 0 => D[stack[k]] <= D[v]
                      /\ \A j \in (k+1)..Len(stack) : D[stack[j]] > D[v]
<1>1. Len(stack) \in Nat /\ \A k \in 1..Len(stack) : stack[k] \in Node
  BY LenProperties, ElementOfSeq DEF IInv, Types
<1>2. 0 \in S
  BY <1>1
<1>3. PICK k \in S : \A y \in S : y <= k
  BY <1>1, <1>2, Greatest
<1>4. ASSUME NEW j \in (k+1)..Len(stack) PROVE D[stack[j]] > D[v]
  <2>1. j \in 0..Len(stack) /\ j \in 1..Len(stack) /\ ~(j <= k) /\ j > 0
    BY <1>1, <1>3
  <2>2. j \notin S
    BY <1>3, <2>1
  <2>3. ~(D[stack[j]] <= D[v])
    BY <2>1, <2>2
  <2>4. D[stack[j]] \in Nat /\ D[v] \in Nat
    BY <1>1, <2>1 DEF IInv, Types
  <2> QED BY <2>3, <2>4
<1>5. k \in 0..Len(stack) /\ Good(k)
  BY <1>3, <1>4
<1>6. kept(v) = CHOOSE x \in 0..Len(stack) : Good(x)
  BY DEF kept
<1> HIDE DEF Good
<1>7. kept(v) \in 0..Len(stack) /\ Good(kept(v))
  BY <1>5, <1>6
<1> QED
  BY <1>7 DEF Good

LEMMA LeaveRootFacts ==
    ASSUME IInv, LeaveRoot
    PROVE  \E v \in Node, L \in Nat, P \in SUBSET Node :
              /\ L = Len(frames) /\ frames # <<>> /\ v = FN(L) /\ v = top.node
              /\ frames' = Front(frames)
              /\ frames[L].child = NoNode /\ frames[L].kids = {} /\ rep[v] = v
              /\ P = {w \in OnStack : D[v] < D[w]}
              /\ OnStack' = {w \in OnStack : D[w] < D[v]}
              /\ stack' = SubSeq(stack, 1, kept(v))
              /\ inSCC' = inSCC \union {v} \union P
              /\ rep' = [n \in Node |-> IF n \in P THEN v ELSE rep[n]]
              /\ sub' = [n \in Node |-> IF n = v THEN sub[v] \union P
                                        ELSE IF n \in P THEN {} ELSE sub[n]]
              /\ topo' = Append(topo, v)
              /\ UNCHANGED <<edges, todo, I, D>>
<1>1. frames # <<>> /\ frames' = Front(frames)
  BY DEF LeaveRoot, finished
<1>2. PICK L \in Nat, v \in Node : L = Len(frames) /\ L \in 1..L /\ v = FN(L) /\ v = top.node
                                   /\ top = frames[L]
  BY <1>1, TopNode DEF IInv
<1>3. frames[L].child = NoNode /\ frames[L].kids = {} /\ rep[v] = v
  BY <1>2 DEF LeaveRoot, finished
<1> DEFINE P == popped(v)
<1>4. PICK M \in Nat, k \in Nat :
          /\ M = Len(stack) /\ k = kept(v) /\ k \in 0..M
          /\ k > 0 => D[stack[k]] <= D[v]
          /\ \A j \in (k+1)..M : D[stack[j]] > D[v]
          /\ \A j \in 1..M : stack[j] \in Node /\ D[stack[j]] \in Nat /\ stack[j] \in OnStack
  <2>1. Len(stack) \in Nat /\ \A j \in 1..Len(stack) : stack[j] \in Node /\ D[stack[j]] \in Nat
    BY LenProperties, ElementOfSeq DEF IInv, Types
  <2>2. kept(v) \in Nat
    BY <2>1, KeptExists
  <2> QED BY <2>1, <2>2, KeptExists DEF OnStack
<1>5. /\ v \in OnFrames /\ v \notin OnStack /\ D[v] \in Nat /\ Open(v)
  BY <1>2, ActiveOpen DEF IInv, Placed
<1>6. ASSUME NEW j \in 1..k PROVE D[stack[j]] < D[v]
  <2>1. j \in 1..M /\ k \in 1..M /\ k > 0
    BY <1>4
  <2>2. D[stack[j]] <= D[v]
    <3>1. CASE j = k
      BY <3>1, <2>1, <1>4
    <3>2. CASE j < k
      <4>1. D[v] < D[stack[j]] => D[v] < D[stack[k]]
        BY <2>1, <3>2, <1>2, <1>4 DEF IInv, Layered
      <4> QED BY <4>1, <2>1, <1>4, <1>5
    <3> QED BY <3>1, <3>2, <1>4
  <2>3. D[stack[j]] # D[v]
    BY <2>1, <1>4, <1>5 DEF IInv, Numbered, Open
  <2> QED BY <2>1, <2>2, <2>3, <1>4, <1>5
<1>7. \A j \in 1..M : j \in 1..k \/ j \in (k+1)..M
  BY <1>4
<1>8. \A j \in (k+1)..M : j \in 1..M
  BY <1>4
<1>9. P = {stack[j] : j \in (k+1)..M}
  BY <1>4 DEF popped
<1>10. OnStack = {stack[j] : j \in 1..M}
  BY <1>4 DEF OnStack
<1>11. P = {w \in OnStack : D[v] < D[w]}
  <2>1. ASSUME NEW w \in P PROVE w \in OnStack /\ D[v] < D[w]
    <3>1. PICK j \in (k+1)..M : w = stack[j]
      BY <1>9
    <3> QED BY <3>1, <1>4, <1>5, <1>8
  <2>2. ASSUME NEW w \in OnStack, D[v] < D[w] PROVE w \in P
    <3>1. PICK j \in 1..M : w = stack[j]
      BY <1>10
    <3>2. j \notin 1..k
      BY <3>1, <2>2, <1>4, <1>5, <1>6
    <3> QED BY <3>1, <3>2, <1>7, <1>9
  <2> QED BY <2>1, <2>2
<1>12. stack' = SubSeq(stack, 1, k)
  BY <1>2, <1>4 DEF LeaveRoot
<1>13. Len(stack') = k /\ \A j \in 1..k : stack'[j] = stack[j]
  BY <1>4, <1>12, Prefix DEF IInv, Types
<1>14. OnStack' = {stack[j] : j \in 1..k}
  BY <1>13 DEF OnStack
<1>15. OnStack' = {w \in OnStack : D[w] < D[v]}
  <2>1. ASSUME NEW w \in OnStack' PROVE w \in OnStack /\ D[w] < D[v]
    <3>1. PICK j \in 1..k : w = stack[j]
      BY <1>14
    <3>2. j \in 1..M
      BY <1>4
    <3> QED BY <3>1, <3>2, <1>4, <1>6
  <2>2. ASSUME NEW w \in OnStack, D[w] < D[v] PROVE w \in OnStack'
    <3>1. PICK j \in 1..M : w = stack[j]
      BY <1>10
    <3>2. j \notin (k+1)..M
      BY <3>1, <2>2, <1>4, <1>5
    <3> QED BY <3>1, <3>2, <1>7, <1>14
  <2> QED BY <2>1, <2>2
<1>16. P \in SUBSET Node
  BY <1>4, <1>8, <1>9
<1>17. /\ inSCC' = inSCC \union {v} \union P
       /\ rep' = [n \in Node |-> IF n \in P THEN v ELSE rep[n]]
       /\ sub' = [n \in Node |-> IF n = v THEN sub[v] \union P
                                 ELSE IF n \in P THEN {} ELSE sub[n]]
       /\ topo' = Append(topo, v)
       /\ UNCHANGED <<edges, todo, I, D>>
  BY <1>2 DEF LeaveRoot, setRep
<1> HIDE DEF P
<1> QED
  BY <1>1, <1>2, <1>3, <1>4, <1>11, <1>12, <1>15, <1>16, <1>17

(* The root, what lies above it on _SS, and the closed components have no    *)
(* edge to the rest; the first two make up the component of the root.        *)
LEMMA WholeComponent ==
    ASSUME IInv, NEW L \in Nat, L = Len(frames), L \in 1..L,
           NEW v \in Node, v = FN(L), rep[v] = v,
           frames[L].child = NoNode, frames[L].kids = {},
           NEW P \in SUBSET Node, P = {w \in OnStack : D[v] < D[w]}
    PROVE  /\ \A u \in inSCC \union {v} \union P : succs(u) \subseteq inSCC \union {v} \union P
           /\ C!Component(edges, v) = {v} \union P
<1> DEFINE S == inSCC \union {v} \union P
<1>1. /\ v \in OnFrames /\ v \notin inSCC /\ D[v] \in Nat
  BY ActiveOpen DEF Open
<1>2. edges \in SUBSET (Node \X Node) /\ S \in SUBSET Node /\ \A n \in Node : D[n] \in Nat
  BY DEF IInv, Types
<1>3. ASSUME NEW u \in {v} \union P, NEW x \in succs(u) PROVE x \in S
  <2>1. u \in Node /\ x \in Node /\ x # NoNode
    BY SuccsEdges, NodeAssumption, <1>2
  <2>2. Under(L, u)
    BY DEF Under
  <2>3. ~due(L, u, x)
    BY <2>1 DEF due
  <2>4. visited(x)
    <3>1. CASE u \in OnStack
      BY <3>1, <2>1 DEF IInv, Explored
    <3>2. CASE u = v
      BY <3>2, <2>1 DEF IInv, Explored
    <3> QED BY <3>1, <3>2
  <2>5. CASE x \in inSCC
    BY <2>5
  <2>6. CASE x \notin inSCC
    <3>1. Open(x)
      BY <2>4, <2>6 DEF Open
    <3>2. Knows(L, D[x])
      BY <2>1, <2>2, <2>3, <3>1 DEF IInv, LowLink
    <3>3. D[v] <= D[x]
      BY <3>2 DEF Knows
    <3>4. CASE x \in OnFrames
      <4>1. PICK j \in 1..L : x = FN(j)
        BY <3>4 DEF OnFrames
      <4>2. ASSUME j < L PROVE FALSE
        <5>1. D[FN(j)] < D[FN(L)]
          BY <4>2 DEF IInv, Path
        <5>2. D[x] < D[v]
          BY <4>1, <5>1
        <5> QED BY <5>2, <3>3, <2>1, <1>2
      <4>3. j = L
        BY <4>2
      <4>4. x = FN(L)
        BY <4>1, <4>3
      <4> QED BY <4>4
    <3>5. CASE x \in OnStack
      <4>1. x # v
        BY <3>5, <1>1 DEF IInv, Placed
      <4>2. D[x] # D[v]
        BY <4>1, <2>1, <2>4 DEF IInv, Numbered
      <4> QED BY <4>2, <3>3, <3>5, <1>2, <2>1
    <3> QED BY <3>4, <3>5, <2>1, <2>4, <2>6 DEF IInv, Placed
  <2> QED BY <2>5, <2>6
<1>4. \A u \in S : succs(u) \subseteq S
  BY <1>3 DEF IInv, Explored
<1>5. ASSUME NEW w \in P PROVE Reach(v, w) /\ Reach(w, v)
  <2>1. w \in OnStack /\ D[v] < D[w] /\ w \in Node
    OBVIOUS
  <2>2. D[FN(L)] <= D[w]
    BY <2>1, <1>1, <1>2
  <2>3. Reach(FN(L), w)
    BY <2>1, <2>2 DEF IInv, Down
  <2>4. PICK i \in 1..L : Reach(w, FN(i))
    BY <2>1 DEF IInv, Up
  <2>5. D[FN(i)] <= D[v]
    <3>1. CASE i < L
      <4>1. D[FN(i)] < D[FN(L)]
        BY <3>1 DEF IInv, Path
      <4>2. D[FN(i)] \in Nat
        BY ActiveOpen
      <4> QED BY <4>1, <4>2, <1>1
    <3>2. CASE i = L
      <4>1. FN(i) = FN(L)
        BY <3>2
      <4> QED BY <4>1, <1>1
    <3> QED BY <3>1, <3>2
  <2>6. Reach(FN(i), v)
    BY <2>5 DEF IInv, Down
  <2> QED BY <2>3, <2>4, <2>6, ReachTrans
<1>6. ASSUME NEW m \in Node, Reach(v, m), Reach(m, v) PROVE m \in {v} \union P
  <2>1. m \in S
    BY <1>2, <1>4, <1>6, ReachClosed
  <2>2. m \notin inSCC
    <3>1. ASSUME m \in inSCC PROVE v \in inSCC
      <4>1. inSCC \in SUBSET Node /\ \A u \in inSCC : succs(u) \subseteq inSCC
        BY DEF IInv, Types, Explored
      <4> QED BY <3>1, <4>1, <1>2, <1>6, ReachClosed
    <3> QED BY <3>1, <1>1
  <2> QED BY <2>1, <2>2
<1>7. Reach(v, v)
  BY ReachRefl
<1>8. C!Component(edges, v) = {m \in Node : Reach(v, m) /\ Reach(m, v)}
  BY DEF C!Component, Reach
<1>9. C!Component(edges, v) = {v} \union P
  BY <1>5, <1>6, <1>7, <1>8
<1> QED
  BY <1>4, <1>9

LEMMA LeaveRootKeeps ==
    ASSUME IInv, LeaveRoot
    PROVE  IInv'
<1>1. PICK v \in Node, L \in Nat, P \in SUBSET Node :
        /\ L = Len(frames) /\ frames # <<>> /\ v = FN(L) /\ v = top.node
        /\ frames' = Front(frames)
        /\ frames[L].child = NoNode /\ frames[L].kids = {} /\ rep[v] = v
        /\ P = {w \in OnStack : D[v] < D[w]}
        /\ OnStack' = {w \in OnStack : D[w] < D[v]}
        /\ stack' = SubSeq(stack, 1, kept(v))
        /\ inSCC' = inSCC \union {v} \union P
        /\ rep' = [n \in Node |-> IF n \in P THEN v ELSE rep[n]]
        /\ topo' = Append(topo, v)
        /\ UNCHANGED <<edges, todo, I, D>>
  BY LeaveRootFacts
<1>2. /\ L \in 1..L /\ L - 1 \in Nat
      /\ frames' \in Seq(Frame) /\ Len(frames') = L - 1
      /\ \A i \in 1..L-1 : /\ i \in 1..L /\ frames'[i] = frames[i] /\ FN(i)' = FN(i)
                           /\ D[FN(i)] < D[FN(L)] /\ FN(i) # FN(L)
      /\ \A i \in 1..L : i = L \/ i \in 1..L-1
      /\ OnFrames' = OnFrames \ {FN(L)}
  BY <1>1, FrameLeft
<1>3. \A u \in inSCC' : succs(u) \subseteq inSCC'
  <2>1. \A u \in inSCC \union {v} \union P : succs(u) \subseteq inSCC \union {v} \union P
    BY <1>1, <1>2, WholeComponent
  <2> QED BY <2>1, <1>1
<1>4. /\ v \in OnFrames /\ v \notin OnStack /\ v \notin inSCC /\ visited(v) /\ D[v] \in Nat
      /\ OnStack \subseteq Node /\ \A n \in Node : D[n] \in Nat
  <2>1. FN(L) \in OnFrames /\ Open(FN(L)) /\ D[FN(L)] \in Nat
    BY <1>1, <1>2, ActiveOpen
  <2>2. OnStack \subseteq Node
    BY ElementOfSeq DEF OnStack, IInv, Types
  <2> QED BY <2>1, <2>2, <1>1 DEF Open, IInv, Placed, Types
<1>5. \A n \in OnStack : n \in P \/ n \in OnStack'
  BY <1>1, <1>4 DEF IInv, Numbered, Placed
<1>6. \A n, m : /\ succs(n)' = succs(n)
                /\ Reach(n, m)' <=> Reach(n, m)
                /\ visited(n)' <=> visited(n)
  BY <1>1, ReachSame DEF visited, succs
<1>7. \A n \in Node : Open(n)' <=> Open(n) /\ n # v /\ n \notin P
  BY <1>1, <1>6 DEF Open
<1>8. \A i \in 1..L : FN(i) \in Node /\ D[FN(i)] \in Nat /\ FN(i) \in OnFrames
  BY <1>1, ActiveOpen
<1>9. \A n \in P : n \in OnStack /\ D[v] < D[n] /\ n \notin OnFrames
  BY <1>1 DEF IInv, Placed
<1>10. \A n \in OnStack' : n \in OnStack /\ D[n] < D[v] /\ n # v /\ n \notin P
  BY <1>1, <1>4
<1>11. PICK k \in 0..Len(stack) : k = kept(v)
  BY KeptExists
<1>12. /\ stack' \in Seq(Node) /\ Len(stack') = k /\ \A j \in 1..k : stack'[j] = stack[j]
       /\ \A j \in 1..k : j \in 1..Len(stack)
  <2>1. Len(stack) \in Nat
    BY LenProperties DEF IInv, Types
  <2> QED BY <2>1, <1>1, <1>11, Prefix DEF IInv, Types
<1>t. Types'
  BY <1>1, <1>2, <1>12 DEF IInv, Types
<1>n. Numbered'
  BY <1>1, <1>6 DEF IInv, Numbered
<1>p. Placed'
  <2>1. \A n \in Node : visited(n) <=> n \in inSCC' \/ n \in OnFrames' \/ n \in OnStack'
    BY <1>1, <1>2, <1>4, <1>5, <1>9, <1>10 DEF IInv, Placed
  <2>2. \A n \in inSCC' : n \notin OnFrames' /\ n \notin OnStack'
    BY <1>1, <1>2, <1>4, <1>9, <1>10 DEF IInv, Placed
  <2>3. \A n \in OnStack' : n \notin OnFrames'
    BY <1>2, <1>10 DEF IInv, Placed
  <2> QED BY <2>1, <2>2, <2>3, <1>6 DEF Placed
<1>h. Path'
  <2>1. \A i, j \in 1..L-1 : i < j => D[FN(i)'] < D[FN(j)']
    BY <1>1, <1>2 DEF IInv, Path
  <2>2. ASSUME NEW i \in 1..L-1, i < L-1 PROVE frames'[i].child = FN(i+1)'
    <3>1. i + 1 \in 1..L-1 /\ i < L
      BY <2>2, <1>2
    <3> QED BY <3>1, <1>1, <1>2 DEF IInv, Path
  <2>3. \A i \in 1..L-1 :
            /\ frames'[i].child # NoNode => frames'[i].child \in succs(FN(i)')
            /\ frames'[i].kids \subseteq succs(FN(i)')
    BY <1>1, <1>2 DEF IInv, Path
  <2>4. D' = D /\ Len(frames') = L-1
    BY <1>1, <1>2
  <2>5. \A n : succs(n)' = succs(n)
    BY <1>6
  <2> QED BY <2>1, <2>2, <2>3, <2>4, <2>5 DEF Path
<1>e. Explored'
  <2>1. \A n \in Node : n \in inSCC' \/ n \in OnStack' => \A x \in succs(n) : visited(x)
    <3>1. \A x \in inSCC' : x \in Node /\ visited(x)
      BY <1>1, <1>4, <1>9 DEF IInv, Placed, Types
    <3> QED BY <3>1, <1>3, <1>10 DEF IInv, Explored
  <2>2. \A i \in 1..L-1 : \A x \in succs(FN(i)) :
            x \in frames'[i].kids \/ x = frames'[i].child \/ visited(x)
    BY <1>1, <1>2 DEF IInv, Explored
  <2> QED BY <2>1, <2>2, <1>2, <1>3, <1>6 DEF Explored
<1>r. RepRight'
  <2> SUFFICES ASSUME NEW n \in Node, Open(n)', NEW r, r = rep'[n]
               PROVE  r \in Node /\ Open(r)' /\ D'[r] <= D'[n] /\ Reach(n, r)
    BY <1>6 DEF RepRight
  <2>1. Open(n) /\ n # v /\ n \notin P /\ r = rep[n]
    BY <1>1, <1>7
  <2>2. r \in Node /\ Open(r) /\ D[r] <= D[n] /\ Reach(n, r)
    BY <2>1 DEF IInv, RepRight
  <2>3. D[n] < D[v]
    <3>1. CASE n \in OnStack
      BY <3>1, <2>1, <1>5, <1>10
    <3>2. CASE n \in OnFrames
      <4>1. PICK j \in 1..L : n = FN(j)
        BY <3>2, <1>1 DEF OnFrames
      <4>2. ASSUME j = L PROVE FALSE
        <5>1. FN(j) = FN(L)
          BY <4>2
        <5> QED BY <5>1, <4>1, <2>1, <1>1
      <4> QED BY <4>1, <4>2, <1>1, <1>2
    <3> QED BY <3>1, <3>2, <2>1 DEF Open, IInv, Placed
  <2>4. r # v /\ r \notin P
    BY <2>2, <2>3, <1>4, <1>9
  <2> QED BY <2>2, <2>4, <1>1, <1>7
<1>d. Down'
  BY <1>1, <1>2, <1>6 DEF IInv, Down
<1>u. Up'
  <2> SUFFICES ASSUME NEW n \in OnStack'
               PROVE  \E i \in 1..L-1 : D[FN(i)] < D[n] /\ Reach(n, FN(i))
    <3>1. Len(frames') = L-1 /\ D' = D /\ \A i \in 1..L-1 : FN(i)' = FN(i)
      BY <1>1, <1>2
    <3>2. \A n \in OnStack' : \E i \in 1..L-1 : (D[FN(i)] < D[n] /\ Reach(n, FN(i)))'
      BY <3>1, <1>6
    <3> QED BY <3>1, <3>2 DEF Up
  <2>1. n \in OnStack /\ D[n] < D[v] /\ n \in Node
    BY <1>4, <1>10
  <2>2. PICK i \in 1..L : D[FN(i)] < D[n] /\ Reach(n, FN(i))
    BY <2>1, <1>1 DEF IInv, Up
  <2>3. ASSUME i = L PROVE FALSE
    <3>1. FN(i) = FN(L)
      BY <2>3
    <3> QED BY <3>1, <2>1, <2>2, <1>1, <1>4
  <2>4. i \in 1..L-1
    BY <2>3, <1>2
  <2> QED BY <2>2, <2>4
<1>w. LowLink'
  <2> SUFFICES ASSUME NEW i \in 1..L-1, NEW n \in Node, NEW x \in Node, Under(i, n)',
                      x \in succs(n), ~due(i, n, x)', Open(x)'
               PROVE  Knows(i, D[x])'
    BY <1>2, <1>6 DEF LowLink
  <2>1. ~due(i, n, x) /\ Open(x)
    BY <1>2, <1>7 DEF due
  <2>2. /\ i # L /\ i \in 1..L /\ (i < L-1 => i+1 \in 1..L-1) /\ (i < L-1 \/ i + 1 = L)
        /\ i < Len(frames)
    BY <1>1, <1>2
  <2>3. Under(i, n)
    <3>1. CASE n = FN(i)'
      BY <3>1, <1>2 DEF Under
    <3>2. CASE n # FN(i)'
      <4>1. n \in OnStack' /\ D[FN(i)] < D[n] /\ (i < L-1 => D[n] < D[FN(i+1)'])
        BY <3>2, <1>1, <1>2 DEF Under
      <4>2. i < L-1 => FN(i+1)' = FN(i+1)
        BY <2>2, <1>2
      <4>3. i + 1 = L => FN(i+1) = v
        BY <1>1
      <4>4. D[n] < D[FN(i+1)]
        BY <4>1, <4>2, <4>3, <2>2, <1>10
      <4> QED BY <4>1, <4>4, <1>10 DEF Under
    <3> QED BY <3>1, <3>2
  <2>4. Knows(i, D[x])
    BY <2>1, <2>2, <2>3, <1>1 DEF IInv, LowLink
  <2>5. D[rep[FN(i)]] <= D[x]
    BY <2>2, <2>4, <1>1 DEF Knows
  <2>6. rep'[FN(i)] = rep[FN(i)]
    BY <2>2, <1>1, <1>8, <1>9
  <2> QED BY <2>5, <2>6, <1>1, <1>2 DEF Knows
<1>l. Layered'
  <2> SUFFICES ASSUME NEW i \in 1..k, NEW j \in 1..k, NEW q \in 1..L-1,
                      i < j, D[FN(q)] < D[stack[i]]
               PROVE  D[FN(q)] < D[stack[j]]
    <3>1. Len(frames') = L-1 /\ D' = D /\ \A i \in 1..L-1 : FN(i)' = FN(i)
      BY <1>1, <1>2
    <3> QED BY <3>1, <1>12 DEF Layered
  <2> QED BY <1>1, <1>2, <1>12 DEF IInv, Layered
<1> QED
  BY <1>t, <1>n, <1>p, <1>h, <1>e, <1>r, <1>d, <1>u, <1>w, <1>l DEF IInv

-----------------------------------------------------------------------------
(* The invariant.                                                           *)

(* Nothing visited: the state find starts from. *)
Fresh ==
    /\ edges \in SUBSET (Node \X Node) /\ todo \in SUBSET Node
    /\ frames = <<>> /\ stack = <<>> /\ I = 0
    /\ D = [n \in Node |-> 0] /\ rep = [n \in Node |-> NoNode] /\ inSCC = {}

LEMMA InitFresh == Init => Fresh
BY NodeAssumption DEF Init, Fresh

LEMMA FindFresh ==
    ASSUME IInv, NEW S \in SUBSET Node, Find(S)
    PROVE  Fresh'
<1>1. edges' \in SUBSET (Node \X Node)
  <2>1. edges' \subseteq edges \union Pairs
    BY DEF Find
  <2> QED BY <2>1, NodeAssumption DEF IInv, Types
<1> QED
  BY <1>1 DEF Find, clear, idle, Fresh

LEMMA FreshInv == Fresh => IInv
<1> SUFFICES ASSUME Fresh PROVE IInv
  OBVIOUS
<1>1. Len(frames) = 0 /\ Len(stack) = 0 /\ frames \in Seq(Frame) /\ stack \in Seq(Node)
  BY EmptySeq DEF Fresh
<1>2. (\A i : i \notin 1..Len(frames)) /\ (\A i : i \notin 1..Len(stack))
  BY <1>1
<1>3. OnFrames = {} /\ OnStack = {} /\ inSCC = {}
  BY <1>2 DEF OnFrames, OnStack, Fresh
<1>4. \A n \in Node : ~visited(n) /\ D[n] = 0
  BY DEF visited, Fresh
<1>5. Types
  BY <1>1 DEF Types, Fresh
<1>6. Numbered /\ Placed
  BY <1>3, <1>4 DEF Numbered, Placed, Fresh
<1>7. Path /\ Explored /\ Down /\ Up /\ LowLink /\ Layered
  BY <1>2, <1>3 DEF Path, Explored, Down, Up, LowLink, Layered
<1>8. RepRight
  BY <1>4 DEF RepRight, Open
<1> QED
  BY <1>5, <1>6, <1>7, <1>8 DEF IInv

LEMMA VisitCandidateKeeps ==
    ASSUME IInv, NEW n \in Node, VisitCandidate(n)
    PROVE  IInv'
<1>1. todo' \in SUBSET Node /\ frames = <<>> /\ ~visited(n) /\ visit(n)
  BY DEF VisitCandidate, IInv, Types
<1> QED
  BY <1>1, VisitKeeps

LEMMA VisitSuccKeeps ==
    ASSUME IInv, VisitSucc
    PROVE  IInv'
<1>1. PICK v : v = top.child
  OBVIOUS
<1>2. v \in Node /\ ~visited(v) /\ visit(v) /\ todo' \in SUBSET Node
  BY <1>1, TopNode DEF VisitSucc, IInv, Types, Frame
<1> QED
  BY <1>1, <1>2, VisitKeeps

LEMMA SameKeeps ==
    ASSUME IInv, UNCHANGED <<edges, frames, I, D, rep, inSCC, stack>>, todo' \in SUBSET Node
    PROVE  IInv'
<1>1. Types' /\ Numbered' /\ OnFrames' = OnFrames /\ OnStack' = OnStack
  BY DEF IInv, Types, Numbered, OnFrames, OnStack, FN, visited
<1>2. \A n, m : /\ succs(n)' = succs(n)
                /\ Reach(n, m)' <=> Reach(n, m)
                /\ visited(n)' <=> visited(n)
                /\ Open(n)' <=> Open(n)
                /\ FN(n)' = FN(n)
  BY ReachSame DEF visited, Open, succs, FN
<1>3. Placed' /\ Explored'
  BY <1>1, <1>2 DEF IInv, Placed, Explored
<1>6. Path'
  BY <1>2 DEF IInv, Path
<1>4. RepRight' /\ Down' /\ Up' /\ Layered'
  BY <1>1, <1>2 DEF IInv, RepRight, Down, Up, Layered
<1>5. LowLink'
  BY <1>1, <1>2 DEF IInv, LowLink, Under, due, Knows
<1> QED
  BY <1>1, <1>3, <1>4, <1>5, <1>6 DEF IInv

LEMMA StepKeeps == IInv /\ [Next]_vars => IInv'
<1> SUFFICES ASSUME IInv, [Next]_vars PROVE IInv'
  OBVIOUS
<1>1. ASSUME NEW S \in SUBSET Node, Find(S) PROVE IInv'
  <2>1. Fresh'
    BY <1>1, FindFresh
  <2> QED BY <2>1, FreshInv, PTL
<1>2. ASSUME NEW n \in Node, VisitCandidate(n) PROVE IInv'
  BY <1>2, VisitCandidateKeeps
<1>3. ASSUME NEW n \in Node, SkipCandidate(n) PROVE IInv'
  <2>1. todo' \in SUBSET Node
    BY <1>3 DEF SkipCandidate, IInv, Types
  <2> QED BY <1>3, <2>1, SameKeeps DEF SkipCandidate, aux
<1>4. ASSUME NEW n \in Node, NextSucc(n) PROVE IInv'
  BY <1>4, NextSuccKeeps
<1>5. CASE VisitSucc
  BY <1>5, VisitSuccKeeps
<1>6. CASE CompareRep
  BY <1>6, CompareRepKeeps
<1>7. CASE LeaveRoot
  BY <1>7, LeaveRootKeeps
<1>8. CASE LeaveInner
  BY <1>8, LeaveInnerKeeps
<1>9. CASE UNCHANGED vars
  <2>1. todo' \in SUBSET Node
    BY <1>9 DEF vars, IInv, Types
  <2> QED BY <1>9, <2>1, SameKeeps DEF vars, aux
<1> QED
  BY <1>1, <1>2, <1>3, <1>4, <1>5, <1>6, <1>7, <1>8, <1>9 DEF Next, Search

(* The invariant holds throughout: visit numbers, the places of the nodes,   *)
(* the path of active calls, the low-link property of SCC.h's rep.           *)
THEOREM Invariance == Spec => []IInv
<1>1. Init => IInv
  BY InitFresh, FreshInv
<1> QED
  BY <1>1, StepKeeps, PTL DEF Spec

-----------------------------------------------------------------------------
(* Nothing waits when find returns.                                         *)

(* When find returns every visited node is in a closed component and every   *)
(* successor of it was visited: no node is left on _SS.                      *)
THEOREM AllClosed == Spec => []NothingPending
<1>1. IInv => NothingPending
  <2> SUFFICES ASSUME IInv, idle PROVE NothingPending
    BY DEF NothingPending
  <2>1. Len(frames) = 0
    BY EmptySeq DEF idle
  <2>2. \A i : i \notin 1..Len(frames)
    BY <2>1
  <2>3. OnFrames = {} /\ OnStack = {}
    BY <2>2 DEF OnFrames, IInv, Up
  <2>4. stack = <<>>
    <3>1. stack \in Seq(Node) /\ Len(stack) \in Nat
      BY LenProperties DEF IInv, Types
    <3>2. \A i \in 1..Len(stack) : FALSE
      BY <2>3 DEF OnStack
    <3>3. Len(stack) = 0
      BY <3>1, <3>2
    <3> QED BY <3>1, <3>3, EmptySeq
  <2>5. inSCC = Visited
    BY <2>3 DEF IInv, Types, Placed, Visited
  <2>6. \A n \in Visited : succs(n) \subseteq Visited
    BY <2>5 DEF IInv, Explored
  <2> QED BY <2>4, <2>5, <2>6 DEF NothingPending
<1> QED
  BY <1>1, Invariance, PTL

-----------------------------------------------------------------------------
(* The refinement.                                                          *)

closedRep == [n \in Node |-> IF n \in inSCC THEN rep[n] ELSE NoNode]

LEMMA RepKept ==
    ASSUME IInv, [Search]_vars
    PROVE  \A n \in inSCC : n \in inSCC' /\ rep'[n] = rep[n]
<1> SUFFICES ASSUME NEW n \in inSCC PROVE n \in inSCC' /\ rep'[n] = rep[n]
  OBVIOUS
<1>1. n \in Node /\ visited(n) /\ n \notin OnFrames /\ n \notin OnStack
  BY DEF IInv, Types, Placed
<1>2. ASSUME NEW v \in Node, ~visited(v), visit(v) PROVE n \in inSCC' /\ rep'[n] = rep[n]
  BY <1>1, <1>2 DEF visit, setRep
<1>3. ASSUME NEW v \in Node, VisitCandidate(v) PROVE n \in inSCC' /\ rep'[n] = rep[n]
  BY <1>2, <1>3 DEF VisitCandidate
<1>4. ASSUME NEW v \in Node, SkipCandidate(v) \/ NextSucc(v) PROVE n \in inSCC' /\ rep'[n] = rep[n]
  BY <1>4 DEF SkipCandidate, NextSucc, aux
<1>5. CASE VisitSucc
  <2>1. top.child \in Node
    BY <1>5, TopNode DEF VisitSucc, IInv, Frame
  <2> QED BY <1>2, <1>5, <2>1 DEF VisitSucc
<1>6. CASE CompareRep
  <2>1. top.node = FN(Len(frames)) /\ Len(frames) \in 1..Len(frames)
    BY <1>6, TopNode DEF CompareRep, IInv
  <2>2. top.node \in OnFrames
    BY <2>1 DEF OnFrames
  <2>3. n # top.node
    BY <2>2, <1>1
  <2> QED BY <1>1, <1>6, <2>3 DEF CompareRep, setRep, aux
<1>7. CASE LeaveRoot
  <2>1. PICK v \in Node, P \in SUBSET Node :
            /\ P = {w \in OnStack : D[v] < D[w]}
            /\ inSCC' = inSCC \union {v} \union P
            /\ rep' = [m \in Node |-> IF m \in P THEN v ELSE rep[m]]
    BY <1>7, LeaveRootFacts
  <2>2. n \notin P
    BY <2>1, <1>1
  <2> QED BY <1>1, <2>1, <2>2
<1>8. CASE LeaveInner
  BY <1>8 DEF LeaveInner, aux
<1>9. CASE UNCHANGED vars
  BY <1>9 DEF vars, aux
<1> QED
  BY <1>3, <1>4, <1>5, <1>6, <1>7, <1>8, <1>9 DEF Search

(* Once find has begun to return components, what it returned stays.         *)
THEOREM RepsFinal == Spec => RepFinal
<1>1. IInv /\ [Next]_vars => [\A n \in inSCC : ~idle => n \in inSCC' /\ rep'[n] = rep[n]]_vars
  <2> SUFFICES ASSUME IInv, [Next]_vars, NEW n \in inSCC, ~idle
               PROVE  n \in inSCC' /\ rep'[n] = rep[n]
    OBVIOUS
  <2>1. [Search]_vars
    BY DEF Next, Find
  <2> QED BY <2>1, RepKept
<1> QED
  BY <1>1, Invariance, PTL DEF Spec, RepFinal

Represented == \A n \in inSCC : rep[n] \in Node

(* What a step of the search other than the leaving of a root leaves alone. *)
LEMMA NothingEmitted ==
    ASSUME [Search]_vars, ~LeaveRoot
    PROVE  UNCHANGED <<edges, inSCC, topo>>
<1>1. ASSUME NEW n \in Node, VisitCandidate(n) \/ SkipCandidate(n) \/ NextSucc(n)
      PROVE  UNCHANGED <<edges, inSCC, topo>>
  BY <1>1 DEF VisitCandidate, SkipCandidate, NextSucc, visit
<1>2. CASE VisitSucc
  BY <1>2 DEF VisitSucc, visit
<1>3. CASE CompareRep
  BY <1>3 DEF CompareRep
<1>4. CASE LeaveInner
  BY <1>4 DEF LeaveInner
<1>5. CASE UNCHANGED vars
  BY <1>5 DEF vars
<1> QED
  BY <1>1, <1>2, <1>3, <1>4, <1>5 DEF Search

LEMMA RepresentedKept ==
    ASSUME IInv, Represented, [Next]_vars
    PROVE  Represented'
<1>1. ASSUME NEW S \in SUBSET Node, Find(S) PROVE Represented'
  BY <1>1 DEF Find, clear, Represented
<1>2. CASE [Search]_vars
  <2>1. CASE LeaveRoot
    <3>1. PICK v \in Node, P \in SUBSET Node :
              /\ rep[v] = v
              /\ inSCC' = inSCC \union {v} \union P
              /\ rep' = [m \in Node |-> IF m \in P THEN v ELSE rep[m]]
      BY <2>1, LeaveRootFacts
    <3> QED BY <3>1 DEF Represented, IInv, Types
  <2>2. CASE ~LeaveRoot
    <3>1. inSCC' = inSCC
      BY <1>2, <2>2, NothingEmitted
    <3> QED BY <3>1, <1>2, RepKept DEF Represented
  <2> QED BY <2>1, <2>2
<1> QED
  BY <1>1, <1>2 DEF Next

(* Leaving a root hands out the component of the root. *)
LEMMA LeaveRootEmits ==
    ASSUME IInv, Represented, LeaveRoot
    PROVE  \E r \in Node :
              /\ \A n \in C!Component(edges, r) : n \in Node /\ closedRep[n] = NoNode
              /\ \A e \in edges : e[1] \in C!Component(edges, r) =>
                    e[2] \in C!Component(edges, r) \/ closedRep[e[2]] # NoNode
              /\ closedRep' = [n \in Node |-> IF n \in C!Component(edges, r) THEN r ELSE closedRep[n]]
              /\ topo' = Append(topo, r)
              /\ edges' = edges
<1>1. PICK v \in Node, L \in Nat, P \in SUBSET Node :
        /\ L = Len(frames) /\ frames # <<>> /\ v = FN(L)
        /\ frames' = Front(frames)
        /\ frames[L].child = NoNode /\ frames[L].kids = {} /\ rep[v] = v
        /\ P = {w \in OnStack : D[v] < D[w]}
        /\ inSCC' = inSCC \union {v} \union P
        /\ rep' = [n \in Node |-> IF n \in P THEN v ELSE rep[n]]
        /\ topo' = Append(topo, v)
        /\ edges' = edges
  BY LeaveRootFacts
<1>2. L \in 1..L
  BY <1>1, FrameLeft
<1>3. PICK S : S = {v} \union P
  OBVIOUS
<1>4. C!Component(edges, v) = S /\ \A u \in S : succs(u) \subseteq inSCC \union S
  <2>1. /\ L = Len(frames) /\ L \in 1..L /\ v = FN(L) /\ rep[v] = v
        /\ frames[L].child = NoNode /\ frames[L].kids = {}
        /\ P = {w \in OnStack : D[v] < D[w]}
    BY <1>1, <1>2
  <2>2. /\ \A u \in inSCC \union {v} \union P : succs(u) \subseteq inSCC \union {v} \union P
        /\ C!Component(edges, v) = {v} \union P
    BY <2>1, WholeComponent
  <2> QED BY <2>2, <1>3
<1>5. v \in OnFrames
  BY <1>1, <1>2 DEF OnFrames
<1>6. \A n \in S : n \in Node /\ n \notin inSCC
  BY <1>1, <1>3, <1>5 DEF IInv, Placed
<1>7. \A n \in S : n \in Node /\ closedRep[n] = NoNode
  BY <1>6 DEF closedRep
<1>8. ASSUME NEW e \in edges, e[1] \in S PROVE e[2] \in S \/ closedRep[e[2]] # NoNode
  <2>1. e[2] \in succs(e[1]) /\ e[2] \in Node
    BY <1>8 DEF succs, IInv, Types
  <2>2. CASE e[2] \in inSCC
    <3>1. closedRep[e[2]] \in Node
      BY <2>1, <2>2 DEF closedRep, Represented
    <3> QED BY <3>1, NodeAssumption
  <2> QED BY <1>4, <1>8, <2>1, <2>2
<1>9. closedRep' = [n \in Node |-> IF n \in S THEN v ELSE closedRep[n]]
  <2>1. closedRep' = [n \in Node |-> IF n \in inSCC' THEN rep'[n] ELSE NoNode]
    BY DEF closedRep
  <2>2. \A n \in Node : (IF n \in inSCC' THEN rep'[n] ELSE NoNode)
                         = IF n \in S THEN v ELSE closedRep[n]
    BY <1>1, <1>3, <1>6 DEF closedRep
  <2> QED BY <2>1, <2>2
<1> QED
  BY <1>1, <1>4, <1>7, <1>8, <1>9

(* SCC.h's search implements Condensation: it hands out whole components,    *)
(* each under one of its members, never before one it has an edge to.        *)
THEOREM Implements == Spec => Refines
<1>1. Init => C!Init /\ Represented
  BY NodeAssumption DEF Init, C!Init, Represented
<1>2. ASSUME IInv, Represented, [Next]_vars PROVE [C!Next]_(C!vars)
  <2>1. ASSUME NEW S \in SUBSET Node, Find(S) PROVE C!Restart
    <3>1. Fresh'
      BY <1>2, <2>1, FindFresh
    <3>2. edges' \in SUBSET (Node \X Node) /\ inSCC' = {} /\ topo' = <<>>
      BY <3>1, <2>1 DEF Fresh, Find, clear
    <3>3. [n \in Node |-> IF n \in inSCC THEN rep[n] ELSE NoNode]' = [n \in Node |-> NoNode]
      BY <3>2
    <3> QED BY <3>2, <3>3 DEF C!Restart
  <2>2. CASE LeaveRoot
    <3>1. PICK r \in Node : C!Emit(r)
      BY <1>2, <2>2, LeaveRootEmits DEF C!Emit, closedRep
    <3> QED BY <3>1 DEF C!Next
  <2>3. CASE [Search]_vars /\ ~LeaveRoot
    <3>1. UNCHANGED <<edges, inSCC, topo>>
      BY <2>3, NothingEmitted
    <3>2. \A n \in inSCC : rep'[n] = rep[n]
      BY <1>2, <2>3, RepKept
    <3>3. [n \in Node |-> IF n \in inSCC THEN rep[n] ELSE NoNode]'
          = [n \in Node |-> IF n \in inSCC THEN rep[n] ELSE NoNode]
      BY <3>1, <3>2
    <3> QED BY <3>1, <3>3 DEF C!vars
  <2> QED BY <1>2, <2>1, <2>2, <2>3 DEF Next, C!Next
<1>3. IInv /\ Represented /\ [Next]_vars => Represented'
  BY RepresentedKept
<1>4. IInv /\ Represented /\ [Next]_vars => [C!Next]_(C!vars)
  BY <1>2
<1> QED
  BY <1>1, <1>3, <1>4, Invariance, PTL DEF Spec, Refines, C!Spec

-----------------------------------------------------------------------------
(* Sub-nodes.                                                               *)

(* An open node counts as its sub-nodes only open nodes met no earlier, whose *)
(* representative was met no later; itself while it represents itself.        *)
SubOpen ==
    \A m \in Node : Open(m) =>
        /\ \A w \in sub[m] : Open(w) /\ D[m] <= D[w] /\ D[rep[w]] <= D[m]
        /\ rep[m] = m => m \in sub[m]

SubInv ==
    /\ sub \in [Node -> SUBSET Node]
    /\ \A m \in Node : ~visited(m) => sub[m] = {}
    /\ SubOpen
    /\ SubNodesExact

LEMMA VisitSubs ==
    ASSUME IInv, SubInv, NEW v \in Node, ~visited(v), visit(v)
    PROVE  SubInv'
<1>1. /\ I \in Nat /\ D' = [D EXCEPT ![v] = I + 1] /\ D \in [Node -> Nat]
      /\ edges' = edges /\ inSCC' = inSCC
      /\ rep' = [n \in Node |-> IF n = v THEN v ELSE rep[n]]
      /\ sub' = [n \in Node |-> IF n = v THEN {v} ELSE sub[n]]
  <2>1. sub[v] = {}
    BY DEF SubInv
  <2> QED BY <2>1 DEF visit, setRep, IInv, Types
<1>2. v \notin inSCC /\ ~Open(v)
  BY DEF IInv, Placed, Open
<1>3. Open(v)' /\ \A n \in Node : n # v => (Open(n)' <=> Open(n)) /\ (visited(n)' <=> visited(n))
  BY <1>1, <1>2 DEF Open, visited
<1>4. SubOpen'
  <2> SUFFICES ASSUME NEW m \in Node, Open(m)'
               PROVE  /\ \A w \in sub'[m] : Open(w)' /\ D'[m] <= D'[w] /\ D'[rep'[w]] <= D'[m]
                      /\ rep'[m] = m => m \in sub'[m]
    BY DEF SubOpen
  <2>1. CASE m = v
    BY <2>1, <1>1, <1>3
  <2>2. CASE m # v
    <3>1. Open(m) /\ sub'[m] = sub[m] /\ rep'[m] = rep[m] /\ D'[m] = D[m]
      BY <2>2, <1>1, <1>3
    <3>2. rep[m] = m => m \in sub[m]
      BY <3>1 DEF SubInv, SubOpen
    <3>3. ASSUME NEW w \in sub[m] PROVE Open(w)' /\ D'[m] <= D'[w] /\ D'[rep'[w]] <= D'[m]
      <4>1. Open(w) /\ D[m] <= D[w] /\ D[rep[w]] <= D[m] /\ w \in Node
        BY <3>1, <3>3 DEF SubInv, SubOpen
      <4>2. w # v /\ rep[w] \in Node /\ rep[w] # v
        BY <4>1, <1>2 DEF IInv, RepRight
      <4> QED BY <4>1, <4>2, <3>1, <1>1, <1>3
    <3> QED BY <3>1, <3>2, <3>3
  <2> QED BY <2>1, <2>2
<1>5. SubNodesExact'
  <2> SUFFICES ASSUME NEW n \in inSCC
               PROVE  sub'[n] = IF rep'[n] = n THEN C!Component(edges, n) ELSE {}
    BY <1>1 DEF SubNodesExact
  <2>1. n # v /\ n \in Node
    BY <1>2 DEF IInv, Types
  <2> QED BY <2>1, <1>1 DEF SubInv, SubNodesExact
<1>6. sub' \in [Node -> SUBSET Node]
  BY <1>1 DEF SubInv
<1>7. \A m \in Node : ~visited(m)' => sub'[m] = {}
  <2>1. visited(v)'
    BY <1>3 DEF Open
  <2> QED BY <2>1, <1>1, <1>3 DEF SubInv
<1> QED
  BY <1>4, <1>5, <1>6, <1>7 DEF SubInv

LEMMA CompareRepSubs ==
    ASSUME IInv, SubInv, CompareRep
    PROVE  SubInv'
<1>1. PICK v \in Node, w \in Node :
          /\ v = top.node /\ w = top.child /\ Open(v) /\ visited(w)
          /\ rep[v] \in Node /\ Open(rep[v]) /\ D[rep[v]] <= D[v]
  <2>1. /\ top.node = FN(Len(frames)) /\ Len(frames) \in 1..Len(frames) /\ top \in Frame
        /\ visited(top.child) /\ top.child # NoNode
    BY TopNode DEF CompareRep, IInv
  <2> QED BY <2>1, ActiveOpen DEF Frame
<1>2. D' = D /\ edges' = edges /\ inSCC' = inSCC /\ D \in [Node -> Nat]
  BY DEF CompareRep, IInv, Types
<1>3. \A n : (Open(n)' <=> Open(n)) /\ (visited(n)' <=> visited(n))
  BY <1>2 DEF Open, visited
<1>4. CASE w \in inSCC
  <2>1. UNCHANGED <<rep, sub>>
    BY <1>1, <1>4 DEF CompareRep, open, aux
  <2>2. SubOpen'
    BY <2>1, <1>2, <1>3 DEF SubInv, SubOpen
  <2>3. SubNodesExact'
    BY <2>1, <1>2 DEF SubInv, SubNodesExact
  <2> QED BY <2>1, <2>2, <2>3, <1>3 DEF SubInv
<1>5. CASE w \notin inSCC
  <2>1. Open(w) /\ rep[w] \in Node /\ Open(rep[w])
    BY <1>1, <1>5 DEF Open, IInv, RepRight
  <2>2. PICK r \in Node : r = earlier(rep[v], rep[w])
    BY <2>1, <1>1 DEF earlier
  <2>3. Open(r) /\ D[r] <= D[rep[v]] /\ D[r] <= D[v]
    BY <2>1, <2>2, <1>1, <1>2 DEF earlier
  <2>4. /\ rep' = [n \in Node |-> IF n = v THEN r ELSE rep[n]]
        /\ sub' = [n \in Node |-> IF n = r THEN sub[r] \union {v}
                                  ELSE IF n = v THEN {} ELSE sub[n]]
    BY <2>2, <1>1, <1>5 DEF CompareRep, open, setRep
  <2>5. sub' \in [Node -> SUBSET Node]
    BY <2>4 DEF SubInv
  <2>6. ASSUME NEW m \in Node, ~visited(m) PROVE sub'[m] = {}
    <3>1. m # r /\ m # v
      BY <2>6, <2>3, <1>1 DEF Open
    <3> QED BY <3>1, <2>6, <2>4 DEF SubInv
  <2>7. ASSUME NEW m \in Node, Open(m)
        PROVE  /\ \A x \in sub'[m] : Open(x) /\ D[m] <= D[x] /\ D[rep'[x]] <= D[m]
               /\ rep'[m] = m => m \in sub'[m]
    <3>1. /\ \A x \in sub[m] : x \in Node /\ Open(x) /\ D[m] <= D[x] /\ D[rep[x]] <= D[m]
          /\ rep[m] = m => m \in sub[m]
      BY <2>7 DEF SubInv, SubOpen
    <3>2. D[m] \in Nat /\ D[r] \in Nat /\ D[v] \in Nat /\ D[rep[v]] \in Nat
      BY <1>1, <1>2
    <3>3. \A x \in sub[m] : D[rep'[x]] <= D[m]
      BY <3>1, <3>2, <2>3, <2>4
    <3>4. CASE m = r
      <4>1. sub'[m] = sub[m] \union {v} /\ rep'[v] = r
        BY <3>4, <2>4
      <4>2. rep'[m] = m => m \in sub'[m]
        BY <4>1, <3>1, <3>4, <2>4
      <4>3. D[rep'[v]] <= D[m] /\ D[m] <= D[v] /\ Open(v)
        BY <4>1, <3>2, <3>4, <2>3, <1>1
      <4> QED BY <4>1, <4>2, <4>3, <3>1, <3>3
    <3>5. CASE m # r
      <4>1. m = v => sub'[m] = {} /\ rep'[m] # m
        BY <3>5, <2>4
      <4>2. m # v => sub'[m] = sub[m] /\ rep'[m] = rep[m]
        BY <3>5, <2>4
      <4> QED BY <4>1, <4>2, <3>1, <3>3
    <3> QED BY <3>4, <3>5
  <2>8. SubOpen'
    BY <2>7, <1>2, <1>3 DEF SubOpen
  <2>9. SubNodesExact'
    <3> SUFFICES ASSUME NEW n \in inSCC
                 PROVE  sub'[n] = IF rep'[n] = n THEN C!Component(edges, n) ELSE {}
      BY <1>2 DEF SubNodesExact
    <3>1. n # v /\ n # r /\ n \in Node
      BY <2>3, <1>1 DEF Open, IInv, Types
    <3> QED BY <3>1, <2>4 DEF SubInv, SubNodesExact
  <2> QED BY <2>5, <2>6, <2>8, <2>9, <1>3 DEF SubInv
<1> QED
  BY <1>4, <1>5

LEMMA LeaveRootSubs ==
    ASSUME IInv, SubInv, LeaveRoot
    PROVE  SubInv'
<1>1. PICK v \in Node, L \in Nat, P \in SUBSET Node :
        /\ L = Len(frames) /\ frames # <<>> /\ v = FN(L)
        /\ frames' = Front(frames)
        /\ frames[L].child = NoNode /\ frames[L].kids = {} /\ rep[v] = v
        /\ P = {w \in OnStack : D[v] < D[w]}
        /\ inSCC' = inSCC \union {v} \union P
        /\ rep' = [n \in Node |-> IF n \in P THEN v ELSE rep[n]]
        /\ sub' = [n \in Node |-> IF n = v THEN sub[v] \union P
                                  ELSE IF n \in P THEN {} ELSE sub[n]]
        /\ edges' = edges /\ D' = D
  BY LeaveRootFacts
<1>2. L \in 1..L /\ \A i \in 1..L : i = L \/ D[FN(i)] < D[FN(L)]
  BY <1>1, FrameLeft
<1>3. PICK S : S = {v} \union P
  OBVIOUS
<1>4. C!Component(edges, v) = S /\ \A u \in inSCC \union S : succs(u) \subseteq inSCC \union S
  <2>1. /\ L = Len(frames) /\ L \in 1..L /\ v = FN(L) /\ rep[v] = v
        /\ frames[L].child = NoNode /\ frames[L].kids = {}
        /\ P = {w \in OnStack : D[v] < D[w]}
    BY <1>1, <1>2
  <2>2. /\ \A u \in inSCC \union {v} \union P : succs(u) \subseteq inSCC \union {v} \union P
        /\ C!Component(edges, v) = {v} \union P
    BY <2>1, WholeComponent
  <2> QED BY <2>2, <1>3
<1>5. Open(v) /\ v \notin OnStack /\ D \in [Node -> Nat]
  <2>1. Open(FN(L)) /\ FN(L) \in OnFrames
    BY <1>1, <1>2, ActiveOpen
  <2> QED BY <2>1, <1>1 DEF IInv, Types, Placed
<1>6. \A w \in S : w \in Node /\ w \notin inSCC /\ D[v] <= D[w]
  BY <1>1, <1>3, <1>5 DEF Open, IInv, Placed
\* Whatever is open and met no earlier than the root goes with it.
<1>7. ASSUME NEW m \in Node, Open(m), D[v] <= D[m] PROVE m \in S
  <2>1. D[m] \in Nat /\ D[v] \in Nat /\ (D[v] = D[m] => v = m)
    BY <1>5 DEF IInv, Numbered, Open
  <2>2. CASE m \in OnStack
    BY <2>1, <2>2, <1>1, <1>3, <1>7
  <2>3. CASE m \in OnFrames
    <3>1. PICK i \in 1..L : m = FN(i)
      BY <2>3, <1>1 DEF OnFrames
    <3> QED BY <3>1, <2>1, <1>1, <1>2, <1>3, <1>7
  <2> QED BY <2>2, <2>3, <1>7 DEF Open, IInv, Placed
<1>8. \A n : (visited(n)' <=> visited(n)) /\ (Open(n)' <=> Open(n) /\ n \notin S)
  BY <1>1, <1>3 DEF Open, visited
<1>9. sub[v] \union P = S
  <2>1. v \in sub[v] /\ \A w \in sub[v] : w \in Node /\ Open(w) /\ D[v] <= D[w]
    BY <1>1, <1>5 DEF SubInv, SubOpen
  <2> QED BY <2>1, <1>3, <1>7
<1>10. ASSUME NEW m \in Node, Open(m), m \notin S
       PROVE  /\ \A w \in sub'[m] : Open(w) /\ w \notin S /\ D[m] <= D[w] /\ D[rep'[w]] <= D[m]
              /\ rep'[m] = m => m \in sub'[m]
  <2>1. sub'[m] = sub[m] /\ rep'[m] = rep[m]
    BY <1>1, <1>3, <1>10
  <2>2. /\ \A w \in sub[m] : w \in Node /\ Open(w) /\ D[m] <= D[w] /\ D[rep[w]] <= D[m]
        /\ rep[m] = m => m \in sub[m]
    BY <1>10 DEF SubInv, SubOpen
  <2>3. ~(D[v] <= D[m])
    BY <1>7, <1>10
  <2>4. ASSUME NEW w \in sub[m] PROVE w \notin S
    <3>1. SUFFICES ASSUME w \in S PROVE FALSE
      OBVIOUS
    <3>2. rep[w] \in Node /\ Open(rep[w]) /\ Reach(w, rep[w])
      BY <2>2, <2>4 DEF IInv, RepRight
    <3>3. inSCC \union S \in SUBSET Node /\ edges \in SUBSET (Node \X Node) /\ w \in inSCC \union S
      BY <3>1, <1>6 DEF IInv, Types
    <3>4. rep[w] \in inSCC \union S
      BY <3>2, <3>3, <1>4, ReachClosed
    <3>5. rep[w] \in S
      BY <3>2, <3>4 DEF Open
    <3>6. D[v] <= D[rep[w]] /\ D[rep[w]] <= D[m]
      BY <3>5, <1>6, <2>2, <2>4
    <3> QED BY <3>2, <3>6, <2>3, <1>5
  <2> QED BY <2>1, <2>2, <2>4, <1>1, <1>3
<1>11. SubOpen'
  BY <1>1, <1>8, <1>10 DEF SubOpen
<1>12. SubNodesExact'
  <2>0. edges' = edges
    BY <1>1
  <2> SUFFICES ASSUME NEW n \in inSCC'
               PROVE  sub'[n] = IF rep'[n] = n THEN C!Component(edges, n) ELSE {}
    BY <2>0 DEF SubNodesExact
  <2>1. CASE n = v
    <3>1. v \notin P
      BY <1>1, <1>5
    <3> QED BY <2>1, <3>1, <1>1, <1>3, <1>4, <1>9
  <2>2. CASE n \in P
    BY <2>2, <1>1, <1>5
  <2>3. CASE n \in inSCC
    <3>1. n \notin S /\ n \in Node
      BY <2>3, <1>6 DEF IInv, Types
    <3> QED BY <2>3, <3>1, <1>1, <1>3 DEF SubInv, SubNodesExact
  <2> QED BY <2>1, <2>2, <2>3, <1>1
<1>13. sub' \in [Node -> SUBSET Node] /\ \A m \in Node : ~visited(m) => sub'[m] = {}
  <2>1. \A m \in Node : ~visited(m) => m \notin S
    BY <1>1, <1>3, <1>5 DEF Open, IInv, Placed
  <2> QED BY <2>1, <1>1, <1>3 DEF SubInv
<1> QED
  BY <1>8, <1>11, <1>12, <1>13 DEF SubInv

LEMMA SameSubs ==
    ASSUME SubInv, UNCHANGED <<edges, D, rep, sub, inSCC>>
    PROVE  SubInv'
<1>1. \A n : (Open(n)' <=> Open(n)) /\ (visited(n)' <=> visited(n))
  BY DEF Open, visited
<1>2. SubOpen'
  BY <1>1 DEF SubInv, SubOpen
<1>3. SubNodesExact'
  BY DEF SubInv, SubNodesExact
<1> QED
  BY <1>1, <1>2, <1>3 DEF SubInv

LEMMA FreshSubs ==
    ASSUME D = [n \in Node |-> 0], sub = [n \in Node |-> {}], inSCC = {}
    PROVE  SubInv
BY DEF SubInv, SubOpen, SubNodesExact, Open, visited

LEMMA SubsKept ==
    ASSUME IInv, SubInv, [Next]_vars
    PROVE  SubInv'
<1>1. ASSUME NEW S \in SUBSET Node, Find(S) PROVE SubInv'
  <2>1. (D = [n \in Node |-> 0] /\ sub = [n \in Node |-> {}] /\ inSCC = {})'
    BY <1>1 DEF Find, clear
  <2> QED BY <2>1, FreshSubs, PTL
<1>2. ASSUME NEW n \in Node, VisitCandidate(n) PROVE SubInv'
  BY <1>2, VisitSubs DEF VisitCandidate
<1>3. ASSUME NEW n \in Node, SkipCandidate(n) \/ NextSucc(n) PROVE SubInv'
  BY <1>3, SameSubs DEF SkipCandidate, NextSucc, aux
<1>4. CASE VisitSucc
  <2>1. PICK v : v = top.child
    OBVIOUS
  <2>2. v \in Node /\ ~visited(v) /\ visit(v)
    BY <1>4, <2>1, TopNode DEF VisitSucc, IInv, Frame
  <2> QED BY <2>2, VisitSubs
<1>5. CASE CompareRep
  BY <1>5, CompareRepSubs
<1>6. CASE LeaveRoot
  BY <1>6, LeaveRootSubs
<1>7. CASE LeaveInner
  BY <1>7, SameSubs DEF LeaveInner, aux
<1>8. CASE UNCHANGED vars
  BY <1>8, SameSubs DEF vars, aux
<1> QED
  BY <1>1, <1>2, <1>3, <1>4, <1>5, <1>6, <1>7, <1>8 DEF Next, Search

(* A representative's sub-nodes are its whole component, those of the others *)
(* nothing: what mergeSccCycle merges is one component, once.                *)
THEOREM SubNodesRight == Spec => []SubNodesExact
<1>1. Init => SubInv
  BY FreshSubs DEF Init
<1>2. IInv /\ SubInv /\ [Next]_vars => SubInv'
  BY SubsKept
<1>3. SubInv => SubNodesExact
  BY DEF SubInv
<1> QED
  BY <1>1, <1>2, <1>3, Invariance, PTL DEF Spec

-----------------------------------------------------------------------------
(* Type correctness.                                                        *)

Numbers == {D[n] : n \in Visited}

\* What TypeOK says beyond IInv and SubInv.
Extra ==
    /\ edges \subseteq Pairs /\ repNodes \subseteq Node /\ topo \in Seq(Node)
    /\ Numbers = 1..I

LEMMA VisitExtra ==
    ASSUME IInv, Extra, NEW v \in Node, ~visited(v), visit(v)
    PROVE  Extra'
<1>1. /\ I \in Nat /\ I' = I + 1 /\ D' = [D EXCEPT ![v] = I + 1] /\ D \in [Node -> Nat]
      /\ edges' = edges /\ topo' = topo /\ repNodes' \subseteq repNodes \union {v}
  BY DEF visit, setRep, IInv, Types
<1>2. Visited' = Visited \union {v} /\ v \notin Visited
  BY <1>1 DEF Visited, visited
<1>3. \A n \in Visited : D'[n] = D[n]
  BY <1>1, <1>2 DEF Visited
<1>4. D'[v] = I + 1
  BY <1>1
<1>5. {D'[n] : n \in Visited'} = {D[n] : n \in Visited} \union {I + 1}
  BY <1>2, <1>3, <1>4
<1>6. 1..(I + 1) = (1..I) \union {I + 1}
  BY <1>1
<1>7. Numbers' = 1..I'
  BY <1>1, <1>5, <1>6 DEF Numbers, Extra
<1> QED
  BY <1>1, <1>7 DEF Extra

LEMMA ExtraKept ==
    ASSUME IInv, Extra, [Next]_vars
    PROVE  Extra'
<1>1. ASSUME NEW S \in SUBSET Node, Find(S) PROVE Extra'
  <2>1. /\ edges' \subseteq edges \union Pairs /\ repNodes' = {} /\ topo' = <<>> /\ I' = 0
        /\ D' = [n \in Node |-> 0]
    BY <1>1 DEF Find, clear
  <2>2. Visited' = {}
    BY <2>1 DEF Visited, visited
  <2>3. Numbers' = {}
    BY <2>2 DEF Numbers
  <2>4. topo' \in Seq(Node)
    BY <2>1, EmptySeq
  <2> QED BY <2>1, <2>3, <2>4 DEF Extra
<1>2. ASSUME NEW n \in Node, VisitCandidate(n) PROVE Extra'
  BY <1>2, VisitExtra DEF VisitCandidate
<1>3. CASE VisitSucc
  <2>1. PICK v : v = top.child
    OBVIOUS
  <2>2. v \in Node /\ ~visited(v) /\ visit(v)
    BY <1>3, <2>1, TopNode DEF VisitSucc, IInv, Frame
  <2> QED BY <2>2, VisitExtra
<1>4. ASSUME UNCHANGED <<edges, I, D, topo>>, repNodes' \subseteq Node PROVE Extra'
  <2>1. Numbers' = Numbers
    BY <1>4 DEF Numbers, Visited, visited
  <2> QED BY <1>4, <2>1 DEF Extra
<1>5. ASSUME NEW n \in Node, SkipCandidate(n) \/ NextSucc(n) PROVE Extra'
  BY <1>4, <1>5 DEF SkipCandidate, NextSucc, aux, Extra
<1>6. CASE CompareRep
  <2>1. /\ top.node = FN(Len(frames)) /\ Len(frames) \in 1..Len(frames) /\ top \in Frame
        /\ visited(top.child) /\ top.child # NoNode
    BY <1>6, TopNode DEF CompareRep, IInv
  <2>2. top.node \in Node /\ top.child \in Node /\ rep[top.node] \in Node
    BY <2>1, ActiveOpen DEF Frame
  <2>3. CASE open(top.child)
    <3>1. rep[top.child] \in Node
      BY <2>1, <2>2, <2>3 DEF open, Open, IInv, RepRight
    <3>2. earlier(rep[top.node], rep[top.child]) \in Node
      BY <2>2, <3>1 DEF earlier
    <3>3. repNodes' \subseteq repNodes \union {earlier(rep[top.node], rep[top.child])}
      BY <1>6, <2>3 DEF CompareRep, setRep
    <3> QED BY <1>4, <1>6, <3>2, <3>3 DEF CompareRep, Extra
  <2>4. CASE ~open(top.child)
    BY <1>4, <1>6, <2>4 DEF CompareRep, aux, Extra
  <2> QED BY <2>3, <2>4
<1>7. CASE LeaveRoot
  <2>1. PICK v \in Node : v = top.node /\ topo' = Append(topo, v) /\ UNCHANGED <<edges, I, D>>
    BY <1>7, LeaveRootFacts
  <2>2. repNodes' \subseteq repNodes \union {v}
    BY <1>7, <2>1 DEF LeaveRoot, setRep
  <2>3. Numbers' = Numbers
    BY <2>1 DEF Numbers, Visited, visited
  <2>4. topo' \in Seq(Node)
    BY <2>1, AppendProperties DEF Extra
  <2> QED BY <2>1, <2>2, <2>3, <2>4 DEF Extra
<1>8. CASE LeaveInner
  BY <1>4, <1>8 DEF LeaveInner, aux, Extra
<1>9. CASE UNCHANGED vars
  BY <1>4, <1>9 DEF vars, aux, Extra
<1> QED
  BY <1>1, <1>2, <1>3, <1>5, <1>6, <1>7, <1>8, <1>9 DEF Next, Search

(* Every variable stays within its type, and the visit numbers handed out    *)
(* since the last clear are exactly 1 to the counter.                        *)
THEOREM TypeCorrect == Spec => []TypeOK
<1>1. Init => SubInv /\ Extra
  <2> SUFFICES ASSUME Init PROVE SubInv /\ Extra
    OBVIOUS
  <2>1. Numbers = {}
    BY DEF Init, Numbers, Visited, visited
  <2>2. topo \in Seq(Node)
    BY EmptySeq DEF Init
  <2> QED BY <2>1, <2>2, FreshSubs DEF Init, Extra
<1>2. IInv /\ SubInv /\ [Next]_vars => SubInv'
  BY SubsKept
<1>3. IInv /\ Extra /\ [Next]_vars => Extra'
  BY ExtraKept
<1>4. IInv /\ SubInv /\ Extra => TypeOK
  BY DEF IInv, Types, SubInv, Extra, Numbers, TypeOK
<1> QED
  BY <1>1, <1>2, <1>3, <1>4, Invariance, PTL DEF Spec

-----------------------------------------------------------------------------
(* The queries.                                                             *)

(* repNodes lists the nodes that have others below them.  Every setRep keeps *)
(* it so, whatever it is called with.                                        *)
Listed == \A n \in Node : n \in repNodes <=> ~(sub[n] \subseteq {n})

(* An unvisited node has no representative; that of a node in a closed       *)
(* component is a closed node of the same component that represents itself.  *)
Rooted ==
    /\ \A n \in Node : ~visited(n) => rep[n] = NoNode
    /\ \A n \in inSCC : /\ rep[n] \in inSCC /\ rep[rep[n]] = rep[n]
                        /\ n \in C!Component(edges, rep[n])

LEMMA SetRepLists ==
    ASSUME Listed, sub \in [Node -> SUBSET Node], NEW N, NEW r, setRep(N, r)
    PROVE  Listed'
<1> SUFFICES ASSUME NEW n \in Node PROVE n \in repNodes' <=> ~(sub'[n] \subseteq {n})
  BY DEF Listed
<1>1. n \in repNodes <=> ~(sub[n] \subseteq {n})
  BY DEF Listed
<1>2. CASE n = r
  <2>1. sub'[n] = sub[n] \union N
    BY <1>2 DEF setRep
  <2>2. n \in repNodes' <=> n \in repNodes \/ N \ {n} # {}
    BY <1>2 DEF setRep
  <2> QED BY <2>1, <2>2, <1>1
<1>3. CASE n # r /\ n \in N
  <2>1. sub'[n] = {}
    BY <1>3 DEF setRep
  <2>2. n \notin repNodes'
    BY <1>3 DEF setRep
  <2> QED BY <2>1, <2>2
<1>4. CASE n # r /\ n \notin N
  <2>1. sub'[n] = sub[n]
    BY <1>4 DEF setRep
  <2>2. n \in repNodes' <=> n \in repNodes
    BY <1>4 DEF setRep
  <2> QED BY <2>1, <2>2, <1>1
<1> QED
  BY <1>2, <1>3, <1>4

LEMMA SameRooted ==
    ASSUME Rooted, UNCHANGED <<edges, D, rep, inSCC>>
    PROVE  Rooted'
BY DEF Rooted, visited

LEMMA VisitRooted ==
    ASSUME IInv, Rooted, NEW v \in Node, ~visited(v), visit(v)
    PROVE  Rooted'
<1>1. /\ D' = [D EXCEPT ![v] = I + 1] /\ D \in [Node -> Nat] /\ I \in Nat
      /\ edges' = edges /\ inSCC' = inSCC
      /\ rep' = [n \in Node |-> IF n = v THEN v ELSE rep[n]]
  BY DEF visit, setRep, IInv, Types
<1>2. \A n \in inSCC : n \in Node /\ n # v
  BY DEF IInv, Types, Placed
<1>3. \A n \in Node : ~visited(n)' => n # v /\ ~visited(n)
  BY <1>1 DEF visited
<1>4. \A n \in Node : n # v => rep'[n] = rep[n]
  BY <1>1
<1>5. ASSUME NEW n \in inSCC
      PROVE  rep'[n] \in inSCC /\ rep'[rep'[n]] = rep'[n] /\ n \in C!Component(edges, rep'[n])
  BY <1>2, <1>4 DEF Rooted
<1> QED
  BY <1>1, <1>3, <1>4, <1>5 DEF Rooted

LEMMA CompareRepRooted ==
    ASSUME IInv, Rooted, CompareRep
    PROVE  Rooted'
<1>1. PICK v \in Node : v = top.node /\ Open(v)
  <2>1. /\ top.node = FN(Len(frames)) /\ Len(frames) \in 1..Len(frames)
    BY TopNode DEF CompareRep, IInv
  <2> QED BY <2>1, ActiveOpen
<1>2. edges' = edges /\ inSCC' = inSCC /\ D' = D
  BY DEF CompareRep
<1>3. \A n \in Node : n # v => rep'[n] = rep[n]
  BY <1>1 DEF CompareRep, setRep, aux
<1>4. visited(v) /\ v \notin inSCC
  BY <1>1 DEF Open
<1>5. \A n \in inSCC : n \in Node /\ n # v
  BY <1>4 DEF IInv, Types
<1>6. \A n \in Node : ~visited(n)' => n # v /\ ~visited(n)
  BY <1>2, <1>4 DEF visited
<1>7. ASSUME NEW n \in inSCC
      PROVE  rep'[n] \in inSCC /\ rep'[rep'[n]] = rep'[n] /\ n \in C!Component(edges, rep'[n])
  BY <1>3, <1>5 DEF Rooted
<1> QED
  BY <1>2, <1>3, <1>6, <1>7 DEF Rooted

LEMMA LeaveRootRooted ==
    ASSUME IInv, Rooted, LeaveRoot
    PROVE  Rooted'
<1>1. PICK v \in Node, L \in Nat, P \in SUBSET Node :
        /\ L = Len(frames) /\ frames # <<>> /\ v = FN(L)
        /\ frames' = Front(frames)
        /\ frames[L].child = NoNode /\ frames[L].kids = {} /\ rep[v] = v
        /\ P = {w \in OnStack : D[v] < D[w]}
        /\ inSCC' = inSCC \union {v} \union P
        /\ rep' = [n \in Node |-> IF n \in P THEN v ELSE rep[n]]
        /\ edges' = edges /\ D' = D
  BY LeaveRootFacts
<1>2. L \in 1..L
  BY <1>1, FrameLeft
<1>3. C!Component(edges, v) = {v} \union P
  BY <1>1, <1>2, WholeComponent
<1>4. v \in OnFrames /\ v \notin P
  <2>1. v \in OnFrames
    BY <1>1, <1>2 DEF OnFrames
  <2> QED BY <2>1, <1>1 DEF IInv, Placed
<1>5. \A n \in P : visited(n) /\ n \notin inSCC
  BY <1>1 DEF IInv, Placed
<1>6. \A n \in Node : n \notin P => rep'[n] = rep[n]
  BY <1>1
<1>7. rep'[v] = v /\ \A n \in P : rep'[n] = v
  BY <1>1, <1>4
<1>8. ASSUME NEW n \in inSCC
      PROVE  rep'[n] \in inSCC /\ rep'[rep'[n]] = rep'[n] /\ n \in C!Component(edges, rep'[n])
  <2>1. rep[n] \in inSCC /\ rep[rep[n]] = rep[n] /\ n \in C!Component(edges, rep[n])
    BY DEF Rooted
  <2>2. n \in Node /\ rep[n] \in Node /\ n \notin P /\ rep[n] \notin P
    BY <2>1, <1>5 DEF IInv, Types
  <2> QED BY <2>1, <2>2, <1>6
<1>9. ASSUME NEW n \in {v} \union P
      PROVE  rep'[n] \in inSCC' /\ rep'[rep'[n]] = rep'[n] /\ n \in C!Component(edges, rep'[n])
  BY <1>1, <1>3, <1>7
<1>10. \A n \in Node : ~visited(n)' => n \notin P /\ ~visited(n)
  BY <1>1, <1>5 DEF visited
<1>11. \A n \in inSCC' : n \in inSCC \/ n \in {v} \union P
  BY <1>1
<1>12. inSCC \subseteq inSCC' /\ edges' = edges
  BY <1>1
<1> QED
  BY <1>6, <1>8, <1>9, <1>10, <1>11, <1>12 DEF Rooted

LEMMA FreshQueries ==
    ASSUME D = [n \in Node |-> 0], sub = [n \in Node |-> {}], inSCC = {},
           repNodes = {}, rep = [n \in Node |-> NoNode]
    PROVE  Listed /\ Rooted
BY DEF Listed, Rooted

LEMMA QueriesKept ==
    ASSUME IInv, SubInv, Listed, Rooted, [Next]_vars
    PROVE  Listed' /\ Rooted'
<1>0. sub \in [Node -> SUBSET Node]
  BY DEF SubInv
<1>1. ASSUME NEW S \in SUBSET Node, Find(S) PROVE Listed' /\ Rooted'
  <2>1. (/\ D = [n \in Node |-> 0] /\ sub = [n \in Node |-> {}] /\ inSCC = {}
         /\ repNodes = {} /\ rep = [n \in Node |-> NoNode])'
    BY <1>1 DEF Find, clear
  <2> QED BY <2>1, FreshQueries, PTL
<1>2. ASSUME NEW v \in Node, ~visited(v), visit(v) PROVE Listed' /\ Rooted'
  <2>1. setRep({v}, v)
    BY <1>2 DEF visit
  <2> QED BY <2>1, <1>0, <1>2, SetRepLists, VisitRooted
<1>3. ASSUME NEW n \in Node, VisitCandidate(n) PROVE Listed' /\ Rooted'
  BY <1>2, <1>3 DEF VisitCandidate
<1>4. ASSUME UNCHANGED <<edges, D, inSCC, aux>> PROVE Listed' /\ Rooted'
  BY <1>4, SameRooted DEF aux, Listed
<1>5. ASSUME NEW n \in Node, SkipCandidate(n) \/ NextSucc(n) PROVE Listed' /\ Rooted'
  BY <1>4, <1>5 DEF SkipCandidate, NextSucc
<1>6. CASE VisitSucc
  <2>1. PICK v : v = top.child
    OBVIOUS
  <2>2. v \in Node /\ ~visited(v) /\ visit(v)
    BY <1>6, <2>1, TopNode DEF VisitSucc, IInv, Frame
  <2> QED BY <2>2, <1>2
<1>7. CASE CompareRep
  <2>1. Listed'
    <3>1. CASE open(top.child)
      <4>1. setRep({top.node}, earlier(rep[top.node], rep[top.child]))
        BY <1>7, <3>1 DEF CompareRep
      <4> QED BY <4>1, <1>0, SetRepLists
    <3>2. CASE ~open(top.child)
      BY <1>7, <3>2 DEF CompareRep, aux, Listed
    <3> QED BY <3>1, <3>2
  <2> QED BY <2>1, <1>7, CompareRepRooted
<1>8. CASE LeaveRoot
  <2>1. setRep(popped(top.node), top.node)
    BY <1>8 DEF LeaveRoot
  <2> QED BY <2>1, <1>0, <1>8, SetRepLists, LeaveRootRooted
<1>9. CASE LeaveInner
  BY <1>4, <1>9 DEF LeaveInner
<1>10. CASE UNCHANGED vars
  BY <1>4, <1>10 DEF vars
<1> QED
  BY <1>1, <1>3, <1>5, <1>6, <1>7, <1>8, <1>9, <1>10 DEF Next, Search

(* A set with an element has others exactly when it has more than one.       *)
LEMMA MoreThanOne ==
    ASSUME NEW S, IsFiniteSet(S), NEW x \in S
    PROVE  Cardinality(S) > 1 <=> ~(S \subseteq {x})
<1>1. IsFiniteSet({x}) /\ Cardinality({x}) = 1 /\ {x} \in SUBSET S
  BY FS_Singleton
<1>2. Cardinality(S) \in Nat /\ 1 <= Cardinality(S) /\ (Cardinality(S) = 1 => S = {x})
  BY <1>1, FS_CardinalityType, FS_Subset
<1>3. CASE S \subseteq {x}
  <2>1. S = {x}
    BY <1>3
  <2> QED BY <2>1, <1>1, <1>3
<1>4. CASE ~(S \subseteq {x})
  <2>1. S # {x}
    BY <1>4
  <2> QED BY <2>1, <1>2, <1>4
<1> QED
  BY <1>3, <1>4

(* A path to another node leaves by an edge.                                 *)
LEMMA FirstStep ==
    ASSUME edges \in SUBSET (Node \X Node), NEW n \in Node, NEW k \in Node,
           Reach(n, k), k # n
    PROVE  \E m \in succs(n) : Reach(m, k)
<1> DEFINE S == {n} \union {x \in Node : \E m \in succs(n) : Reach(m, x)}
<1>1. S \in SUBSET Node /\ n \in S
  OBVIOUS
<1>2. ASSUME NEW u \in S, NEW x \in succs(u) PROVE x \in S
  <2>1. x \in Node
    BY SuccsEdges
  <2>2. CASE u = n
    <3>1. Reach(x, x)
      BY <2>1, ReachRefl
    <3> QED BY <2>1, <2>2, <3>1
  <2>3. CASE u # n
    <3>1. PICK m \in succs(n) : Reach(m, u)
      BY <2>3
    <3>2. Reach(u, x)
      BY ReachEdge
    <3>3. Reach(m, x)
      BY <3>1, <3>2, ReachTrans
    <3> QED BY <2>1, <3>3
  <2> QED BY <2>2, <2>3
<1>3. \A u \in S : succs(u) \subseteq S
  BY <1>2
<1> HIDE DEF S
<1>4. k \in S
  BY <1>1, <1>3, ReachClosed
<1> QED
  BY <1>4 DEF S

\* The component of r, stated with Reach.
LEMMA ComponentReach ==
    ASSUME NEW r, NEW k
    PROVE  k \in C!Component(edges, r) <=> k \in Node /\ Reach(r, k) /\ Reach(k, r)
BY DEF C!Component, Reach

LEMMA CycleRight ==
    ASSUME edges \in SUBSET (Node \X Node), NEW n \in Node, NEW r \in Node,
           n \in C!Component(edges, r)
    PROVE  (\E k \in C!Component(edges, r) : k # r) \/ <<r, r>> \in edges
           <=> \E m \in succs(n) : Reach(m, n)
<1>1. Reach(r, n) /\ Reach(n, r)
  BY ComponentReach
<1>2. CASE n # r
  <2>1. PICK m \in succs(n) : Reach(m, r)
    BY <1>1, <1>2, FirstStep
  <2>2. Reach(m, n)
    BY <1>1, <2>1, ReachTrans
  <2> QED BY <1>2, <2>2
<1>3. CASE n = r
  <2>1. ASSUME NEW k \in C!Component(edges, r), k # r PROVE \E m \in succs(n) : Reach(m, n)
    <3>1. k \in Node /\ Reach(n, k) /\ Reach(k, n)
      BY <1>3, ComponentReach
    <3>2. PICK m \in succs(n) : Reach(m, k)
      BY <1>3, <2>1, <3>1, FirstStep
    <3>3. Reach(m, n)
      BY <3>1, <3>2, ReachTrans
    <3> QED BY <3>3
  <2>2. ASSUME <<r, r>> \in edges PROVE \E m \in succs(n) : Reach(m, n)
    <3>1. n \in succs(n)
      BY <1>3, <2>2, SuccsEdges
    <3> QED BY <3>1, ReachRefl
  <2>3. ASSUME NEW m \in succs(n), Reach(m, n)
        PROVE  (\E k \in C!Component(edges, r) : k # r) \/ <<r, r>> \in edges
    <3>1. m \in Node /\ <<n, m>> \in edges /\ Reach(n, m)
      BY SuccsEdges, ReachEdge
    <3>2. m \in C!Component(edges, r)
      BY <1>3, <2>3, <3>1, ComponentReach
    <3> QED BY <1>3, <3>1, <3>2
  <2> QED BY <2>1, <2>2, <2>3
<1> QED
  BY <1>2, <1>3

(* When find has returned, repNodes lists the representatives of components  *)
(* of two nodes or more, and isInCycle tells of every visited node whether a *)
(* path of at least one edge leads back to it: a function is reported        *)
(* recursive if and only if it is.                                           *)
THEOREM QueriesRight == Spec => []QueriesExact
<1>1. Init => Listed /\ Rooted
  BY FreshQueries DEF Init
<1>2. Init => SubInv /\ repNodes \subseteq Node
  BY FreshSubs DEF Init
<1>3. IInv /\ SubInv /\ [Next]_vars => SubInv'
  BY SubsKept
<1>4. IInv /\ SubInv /\ Listed /\ Rooted /\ [Next]_vars => Listed' /\ Rooted'
  BY QueriesKept
<1>5. TypeOK /\ NothingPending /\ IInv /\ SubInv /\ Listed /\ Rooted => QueriesExact
  <2> SUFFICES ASSUME TypeOK, NothingPending, IInv, SubInv, Listed, Rooted, idle
               PROVE  /\ repNodes = {n \in Node : rep[n] = n /\ Cardinality(sub[n]) > 1}
                      /\ \A n \in Visited :
                           isInCycle(n) <=> \E m \in succs(n) : C!Reaches(edges, m, n)
    BY DEF QueriesExact
  <2>1. inSCC = Visited /\ repNodes \subseteq Node /\ edges \in SUBSET (Node \X Node)
    BY DEF NothingPending, TypeOK, IInv, Types
  <2>2. ASSUME NEW n \in Node
        PROVE  /\ n \in inSCC /\ rep[n] = n => n \in sub[n] /\ sub[n] = C!Component(edges, n)
               /\ n \notin inSCC \/ rep[n] # n => sub[n] = {}
    <3>1. CASE n \notin inSCC
      BY <2>1, <3>1 DEF SubInv, Visited
    <3>2. CASE n \in inSCC
      <4>1. sub[n] = IF rep[n] = n THEN C!Component(edges, n) ELSE {}
        BY <3>2 DEF SubInv, SubNodesExact
      <4>2. n \in C!Component(edges, n)
        BY ReachRefl, ComponentReach
      <4> QED BY <3>2, <4>1, <4>2
    <3> QED BY <3>1, <3>2
  <2>3. ASSUME NEW n \in inSCC, rep[n] = n PROVE Cardinality(sub[n]) > 1 <=> ~(sub[n] \subseteq {n})
    <3>1. n \in Node /\ n \in sub[n] /\ sub[n] \in SUBSET Node
      BY <2>1, <2>2, <2>3 DEF Visited, SubInv
    <3>2. IsFiniteSet(sub[n])
      BY <3>1, NodeAssumption, FS_Subset
    <3> QED BY <3>1, <3>2, MoreThanOne
  <2>4. ASSUME NEW n \in Node
        PROVE  n \in repNodes <=> rep[n] = n /\ Cardinality(sub[n]) > 1
    <3>1. n \in repNodes <=> ~(sub[n] \subseteq {n})
      BY DEF Listed
    <3>2. CASE n \in inSCC /\ rep[n] = n
      BY <3>1, <3>2, <2>3
    <3>3. CASE n \in inSCC /\ rep[n] # n
      <4>1. sub[n] = {}
        BY <3>3, <2>2
      <4> QED BY <4>1, <3>1, <3>3
    <3>4. CASE n \notin inSCC
      <4>1. sub[n] = {} /\ rep[n] = NoNode
        BY <3>4, <2>1, <2>2 DEF Rooted, Visited
      <4> QED BY <4>1, <3>1, NodeAssumption
    <3> QED BY <3>2, <3>3, <3>4
  <2>5. repNodes = {n \in Node : rep[n] = n /\ Cardinality(sub[n]) > 1}
    BY <2>1, <2>4
  <2>6. ASSUME NEW n \in Visited
        PROVE  isInCycle(n) <=> \E m \in succs(n) : C!Reaches(edges, m, n)
    <3>1. PICK r : r = rep[n]
      OBVIOUS
    <3>2. r \in inSCC /\ rep[r] = r /\ n \in C!Component(edges, r) /\ n \in Node /\ r \in Node
      BY <2>1, <3>1 DEF Rooted, Visited
    <3>3. Cardinality(sub[r]) > 1 <=> ~(sub[r] \subseteq {r})
      BY <3>2, <2>3
    <3>4. sub[r] = C!Component(edges, r)
      BY <3>2, <2>2
    <3>5. isInCycle(n) <=> (\E k \in C!Component(edges, r) : k # r) \/ <<r, r>> \in edges
      BY <3>1, <3>3, <3>4 DEF isInCycle
    <3>6. (\E k \in C!Component(edges, r) : k # r) \/ <<r, r>> \in edges
          <=> \E m \in succs(n) : Reach(m, n)
      BY <2>1, <3>2, CycleRight
    <3> QED BY <3>5, <3>6 DEF Reach
  <2> QED BY <2>5, <2>6
<1> QED
  BY <1>1, <1>2, <1>3, <1>4, <1>5, TypeCorrect, AllClosed, Invariance, PTL DEF Spec
=============================================================================
