------------------------------- MODULE ConsG -------------------------------
(***************************************************************************)
(* The constraint graph of the inclusion-based pointer analyses: typed     *)
(* edges between nodes that stand for pointers and memory objects, and the *)
(* surgery done on it when a node is merged into its representative.       *)
(* An edge is identified by its kind and endpoints; the field offset of a  *)
(* normal gep edge is carried along but is no part of its identity.        *)
(***************************************************************************)
EXTENDS Naturals

CONSTANTS Var,      \* pointer variables (every node below is of pointer type:
                    \* the graph is built from statements between pointers)
          Obj,      \* memory objects: base objects and their field objects
          Offset,   \* the constant field offsets of gep statements
          baseOf,   \* the base object of each object
          fieldOf   \* the object at an offset from an object (getGepObjVar of
                    \* the SVFIR, before the base is field-insensitive)

Node == Var \union Obj

ASSUME ConsGAssumption ==
    /\ Var # {} /\ Var \intersect Obj = {}
    /\ Offset \subseteq Nat
    /\ baseOf \in [Obj -> Obj]
    /\ fieldOf \in [Obj \X Offset -> Obj]
    /\ \A o \in Obj : baseOf[baseOf[o]] = baseOf[o]
    /\ \A o \in Obj, k \in Offset : baseOf[fieldOf[<<o, k>>]] = baseOf[o]

GepKind == {"ngep", "vgep"}
DirectKind == {"copy"} \union GepKind
Kind == DirectKind \union {"addr", "load", "store"}
\* Only a normal gep carries an offset.
Edge == {e \in [kind : Kind, src : Node, dst : Node, off : Offset \union {0}] :
            IF e.kind = "ngep" THEN e.off \in Offset ELSE e.off = 0}

\* The edges of E of one kind.
OfKind(E, k) == {e \in E : e.kind = k}
PlainEdge(k, s, d) == [kind |-> k, src |-> s, dst |-> d, off |-> 0]

SameEdge(e, f) == e.kind = f.kind /\ e.src = f.src /\ e.dst = f.dst
hasEdge(E, e) == \E f \in E : SameEdge(e, f)

-----------------------------------------------------------------------------
(* addCopyCGEdge: neither a duplicate nor a self edge is added. *)
isNewCopyEdge(E, s, d) == s # d /\ ~hasEdge(E, PlainEdge("copy", s, d))

-----------------------------------------------------------------------------
(* Merging node s into node r (moveEdgesToRepNode).                         *)
(* Re-targeting one end removes the edge and adds it again, so an edge that  *)
(* has become a duplicate is lost (with its offset); address edges have done *)
(* their work and are dropped.  A copy or gep edge between s and r lies      *)
(* inside the cycle and is removed.                                          *)
insideSCC(e, r) == e.kind \in DirectKind /\ r \in {e.src, e.dst}
addEdges(E, new) == E \union {e \in new : ~hasEdge(E, e)}

InEdge(E, s) == {e \in E : e.dst = s}
OutEdge(E, s) == {e \in E : e.src = s}

moveInEdgesToRepNode(E, s, r) ==
    addEdges(E \ InEdge(E, s),
             {[e EXCEPT !.dst = r] :
                e \in {x \in InEdge(E, s) : x.kind # "addr" /\ ~insideSCC(x, r)}})
moveOutEdgesToRepNode(E, s, r) ==
    addEdges(E \ OutEdge(E, s),
             {[e EXCEPT !.src = r] :
                e \in {x \in OutEdge(E, s) : x.kind # "addr" /\ ~insideSCC(x, r)}})
moveEdgesToRepNode(E, s, r) == moveOutEdgesToRepNode(moveInEdgesToRepNode(E, s, r), s, r)

isZeroOffsettedGepCGEdge(e) == e.kind = "ngep" /\ e.off = 0

(* A gep that may add an offset, inside the cycle: r gets positive weight.  *)
criticalGep(E, r) ==
    \E e \in E : insideSCC(e, r) /\ e.kind \in GepKind /\ ~isZeroOffsettedGepCGEdge(e)
MutNeverCritical(E, s, r) == FALSE   \* broken: cycles never get positive weight
criticalGepInsideSCC(E, s, r) ==
    \/ criticalGep(InEdge(E, s), r)
    \/ criticalGep(OutEdge(moveInEdgesToRepNode(E, s, r), s), r)

-----------------------------------------------------------------------------
(* The graph seen by SCC detection, its nodes N and direct edges: one node    *)
(* does not reach another when some set closed under the edges contains the  *)
(* first and not the second.                                                 *)
directSuccs(E, S) == {e.dst : e \in {x \in E : x.kind \in DirectKind /\ x.src \in S}}
ClosedSets(E, N) == {S \in SUBSET N : directSuccs(E, S) \subseteq S}
Apart(E, N) == UNION {{<<n, m>> : n \in S, m \in N \ S} : S \in ClosedSets(E, N)}
Reaches(E, N) == {<<n, m>> : n \in N, m \in N} \ Apart(E, N)
=============================================================================
