------------------------------ MODULE FSConsG ------------------------------
(***************************************************************************)
(* The flow-sensitive constraint graph, built from a sparse value-flow     *)
(* graph: pointers keep one node each, and an object gets a node for every *)
(* place of the value-flow graph that an indirect edge carries it from or  *)
(* to, so that ordinary inclusion constraints between these versions       *)
(* express the flow.  A load or store edge remembers its place.            *)
(*                                                                         *)
(* Memory phis also get nodes for their own versions; nothing connects     *)
(* them with the rest and they are left out, as are gep edges.             *)
(***************************************************************************)
EXTENDS SVFG, FiniteSetsExt

CONSTANTS Plain,      \* the place of a node that is no version
          FormalRet,  \* the "pass" nodes that return from a function
          Inter       \* the indirect edges between a call site and a function

ASSUME FSConsGAssumption ==
    /\ Loc \subseteq Nat /\ Plain \notin Loc
    /\ FormalRet \subseteq Loc /\ Inter \subseteq Flow
    /\ Var \intersect Obj = {}   \* pointers and objects share one numbering

plain(x) == <<x, Plain>>
CGNode == {plain(x) : x \in Var \union Obj} \union (Obj \X Loc)

\* Only addIntraIndirectVFEdge enters edges in the indirectEdgeSet the graph is
\* built from.
indirectEdgeSet(p) == p.flows \ Inter
Versions(p) == UNION {{<<f.obj, f.from>>, <<f.obj, f.to>>} : f \in indirectEdgeSet(p)}

\* Broken: there are no versions.
MutNoVersion(p, o, l) == plain(o)
\* The node a load or store at l finds for object o.
getAddrDef(p, o, l) == IF <<o, l>> \in Versions(p) THEN <<o, l>> ELSE plain(o)

Pairs(S, T) == {plain(v) : v \in S} \X {plain(w) : w \in T}
PassCopies(p, passed) == UNION {Pairs(p.stmt[e[1]].src, p.stmt[e[2]].dst) : e \in passed}

\* Copies and phis, parameters and results of direct calls, with an edge back
\* from each result to the function's return, and the flow between versions.
CopyEdges(p) ==
    LET copies  == {l \in Loc : p.stmt[l].kind = "copy"}
        returns == {e \in p.passes : e[1] \in FormalRet}
        all == (UNION {Pairs(p.stmt[l].src, p.stmt[l].dst) : l \in copies})
               \union PassCopies(p, p.passes)
               \union {<<c[2], c[1]>> : c \in PassCopies(p, returns)}
               \union {<<<<f.obj, f.from>>, <<f.obj, f.to>>>> : f \in indirectEdgeSet(p)}
    IN  {c \in all : c[1] # c[2]}

\* One edge for all loads (or stores) with the same operands; it remembers the
\* last of their places.
AccessEdges(p, kind) ==
    LET places(v, w) == {l \in Loc : /\ p.stmt[l].kind = kind
                                     /\ p.stmt[l].src = {v} /\ p.stmt[l].dst = {w}}
        used == {c \in Var \X Var : places(c[1], c[2]) # {}}
    IN  {[src |-> plain(c[1]), dst |-> plain(c[2]), loc |-> Max(places(c[1], c[2]))] : c \in used}
=============================================================================
