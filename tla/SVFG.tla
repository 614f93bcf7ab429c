-------------------------------- MODULE SVFG --------------------------------
(***************************************************************************)
(* The sparse value-flow graph the flow-sensitive analysis runs on.  A     *)
(* node defines or uses top-level pointers, or carries objects: a store,   *)
(* a memory phi, or a node for what a call may read or write (FormalIN,    *)
(* FormalOUT, ActualIN, ActualOUT; all four and the phi are "mssa" here,   *)
(* no two of them are treated differently).  A direct edge leads from the  *)
(* definition of a pointer to its uses, an indirect one carries an object  *)
(* from one definition to the next definition or use.  Parameters and      *)
(* results are passed along edges between a "pass" node (ActualParm,       *)
(* FormalRet) and a "receive" node (FormalParm, ActualRet).                *)
(***************************************************************************)
EXTENDS Naturals, FiniteSets

CONSTANTS Var,   \* top-level pointers
          Obj,   \* address-taken objects
          Loc    \* nodes of the graph

\* A program and its graph are finite.
ASSUME SVFGAssumption == IsFiniteSet(Var) /\ IsFiniteSet(Obj) /\ IsFiniteSet(Loc)

\* A statement reads the pointers of src and defines dst; an "addr" node takes
\* the address of obj, a "store" writes through dst.
Stmt == [kind : {"addr", "copy", "load", "store", "pass", "receive", "mssa"},
         src : SUBSET Var, obj : SUBSET Obj, dst : SUBSET Var]
Flow == [from : Loc, obj : Obj, to : Loc]
Call == [fp : Var, fun : Obj, passes : SUBSET (Loc \X Loc), flows : SUBSET Flow]

\* A function with its graph; weak are the heap, array and field-insensitive
\* objects and the locals of recursive functions, const the constant ones.
Program == [stmt : [Loc -> Stmt], passes : SUBSET (Loc \X Loc), flows : SUBSET Flow,
            calls : SUBSET Call, weak : SUBSET Obj, const : SUBSET Obj]

Single(S) == \E x \in S : S = {x}
Only(S) == CHOOSE x \in S : TRUE

\* What each kind of node has for operands, and where edges may lead.
WellFormed(p) ==
    /\ \A l \in Loc :
         /\ p.stmt[l].kind \in {"addr", "copy", "load", "receive"} => Single(p.stmt[l].dst)
         /\ p.stmt[l].kind = "addr" => Single(p.stmt[l].obj)
         /\ p.stmt[l].kind \in {"load", "pass", "store"} => Single(p.stmt[l].src)
         /\ p.stmt[l].kind = "store" => Single(p.stmt[l].dst)
    /\ \A f \in p.flows \union UNION {c.flows : c \in p.calls} :
         /\ p.stmt[f.from].kind \in {"store", "mssa"}
         /\ p.stmt[f.to].kind \in {"store", "mssa", "load"}
    /\ \A c \in p.calls : \A f \in c.flows : p.stmt[f.from].kind = "mssa" /\ p.stmt[f.to].kind = "mssa"
    /\ \A e \in p.passes \union UNION {c.passes : c \in p.calls} :
         p.stmt[e[1]].kind = "pass" /\ p.stmt[e[2]].kind = "receive"

\* The pointers a node defines and uses.
Defs(s) == IF s.kind = "store" THEN {} ELSE s.dst
Uses(s) == IF s.kind = "store" THEN s.src \union s.dst ELSE s.src
=============================================================================
