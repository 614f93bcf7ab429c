-------------------------- MODULE CFLReachability --------------------------
(***************************************************************************)
(* What a CFL-reachability solver promises its client: while it works it   *)
(* only adds edges the grammar derives from the base graph; when it rests  *)
(* the graph holds every one of them; the client may then add base edges   *)
(* and have it work again.                                                 *)
(***************************************************************************)
EXTENDS CFGrammar

CONSTANT Graphs     \* graphs the solver may be given

VARIABLES base,     \* edges given so far
          graph,    \* edges of the CFL graph
          resting   \* the solver has nothing left to do

vars == <<base, graph, resting>>

Init == base \in Graphs /\ graph = base /\ resting = FALSE

\* Some derivable edges are inserted.
Insert ==
    /\ ~resting /\ UNCHANGED <<base, resting>>
    /\ graph \subseteq graph' /\ graph' \subseteq Derivable(base)

\* The solver stops with the answer.
Rest ==
    /\ ~resting /\ resting' = TRUE
    /\ graph = Derivable(base) /\ UNCHANGED <<base, graph>>

\* The client adds base edges; what they imply is not derived yet.
Extend ==
    /\ resting /\ resting' = FALSE
    /\ base \subseteq base'
    /\ graph' = graph \union base'

Next == Insert \/ Rest \/ Extend
\* It answers again and again: after every extension it comes to rest.
Answers == []<>resting
Spec == Init /\ [][Next]_vars /\ Answers
=============================================================================
