------------------------------ MODULE CFLAlias ------------------------------
(***************************************************************************)
(* The points-to analysis by CFL reachability, with the solver its class   *)
(* makes: CFLAlias::initializeSolver the base one, POCRAlias's the one     *)
(* with maps.  The loop around them, solve and connect the callees found,  *)
(* is the same (CFLAlias::solve).                                          *)
(***************************************************************************)
EXTENDS POCRSolver

CONSTANT Setups   \* [pocr, graph, calls]: the analyses to run

ASSUME SetupAssumption ==
    Setups \subseteq [pocr : BOOLEAN, graph : Graphs, calls : SUBSET Calls]

VARIABLE pocr     \* whether the solver is POCRSolver

aliasVars == <<vars, maps, pocr>>

\* Calls that are not in the program count as connected: nothing is due.
AliasInit ==
    \E s \in Setups :
      /\ pocr = s.pocr /\ Start(s.graph, Calls \ s.calls)
      /\ buildCFLData(IF pocr THEN s.graph ELSE {})

AliasNext ==
    \/ ~pocr /\ Next /\ UNCHANGED <<maps, pocr>>
    \/ pocr /\ POCRNext /\ UNCHANGED pocr
\* solve is a loop: it goes on until it returns.
AliasSpec == AliasInit /\ [][AliasNext]_aliasVars /\ WF_aliasVars(AliasNext)
-----------------------------------------------------------------------------
\* What POCRSolver joins through is what the graph holds (POCRSolver::addEdges).
MapsAgree == pocr => InStep
=============================================================================
