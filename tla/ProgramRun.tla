---------------------------- MODULE ProgramRun ----------------------------
(***************************************************************************)
(* What the abstract execution is for: once it is done, the program runs.  *)
(* A run is at a node, right after it, with the values of the cells and    *)
(* the return nodes of the calls in progress; it takes a branch as its     *)
(* condition says and stops at a division by zero, at a use of a cell      *)
(* without a value, at the end of main or when a value leaves the window.  *)
(***************************************************************************)
EXTENDS AbstractInterpretation

CONSTANTS Window,   \* runs are followed while their values stay in -Window..Window
          Depth,    \* and no more calls than this are in progress
          Undef     \* the value of a cell nothing has been stored in

VARIABLE exec       \* the run, or None
runVars == <<vars, exec>>

Value(x, v) == IF x \in Cell THEN v[x] ELSE x
followed ==
    /\ exec # None /\ Len(exec.rets) <= Depth
    /\ \A c \in Cell : exec.cells[c] # Undef => Abs(exec.cells[c]) <= Window

(* The values of the cells after statement st, if it can be executed. *)
Executed(st, v) ==
    IF st = None THEN {v}
    ELSE LET a == Value(st.l, v)
             b == Value(st.r, v)
         IN IF Undef \in {a, b} \/ (st.op \in {"div", "rem"} /\ b = 0) THEN {}
            ELSE {[v EXCEPT ![st.res] =
                     CASE st.op = "const" -> a
                       [] st.op = "add" -> a + b [] st.op = "sub" -> a - b
                       [] st.op = "mul" -> a * b [] st.op = "div" -> Quot(a, b)
                       [] st.op = "rem" -> Rest(a, b)]}

Holds(c, v) ==
    LET a == Value(c.l, v)
        b == Value(c.r, v)
    IN CASE c.pred = "eq" -> a = b [] c.pred = "ne" -> a # b
         [] c.pred = "lt" -> a < b [] c.pred = "le" -> a <= b
         [] c.pred = "gt" -> a > b [] c.pred = "ge" -> a >= b

(* The out-edges of node n that may be taken with the given values. *)
Taken(n, v) ==
    LET c == prog.cond[n] IN
    IF c = None THEN DOMAIN prog.succs[n]
    ELSE IF Undef \in {Value(c.l, v), Value(c.r, v)} THEN {}
    ELSE {IF Holds(c, v) THEN 1 ELSE 2}

Arrive(n, v, rets) ==
    \E w \in Executed(prog.stmt[n], v) : exec' = [node |-> n, cells |-> w, rets |-> rets]

RunStart ==
    /\ pc = "done" /\ exec = None /\ prog.main # None
    /\ \E v \in [Cell -> (-Window..Window) \union {Undef}] :
         /\ \A c \in Cell : IF isBottom(prog.globals[c]) THEN v[c] = Undef
                            ELSE v[c] # Undef /\ contains(prog.globals[c], v[c])
         /\ Arrive(prog.entry[prog.main], v, <<>>)

RunStep ==
    /\ followed
    /\ LET n == exec.node IN
       \/ \E i \in Taken(n, exec.cells) : Arrive(prog.succs[n][i], exec.cells, exec.rets)
       \/ /\ isCall(n)
          /\ Arrive(prog.entry[prog.callee[n]], exec.cells, Append(exec.rets, prog.retOf[n]))
       \/ /\ exec.rets # <<>> /\ n = prog.exit[prog.fun[n]]
          /\ Arrive(Last(exec.rets), exec.cells, Front(exec.rets))

RunInit == Init /\ exec = None
RunNext == \/ Next /\ UNCHANGED exec
           \/ (RunStart \/ RunStep) /\ UNCHANGED vars
(* The analysis is a sequential program that goes on until it is done; no    *)
(* run of the analysed program has to take place.                            *)
RunSpec == RunInit /\ [][RunNext]_runVars /\ WF_vars(Next)

-----------------------------------------------------------------------------
(* Every state a run is in after a node is among those the abstract          *)
(* execution has recorded for the node ("abstract states immediately after   *)
(* nodes"), except inside a call of a recursive function, which it skips.  A *)
(* cell it has no value for is unknown.                                      *)
(*   For programs whose recursive functions store no constants: the cell of  *)
(* such a store keeps the caller's value, which need not be the run's.       *)
skipped == \E n \in Node : isRecursiveCall(n) /\ prog.retOf[n] \in Range(exec.rets)

Covered ==
    exec # None /\ ~skipped =>
      /\ trace[exec.node] # None
      /\ \A c \in Cell : exec.cells[c] # Undef =>
                          contains(operand(c, trace[exec.node]), exec.cells[c])
=============================================================================
