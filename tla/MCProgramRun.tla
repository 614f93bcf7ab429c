---------------------------- MODULE MCProgramRun ----------------------------
(* The programs, analysed and then run, and one in which a loop gives a cell *)
(* its first value:                                                          *)
(* x = 0; while (x < 2) { y = x; x = x + 1; } if (y < 1) y = 3;              *)
EXTENDS ProgramRun, MCAbstractInterpretation

StoredInLoop ==
    {[Blank EXCEPT !.succs = (1 :> <<2>>) @@ (2 :> <<3, 5>>) @@ (3 :> <<4>>) @@ (4 :> <<2>>)
                               @@ (5 :> <<6, 7>>) @@ (6 :> <<7>>) @@ @,
                   !.cond[2] = If(x, "lt", 2), !.cond[5] = If(y, "lt", 1),
                   !.stmt[3] = Set("add", x, 0, y), !.stmt[4] = Set("add", x, 1, x),
                   !.stmt[6] = Put(3, y),
                   !.globals = Is(Num(0), Bottom)]}
=============================================================================
