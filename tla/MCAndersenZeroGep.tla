------------------------- MODULE MCAndersenZeroGep -------------------------
(* One program that walks a structure through its first field:               *)
(*     p = &s or q;  q = &p->f0;                                             *)
EXTENDS AndersenWaveDiff

CONSTANTS p, q, s, f0

MCVar == {p, q}
MCObj == {s, f0}
MCOffset == {0}
MCBaseOf == [t \in MCObj |-> s]
MCFieldOf == [t \in MCObj \X MCOffset |-> f0]
MCFormal == <<>>

Stmt(k, m, n) == [kind |-> k, src |-> m, dst |-> n, off |-> 0]
MCPrograms == {[stmts |-> {Stmt("addr", s, p), Stmt("copy", q, p), Stmt("ngep", p, q)},
                calls |-> {}]}
=============================================================================
