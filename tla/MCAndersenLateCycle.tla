------------------------ MODULE MCAndersenLateCycle ------------------------
(* One program in which a cycle closes only after a pointer of it has been   *)
(* dereferenced: o stands for *z, and                                        *)
(*     p = &a;  q = p or &b;  z = &o;  *z = q;  p = *z;                      *)
(*     w = &b;  *w = z;  x = *p;                                             *)
EXTENDS AndersenWaveDiff

CONSTANTS p, q, w, x, z, a, b, o

MCVar == {p, q, w, x, z}
MCObj == {a, b, o}
MCOffset == {}
MCBaseOf == [t \in MCObj |-> t]
MCFieldOf == <<>>
MCFormal == <<>>

Stmt(k, s, d) == [kind |-> k, src |-> s, dst |-> d, off |-> 0]
MCPrograms == {[stmts |-> {Stmt("addr", a, p), Stmt("addr", b, q), Stmt("addr", o, z),
                           Stmt("addr", b, w), Stmt("copy", p, q), Stmt("store", q, z),
                           Stmt("load", z, p), Stmt("store", z, w), Stmt("load", p, x)},
                calls |-> {}]}
=============================================================================
