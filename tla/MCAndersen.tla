---------------------------- MODULE MCAndersen ----------------------------
(* Three families of programs over three pointers: plain statements over a   *)
(* structure and a global; accesses to the two fields of the structure next  *)
(* to the black hole object; and indirect calls of g and s, as functions.    *)
EXTENDS AndersenWaveDiff

CONSTANTS p, q, r, g, s, f0, f1, blk

MCVar == {p, q, r}
MCObj == {g, s, f0, f1, blk}
MCOffset == {1}
MCBaseOf == [o \in MCObj |-> IF o \in {f0, f1} THEN s ELSE o]
\* Offsets are taken modulo the number of fields (getModulusOffset).
MCFieldOf == [x \in MCObj \X MCOffset |->
                CASE x[1] \in {s, f0} -> f1
                  [] x[1] = f1 -> f0
                  [] OTHER -> x[1]]
MCBlk == {blk}
\* The function g returns its parameter; in programs with calls s is a function too.
MCFormal == [o \in {g, s} |-> IF o = g THEN r ELSE p]
MCFunRet == [o \in {g, s} |-> IF o = g THEN r ELSE q]

Edges(k, o) == {[kind |-> k, src |-> x, dst |-> y, off |-> o] : x \in MCVar, y \in MCVar}
Proper(E) == {e \in E : e.src # e.dst}
Accesses == Edges("load", 0) \union Edges("store", 0)
Copies == Proper(Edges("copy", 0))
Address(o, d) == [kind |-> "addr", src |-> o, dst |-> d, off |-> 0]

\* Two addresses taken, a copy, a load or a store, and any third statement.
\* p and q are interchangeable, so the first copy need not start at q.
Plain == {[stmts |-> {Address(s, p), Address(g, q), x, y, z}, calls |-> {}] :
            x \in {e \in Copies : e.src # q}, y \in Accesses, z \in Copies \union Proper(Accesses)}

\* A structure with two fields and the black hole object: a gep with a constant
\* offset; a variable gep, a copy or a load; and a load, a store or a copy.
Fields == {[stmts |-> {Address(s, p), Address(blk, q), x, y, z}, calls |-> {}] :
             x \in {e \in Proper(Edges("ngep", 1)) : e.src = p},
             y \in Proper(Edges("vgep", 0)) \union Copies
                     \union Proper(Edges("load", 0)),
             z \in Accesses \union Copies}

\* The second call may call what the first one returns.
First  == [fp |-> p, arg |-> q, res |-> p]
Second == [fp |-> r, arg |-> p, res |-> q]
Calls == {[stmts |-> {Address(g, p), Address(s, q), x, y}, calls |-> C] :
            x \in Copies, y \in Proper(Accesses), C \in {{First, Second}}}

MCPrograms == Plain \union Fields \union Calls
=============================================================================
