----------------------------- MODULE MCServer -----------------------------
(* One or two connections, from addresses of their own or from the same.   *)
EXTENDS Server

CONSTANTS c1, c2, n1, n2

MCOne      == {c1}
MCTwo      == {c1, c2}
MCOneName  == {n1}
MCTwoNames == {n1, n2}

\* Every connection from its own address, named after it.
MCOwnAddr  == [c \in Conns |-> c]
MCSameAddr == [c \in Conns |-> c1]
=============================================================================
