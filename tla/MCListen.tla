----------------------------- MODULE MCListen -----------------------------
(* One peer address, and two connections of which something is left.       *)
EXTENDS Listen

CONSTANTS a1, a2, s1, s2

MCAddrs == {a1}
MCTwoAddrs == {a1, a2}
MCSlots == {s1, s2}
=============================================================================
