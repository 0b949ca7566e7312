---------------------------- MODULE PacketPipe ----------------------------
(***************************************************************************)
(* What a connection promises to the code above it: the packets the peer   *)
(* sent arrive whole, once and in order, until the connection closes; and  *)
(* as long as it stays open the next packet does arrive.                   *)
(***************************************************************************)
EXTENDS Naturals, Sequences

VARIABLES sent,      \* the packets the peer sent, in order
          received,  \* the packets handed over so far
          closed     \* no packet is handed over any more

vars == <<sent, received, closed>>

Init == /\ received = << >>
        /\ closed = FALSE

\* The next packet is handed over.
Deliver == /\ ~closed
           /\ Len(received) < Len(sent)
           /\ received' = Append(received, sent[Len(received) + 1])
           /\ UNCHANGED <<sent, closed>>

\* The connection ends, with or without packets left to deliver.
Close == /\ ~closed
         /\ closed' = TRUE
         /\ UNCHANGED <<sent, received>>

Next == Deliver \/ Close

Safety == Init /\ [][Next]_vars

Spec == Safety /\ WF_vars(Deliver)
=============================================================================
