------------------------- MODULE MCClientRequests -------------------------
(* Two concurrent send_request calls.                                      *)
EXTENDS ClientRequests

CONSTANTS c1, c2

MCCalls == {c1, c2}
=============================================================================
