--------------------------- MODULE MCStreamSend ---------------------------
(* Packet sizes for TLC: small, most of and more than the whole buffer.       *)
EXTENDS StreamSend

MCSizes == {1, 2, 4, 6}
=============================================================================
