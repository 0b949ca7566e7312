--------------------------- MODULE MCClientLink ---------------------------
(* The instances differ only in their constants, which the cfg files give. *)
EXTENDS ClientLink
=============================================================================
