---------------------------- MODULE MCProjection ----------------------------
(* Small instances of Projection for TLC. *)
EXTENDS Projection

MCBox(key) == "box"
MCDirect(key) == key = "probe"

=============================================================================
