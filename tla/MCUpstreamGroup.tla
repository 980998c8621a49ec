--------------------------- MODULE MCUpstreamGroup ---------------------------
(* Model-checking instance of UpstreamGroup: two slots, two clients, a      *)
(* policy that trips at the second failure, every mode.                     *)
EXTENDS UpstreamGroup
=============================================================================
