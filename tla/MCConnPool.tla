----------------------------- MODULE MCConnPool -----------------------------
(* Small instances of ConnPool; no symmetry, as they check liveness.       *)
EXTENDS ConnPool
=============================================================================
