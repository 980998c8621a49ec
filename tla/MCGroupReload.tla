--------------------------- MODULE MCGroupReload ---------------------------
(* Small instances of GroupReload; no symmetry, as they check liveness.    *)
EXTENDS GroupReload
=============================================================================
