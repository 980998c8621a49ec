--------------------------- MODULE MCHostsReload ---------------------------
(* Small instances of HostsReload.                                         *)
EXTENDS HostsReload

AllLines == {"alias", "ip"}
=============================================================================
