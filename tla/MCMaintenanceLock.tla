------------------------- MODULE MCMaintenanceLock -------------------------
(***************************************************************************)
(* Small instances of MaintenanceLock for TLC.                             *)
(***************************************************************************)
EXTENDS MaintenanceLock, TLC

\* Without requests nothing tells the servers apart.
Sym == Permutations(Server)
=============================================================================
