------------------------- MODULE MCPortableLauncher -------------------------
(* One start.exe after or beside another in the same directory.            *)
EXTENDS PortableLauncher

CONSTANTS l1, l2

=============================================================================
