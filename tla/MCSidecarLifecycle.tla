-------------------------- MODULE MCSidecarLifecycle -------------------------
(* Two routes of the control API overlap: one may wait for the lock,       *)
(* or only ask, while the other holds it and starts or stops the child.    *)
EXTENDS SidecarLifecycle

CONSTANTS c1, c2

=============================================================================
