-------------------------- MODULE MCSidecarUpdate --------------------------
(* Three versions: the bundled one, a good candidate and one that is       *)
(* staged twice, with its own executable and with another one.             *)
EXTENDS SidecarUpdate

CONSTANTS v1, v2, v3, good, other, mixed

MCStaged ==
    [c \in Candidate |->
        CASE c = good -> [exe |-> v2, man |-> v2]
          [] c = other -> [exe |-> v3, man |-> v3]
          [] OTHER -> [exe |-> v3, man |-> v2]]

=============================================================================
