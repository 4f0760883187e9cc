-------------------------- MODULE MCPortableLaunch --------------------------
(* One good candidate, one crash, nothing else fails.                      *)
EXTENDS PortableLaunch

CONSTANTS v1, v2, good

MCStaged == [c \in Candidate |-> [exe |-> v2, man |-> v2]]

=============================================================================
