--------------------------- MODULE PortableLaunch ---------------------------
(***************************************************************************)
(* The Sidecar update inside the shipped application.  The portable        *)
(* launcher is the only thing that starts the Supervisor there, and        *)
(* launcher.main validates the installed Sidecar (portable.py,             *)
(* validate_sidecar_install) before it does.                               *)
(***************************************************************************)
EXTENDS SidecarUpdate

(* start.exe: the pair is checked, then the ports, then the Supervisor     *)
(* starts and its lifespan recovers.                                       *)
Launch == Whole(disk) /\ Boot

LaunchNext ==
    \/ \E c \in Candidate : BeginInstall(c)
    \/ BeginRollback \/ Cancel \/ Accept
    \/ Operation
    \/ Launch \/ BootStart
    \/ ApiStart \/ ApiStop \/ SidecarExit
    \/ Crash

(* The user starts the application again whenever it is down.              *)
LaunchSpec ==
    /\ Init /\ [][LaunchNext]_vars
    /\ WF_vars(Operation)
    /\ WF_vars(Launch) /\ WF_vars(BootStart)
    /\ WF_vars(pc = "down" /\ SidecarExit)

(* "test_interrupted_mismatched_pair_is_recovered_from_recorded_backup":   *)
(* a pair that an interrupted update left mismatched is recovered from the *)
(* backup its marker records, once the application is started again.       *)
InterruptedPairIsRecovered ==
    pc = "down" /\ ~Whole(disk) /\ marker # NoMarker ~> Whole(disk)

=============================================================================
