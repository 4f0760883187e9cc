------------------------ MODULE PortableLauncherProofs ------------------------
(***************************************************************************)
(* Proofs, for any launchers, attempts and faults, that what a launcher    *)
(* starts finds its files, that it stays unless something dies, that a     *)
(* finished run leaves no child, and that a request of its own time, and   *)
(* no other, ends it.                                                      *)
(*                                                                         *)
(* The mutex is what makes the shutdown marker and the readiness counter,  *)
(* which all launchers share, its holder's own.                            *)
(***************************************************************************)
EXTENDS PortableLauncher, TLAPS

Before == {"lock", "secrets", "write_secrets", "config", "write_config", "migrate",
           "verifier", "ports", "archive"}
NeedsSecrets == {"config", "write_config", "migrate", "verifier", "ports", "archive"}
NeedsConfig == {"migrate", "verifier", "ports", "archive"}
State == {"none", "booting", "up", "exited", "terminated", "stopped"}

(* Whoever is between the lock and the end of the cleanup owns the mutex.  *)
Exclusive == \A l \in Launcher : pc[l] \in Holding => mutex = l

(* What a launcher that gets this far knows of the files it passed.        *)
Prepared ==
    \A l \in Launcher :
       /\ pc[l] \in NeedsSecrets \cup Trying => file["secrets"] = "whole"
       /\ pc[l] \in NeedsConfig \cup Trying => file["config"] = "whole"
       /\ pc[l] = "verifier" => database # "none"
       /\ pc[l] \in {"ports", "archive"} \cup Trying => database = "ready"

(* Children exist only after "archive", the Sidecar only below a           *)
(* Supervisor, and the cleanup takes them in order.                        *)
Owned ==
    \A l \in Launcher :
       /\ pc[l] \in Before \cup {"spawn_supervisor", "joined"} =>
             \A s \in Service : process[l][s] = "none"
       /\ process[l]["supervisor"] = "none" => process[l]["sidecar"] = "none"
       /\ pc[l] \in Trying \cup {"stop_gateway", "stop_supervisor"} =>
             process[l]["supervisor"] # "stopped"
       /\ pc[l] \in {"stop_supervisor", "archive_after", "ended", "failed"} =>
             ~Alive(l, "gateway")
       /\ pc[l] \in {"archive_after", "ended", "failed"} =>
             /\ ~Alive(l, "supervisor")
             /\ Alive(l, "sidecar") => process[l]["supervisor"] \in {"exited", "terminated"}

(* Past "archive" the marker can only be a request of this run's time.     *)
Fresh == \A l \in Launcher : pc[l] \in Trying => marker # "old"

(* A wait that has used up its attempts is over.                           *)
Counting ==
    \A l \in Launcher : pc[l] \in {"wait_supervisor", "wait_gateway"} => tries < Attempts

(* Nothing has died: no child has ended by itself, and only the launcher   *)
(* that owns the mutex has any, so that whoever boots finds its port free. *)
Undisturbed ==
    faults = 0 => \A l \in Launcher, s \in Service :
       /\ process[l][s] \notin {"exited", "terminated"}
       /\ Alive(l, s) => pc[l] \in Trying \cup Cleaning

IInv ==
    /\ TypeOK /\ ServesPreparedState
    /\ Exclusive /\ Prepared /\ Owned /\ Fresh /\ Counting

-----------------------------------------------------------------------------
LEMMA InitIInv == Init => IInv
  BY BoundAssumption
     DEF Init, IInv, TypeOK, ServesPreparedState, Exclusive, Prepared, Owned, Fresh, Counting,
         Alive, Before, NeedsSecrets, NeedsConfig, Holding, Trying, Cleaning, Final, Service, File

LEMMA AcquireStep == ASSUME IInv, NEW l \in Launcher, Acquire(l) PROVE IInv'
  <1> USE DEF Acquire, Goto, File, disk
  <1>1. TypeOK'
    BY BoundAssumption DEF IInv, TypeOK, Service, Counting, Holding, Trying,
       Cleaning, Final
  <1>2. ServesPreparedState'
    BY DEF IInv, TypeOK, ServesPreparedState, Prepared, Whole, Alive, Service, File, Trying
  <1>3. Exclusive'
    BY LauncherAssumption DEF IInv, TypeOK, Exclusive, Holding, Trying, Cleaning, Nobody
  <1>4. Prepared'
    BY DEF IInv, TypeOK, Prepared, File, Trying, Cleaning, NeedsSecrets, NeedsConfig
  <1>5. Owned'
    BY DEF IInv, TypeOK, Owned, Alive, Service, Before, Trying, Cleaning
  <1>6. Fresh'
    BY LauncherAssumption DEF IInv, TypeOK, Fresh, Exclusive, Holding, Trying, Nobody
  <1>7. Counting'
    BY BoundAssumption DEF IInv, TypeOK, Counting, Exclusive, Holding, Trying
  <1> QED
    BY <1>1, <1>2, <1>3, <1>4, <1>5, <1>6, <1>7 DEF IInv

LEMMA JoinStep == ASSUME IInv, NEW l \in Launcher, Join(l) PROVE IInv'
  <1> USE DEF Join, Goto, disk
  <1>1. TypeOK'
    BY BoundAssumption DEF IInv, TypeOK, Service, Counting, Holding, Trying,
       Cleaning, Final
  <1>2. ServesPreparedState'
    BY DEF IInv, TypeOK, ServesPreparedState, Prepared, Whole, Alive, Service, File, Trying
  <1>3. Exclusive'
    BY DEF IInv, TypeOK, Exclusive, Holding, Trying, Cleaning
  <1>4. Prepared'
    BY DEF IInv, TypeOK, Prepared, File, Trying, Cleaning, NeedsSecrets, NeedsConfig
  <1>5. Owned'
    BY DEF IInv, TypeOK, Owned, Alive, Service, Before, Trying, Cleaning
  <1>6. Fresh'
    BY DEF IInv, TypeOK, Fresh, Exclusive, Holding, Trying
  <1>7. Counting'
    BY BoundAssumption DEF IInv, TypeOK, Counting, Exclusive, Holding, Trying
  <1> QED
    BY <1>1, <1>2, <1>3, <1>4, <1>5, <1>6, <1>7 DEF IInv

LEMMA LoadStep == ASSUME IInv, NEW l \in Launcher, NEW f \in File, Load(l, f) PROVE IInv'
  <1> USE DEF Load, Goto, Refuse, Whole, After, File, disk
  <1>1. TypeOK'
    BY BoundAssumption DEF IInv, TypeOK, Service, Counting, Holding, Trying,
       Cleaning, Final
  <1>2. ServesPreparedState'
    BY DEF IInv, TypeOK, ServesPreparedState, Prepared, Whole, Alive, Service, File, Trying
  <1>3. Exclusive'
    BY DEF IInv, TypeOK, Exclusive, Holding, Trying, Cleaning
  <1>4. Prepared'
    BY DEF IInv, TypeOK, Prepared, File, Trying, Cleaning, NeedsSecrets, NeedsConfig
  <1>5. Owned'
    BY DEF IInv, TypeOK, Owned, Alive, Service, Before, Trying, Cleaning
  <1>6. Fresh'
    BY DEF IInv, TypeOK, Fresh, Exclusive, Holding, Trying
  <1>7. Counting'
    BY BoundAssumption DEF IInv, TypeOK, Counting, Exclusive, Holding, Trying
  <1> QED
    BY <1>1, <1>2, <1>3, <1>4, <1>5, <1>6, <1>7 DEF IInv

LEMMA CreateStep == ASSUME IInv, NEW l \in Launcher, NEW f \in File, Create(l, f) PROVE IInv'
  <1> USE DEF Create, Goto, Writing, File, disk
  <1>1. TypeOK'
    BY BoundAssumption DEF IInv, TypeOK, Service, Counting, Holding, Trying,
       Cleaning, Final
  <1>2. ServesPreparedState'
    BY DEF IInv, TypeOK, ServesPreparedState, Prepared, Whole, Alive, Service, File, Trying
  <1>3. Exclusive'
    BY DEF IInv, TypeOK, Exclusive, Holding, Trying, Cleaning
  <1>4. Prepared'
    BY DEF IInv, TypeOK, Prepared, File, Trying, Cleaning, NeedsSecrets, NeedsConfig
  <1>5. Owned'
    BY DEF IInv, TypeOK, Owned, Alive, Service, Before, Trying, Cleaning
  <1>6. Fresh'
    BY DEF IInv, TypeOK, Fresh, Exclusive, Holding, Trying
  <1>7. Counting'
    BY BoundAssumption DEF IInv, TypeOK, Counting, Exclusive, Holding, Trying
  <1> QED
    BY <1>1, <1>2, <1>3, <1>4, <1>5, <1>6, <1>7 DEF IInv

LEMMA WriteStep == ASSUME IInv, NEW l \in Launcher, NEW f \in File, Write(l, f) PROVE IInv'
  <1> USE DEF Write, Goto, Writing, After, File, disk
  <1>1. TypeOK'
    BY BoundAssumption DEF IInv, TypeOK, Service, Counting, Holding, Trying,
       Cleaning, Final
  <1>2. ServesPreparedState'
    BY DEF IInv, TypeOK, ServesPreparedState, Prepared, Whole, Alive, Service, File, Trying
  <1>3. Exclusive'
    BY DEF IInv, TypeOK, Exclusive, Holding, Trying, Cleaning
  <1>4. Prepared'
    BY DEF IInv, TypeOK, Prepared, File, Trying, Cleaning, NeedsSecrets, NeedsConfig
  <1>5. Owned'
    BY DEF IInv, TypeOK, Owned, Alive, Service, Before, Trying, Cleaning
  <1>6. Fresh'
    BY DEF IInv, TypeOK, Fresh, Exclusive, Holding, Trying
  <1>7. Counting'
    BY BoundAssumption DEF IInv, TypeOK, Counting, Exclusive, Holding, Trying
  <1> QED
    BY <1>1, <1>2, <1>3, <1>4, <1>5, <1>6, <1>7 DEF IInv

LEMMA MigrateStep == ASSUME IInv, NEW l \in Launcher, Migrate(l) PROVE IInv'
  <1> USE DEF Migrate, Goto, disk
  <1>1. TypeOK'
    BY BoundAssumption DEF IInv, TypeOK, Service, Counting, Holding, Trying,
       Cleaning, Final
  <1>2. ServesPreparedState'
    BY DEF IInv, TypeOK, ServesPreparedState, Prepared, Whole, Alive, Service, File, Trying
  <1>3. Exclusive'
    BY DEF IInv, TypeOK, Exclusive, Holding, Trying, Cleaning
  <1>4. Prepared'
    BY DEF IInv, TypeOK, Prepared, File, Trying, Cleaning, NeedsSecrets, NeedsConfig
  <1>5. Owned'
    BY DEF IInv, TypeOK, Owned, Alive, Service, Before, Trying, Cleaning
  <1>6. Fresh'
    BY DEF IInv, TypeOK, Fresh, Exclusive, Holding, Trying
  <1>7. Counting'
    BY BoundAssumption DEF IInv, TypeOK, Counting, Exclusive, Holding, Trying
  <1> QED
    BY <1>1, <1>2, <1>3, <1>4, <1>5, <1>6, <1>7 DEF IInv

LEMMA VerifierStep == ASSUME IInv, NEW l \in Launcher, Verifier(l) PROVE IInv'
  <1> USE DEF Verifier, Goto, disk
  <1>1. TypeOK'
    BY BoundAssumption DEF IInv, TypeOK, Service, Counting, Holding, Trying,
       Cleaning, Final
  <1>2. ServesPreparedState'
    BY DEF IInv, TypeOK, ServesPreparedState, Prepared, Whole, Alive, Service, File, Trying
  <1>3. Exclusive'
    BY DEF IInv, TypeOK, Exclusive, Holding, Trying, Cleaning
  <1>4. Prepared'
    BY DEF IInv, TypeOK, Prepared, File, Trying, Cleaning, NeedsSecrets, NeedsConfig
  <1>5. Owned'
    BY DEF IInv, TypeOK, Owned, Alive, Service, Before, Trying, Cleaning
  <1>6. Fresh'
    BY DEF IInv, TypeOK, Fresh, Exclusive, Holding, Trying
  <1>7. Counting'
    BY BoundAssumption DEF IInv, TypeOK, Counting, Exclusive, Holding, Trying
  <1> QED
    BY <1>1, <1>2, <1>3, <1>4, <1>5, <1>6, <1>7 DEF IInv

LEMMA CheckPortsStep == ASSUME IInv, NEW l \in Launcher, CheckPorts(l) PROVE IInv'
  <1> USE DEF CheckPorts, Goto, Refuse, disk
  <1>1. TypeOK'
    BY BoundAssumption DEF IInv, TypeOK, Service, Counting, Holding, Trying,
       Cleaning, Final
  <1>2. ServesPreparedState'
    BY DEF IInv, TypeOK, ServesPreparedState, Prepared, Whole, Alive, Service, File, Trying
  <1>3. Exclusive'
    BY DEF IInv, TypeOK, Exclusive, Holding, Trying, Cleaning
  <1>4. Prepared'
    BY DEF IInv, TypeOK, Prepared, File, Trying, Cleaning, NeedsSecrets, NeedsConfig
  <1>5. Owned'
    BY DEF IInv, TypeOK, Owned, Alive, Service, Before, Trying, Cleaning
  <1>6. Fresh'
    BY DEF IInv, TypeOK, Fresh, Exclusive, Holding, Trying
  <1>7. Counting'
    BY BoundAssumption DEF IInv, TypeOK, Counting, Exclusive, Holding, Trying
  <1> QED
    BY <1>1, <1>2, <1>3, <1>4, <1>5, <1>6, <1>7 DEF IInv

LEMMA ArchiveStep == ASSUME IInv, NEW l \in Launcher, Archive(l) PROVE IInv'
  <1> USE DEF Archive, Goto, disk
  <1>1. TypeOK'
    BY BoundAssumption DEF IInv, TypeOK, Service, Counting, Holding, Trying,
       Cleaning, Final
  <1>2. ServesPreparedState'
    BY DEF IInv, TypeOK, ServesPreparedState, Prepared, Whole, Alive, Service, File, Trying
  <1>3. Exclusive'
    BY DEF IInv, TypeOK, Exclusive, Holding, Trying, Cleaning
  <1>4. Prepared'
    BY DEF IInv, TypeOK, Prepared, File, Trying, Cleaning, NeedsSecrets, NeedsConfig
  <1>5. Owned'
    BY DEF IInv, TypeOK, Owned, Alive, Service, Before, Trying, Cleaning
  <1>6. Fresh'
    BY DEF IInv, TypeOK, Fresh, Exclusive, Holding, Trying
  <1>7. Counting'
    BY BoundAssumption DEF IInv, TypeOK, Counting, Exclusive, Holding, Trying
  <1> QED
    BY <1>1, <1>2, <1>3, <1>4, <1>5, <1>6, <1>7 DEF IInv

LEMMA SpawnStep == ASSUME IInv, NEW l \in Launcher, NEW s \in DOMAIN Waiting,
                     Spawn(l, s) PROVE IInv'
  <1> USE DEF Spawn, Goto, Waiting, disk
  <1>1. TypeOK'
    BY BoundAssumption DEF IInv, TypeOK, Service, Counting, Holding, Trying,
       Cleaning, Final
  <1>2. ServesPreparedState'
    BY DEF IInv, TypeOK, ServesPreparedState, Prepared, Whole, Alive, Service, File, Trying
  <1>3. Exclusive'
    BY DEF IInv, TypeOK, Exclusive, Holding, Trying, Cleaning
  <1>4. Prepared'
    BY DEF IInv, TypeOK, Prepared, File, Trying, Cleaning, NeedsSecrets, NeedsConfig
  <1>5. Owned'
    BY DEF IInv, TypeOK, Owned, Alive, Service, Before, Trying, Cleaning
  <1>6. Fresh'
    BY DEF IInv, TypeOK, Fresh, Exclusive, Holding, Trying
  <1>7. Counting'
    BY BoundAssumption DEF IInv, TypeOK, Counting, Exclusive, Holding, Trying
  <1> QED
    BY <1>1, <1>2, <1>3, <1>4, <1>5, <1>6, <1>7 DEF IInv

LEMMA SpawnRaisesStep == ASSUME IInv, NEW l \in Launcher, SpawnRaises(l) PROVE IInv'
  <1> USE DEF SpawnRaises, Goto, Leave, disk
  <1>1. TypeOK'
    BY BoundAssumption DEF IInv, TypeOK, Service, Counting, Holding, Trying,
       Cleaning, Final
  <1>2. ServesPreparedState'
    BY DEF IInv, TypeOK, ServesPreparedState, Prepared, Whole, Alive, Service, File, Trying
  <1>3. Exclusive'
    BY DEF IInv, TypeOK, Exclusive, Holding, Trying, Cleaning
  <1>4. Prepared'
    BY DEF IInv, TypeOK, Prepared, File, Trying, Cleaning, NeedsSecrets, NeedsConfig
  <1>5. Owned'
    BY DEF IInv, TypeOK, Owned, Alive, Service, Before, Trying, Cleaning
  <1>6. Fresh'
    BY DEF IInv, TypeOK, Fresh, Exclusive, Holding, Trying
  <1>7. Counting'
    BY BoundAssumption DEF IInv, TypeOK, Counting, Exclusive, Holding, Trying
  <1> QED
    BY <1>1, <1>2, <1>3, <1>4, <1>5, <1>6, <1>7 DEF IInv

LEMMA WaitReadyStep == ASSUME IInv, NEW l \in Launcher, NEW s \in DOMAIN Waiting,
                     WaitReady(l, s) PROVE IInv'
  <1> USE DEF WaitReady, Goto, Waiting, disk
  <1>1. TypeOK'
    BY BoundAssumption DEF IInv, TypeOK, Service, Counting, Holding, Trying,
       Cleaning, Final
  <1>2. ServesPreparedState'
    BY DEF IInv, TypeOK, ServesPreparedState, Prepared, Whole, Alive, Service, File, Trying
  <1>3. Exclusive'
    BY DEF IInv, TypeOK, Exclusive, Holding, Trying, Cleaning
  <1>4. Prepared'
    BY DEF IInv, TypeOK, Prepared, File, Trying, Cleaning, NeedsSecrets, NeedsConfig
  <1>5. Owned'
    BY DEF IInv, TypeOK, Owned, Alive, Service, Before, Trying, Cleaning
  <1>6. Fresh'
    BY DEF IInv, TypeOK, Fresh, Exclusive, Holding, Trying
  <1>7. Counting'
    BY BoundAssumption DEF IInv, TypeOK, Counting, Exclusive, Holding, Trying
  <1> QED
    BY <1>1, <1>2, <1>3, <1>4, <1>5, <1>6, <1>7 DEF IInv

LEMMA WaitAgainStep == ASSUME IInv, NEW l \in Launcher, NEW s \in DOMAIN Waiting,
                     WaitAgain(l, s) PROVE IInv'
  <1> USE DEF WaitAgain, Goto, Waiting, Leave, disk
  <1>1. TypeOK'
    BY BoundAssumption DEF IInv, TypeOK, Service, Counting, Holding, Trying,
       Cleaning, Final
  <1>2. ServesPreparedState'
    BY DEF IInv, TypeOK, ServesPreparedState, Prepared, Whole, Alive, Service, File, Trying
  <1>3. Exclusive'
    BY DEF IInv, TypeOK, Exclusive, Holding, Trying, Cleaning
  <1>4. Prepared'
    BY DEF IInv, TypeOK, Prepared, File, Trying, Cleaning, NeedsSecrets, NeedsConfig
  <1>5. Owned'
    BY DEF IInv, TypeOK, Owned, Alive, Service, Before, Trying, Cleaning
  <1>6. Fresh'
    BY DEF IInv, TypeOK, Fresh, Exclusive, Holding, Trying
  <1>7. Counting'
    BY BoundAssumption DEF IInv, TypeOK, Counting, Exclusive, Holding, Trying
  <1> QED
    BY <1>1, <1>2, <1>3, <1>4, <1>5, <1>6, <1>7 DEF IInv

LEMMA WaitExitedStep == ASSUME IInv, NEW l \in Launcher, NEW s \in DOMAIN Waiting,
                     WaitExited(l, s) PROVE IInv'
  <1> USE DEF WaitExited, Goto, Waiting, Leave, disk
  <1>1. TypeOK'
    BY BoundAssumption DEF IInv, TypeOK, Service, Counting, Holding, Trying,
       Cleaning, Final
  <1>2. ServesPreparedState'
    BY DEF IInv, TypeOK, ServesPreparedState, Prepared, Whole, Alive, Service, File, Trying
  <1>3. Exclusive'
    BY DEF IInv, TypeOK, Exclusive, Holding, Trying, Cleaning
  <1>4. Prepared'
    BY DEF IInv, TypeOK, Prepared, File, Trying, Cleaning, NeedsSecrets, NeedsConfig
  <1>5. Owned'
    BY DEF IInv, TypeOK, Owned, Alive, Service, Before, Trying, Cleaning
  <1>6. Fresh'
    BY DEF IInv, TypeOK, Fresh, Exclusive, Holding, Trying
  <1>7. Counting'
    BY BoundAssumption DEF IInv, TypeOK, Counting, Exclusive, Holding, Trying
  <1> QED
    BY <1>1, <1>2, <1>3, <1>4, <1>5, <1>6, <1>7 DEF IInv

LEMMA WatchMarkerStep == ASSUME IInv, NEW l \in Launcher, WatchMarker(l) PROVE IInv'
  <1> USE DEF WatchMarker, Goto, Leave, disk
  <1>1. TypeOK'
    BY BoundAssumption DEF IInv, TypeOK, Service, Counting, Holding, Trying,
       Cleaning, Final
  <1>2. ServesPreparedState'
    BY DEF IInv, TypeOK, ServesPreparedState, Prepared, Whole, Alive, Service, File, Trying
  <1>3. Exclusive'
    BY DEF IInv, TypeOK, Exclusive, Holding, Trying, Cleaning
  <1>4. Prepared'
    BY DEF IInv, TypeOK, Prepared, File, Trying, Cleaning, NeedsSecrets, NeedsConfig
  <1>5. Owned'
    BY DEF IInv, TypeOK, Owned, Alive, Service, Before, Trying, Cleaning
  <1>6. Fresh'
    BY DEF IInv, TypeOK, Fresh, Exclusive, Holding, Trying
  <1>7. Counting'
    BY BoundAssumption DEF IInv, TypeOK, Counting, Exclusive, Holding, Trying
  <1> QED
    BY <1>1, <1>2, <1>3, <1>4, <1>5, <1>6, <1>7 DEF IInv

LEMMA WatchSupervisorStep == ASSUME IInv, NEW l \in Launcher, WatchSupervisor(l) PROVE IInv'
  <1> USE DEF WatchSupervisor, Goto, Leave, disk
  <1>1. TypeOK'
    BY BoundAssumption DEF IInv, TypeOK, Service, Counting, Holding, Trying,
       Cleaning, Final
  <1>2. ServesPreparedState'
    BY DEF IInv, TypeOK, ServesPreparedState, Prepared, Whole, Alive, Service, File, Trying
  <1>3. Exclusive'
    BY DEF IInv, TypeOK, Exclusive, Holding, Trying, Cleaning
  <1>4. Prepared'
    BY DEF IInv, TypeOK, Prepared, File, Trying, Cleaning, NeedsSecrets, NeedsConfig
  <1>5. Owned'
    BY DEF IInv, TypeOK, Owned, Alive, Service, Before, Trying, Cleaning
  <1>6. Fresh'
    BY DEF IInv, TypeOK, Fresh, Exclusive, Holding, Trying
  <1>7. Counting'
    BY BoundAssumption DEF IInv, TypeOK, Counting, Exclusive, Holding, Trying
  <1> QED
    BY <1>1, <1>2, <1>3, <1>4, <1>5, <1>6, <1>7 DEF IInv

LEMMA WatchGatewayStep == ASSUME IInv, NEW l \in Launcher, WatchGateway(l) PROVE IInv'
  <1> USE DEF WatchGateway, Goto, disk
  <1>1. TypeOK'
    BY BoundAssumption DEF IInv, TypeOK, Service, Counting, Holding, Trying,
       Cleaning, Final
  <1>2. ServesPreparedState'
    BY DEF IInv, TypeOK, ServesPreparedState, Prepared, Whole, Alive, Service, File, Trying
  <1>3. Exclusive'
    BY DEF IInv, TypeOK, Exclusive, Holding, Trying, Cleaning
  <1>4. Prepared'
    BY DEF IInv, TypeOK, Prepared, File, Trying, Cleaning, NeedsSecrets, NeedsConfig
  <1>5. Owned'
    BY DEF IInv, TypeOK, Owned, Alive, Service, Before, Trying, Cleaning
  <1>6. Fresh'
    BY DEF IInv, TypeOK, Fresh, Exclusive, Holding, Trying
  <1>7. Counting'
    BY BoundAssumption DEF IInv, TypeOK, Counting, Exclusive, Holding, Trying
  <1> QED
    BY <1>1, <1>2, <1>3, <1>4, <1>5, <1>6, <1>7 DEF IInv

LEMMA InterruptStep == ASSUME IInv, NEW l \in Launcher, Interrupt(l) PROVE IInv'
  <1> USE DEF Interrupt, Goto, Leave, disk
  <1>1. TypeOK'
    BY BoundAssumption DEF IInv, TypeOK, Service, Counting, Holding, Trying,
       Cleaning, Final
  <1>2. ServesPreparedState'
    BY DEF IInv, TypeOK, ServesPreparedState, Prepared, Whole, Alive, Service, File, Trying
  <1>3. Exclusive'
    BY DEF IInv, TypeOK, Exclusive, Holding, Trying, Cleaning
  <1>4. Prepared'
    BY DEF IInv, TypeOK, Prepared, File, Trying, Cleaning, NeedsSecrets, NeedsConfig
  <1>5. Owned'
    BY DEF IInv, TypeOK, Owned, Alive, Service, Before, Trying, Cleaning
  <1>6. Fresh'
    BY DEF IInv, TypeOK, Fresh, Exclusive, Holding, Trying
  <1>7. Counting'
    BY BoundAssumption DEF IInv, TypeOK, Counting, Exclusive, Holding, Trying
  <1> QED
    BY <1>1, <1>2, <1>3, <1>4, <1>5, <1>6, <1>7 DEF IInv

LEMMA StopGatewayStep == ASSUME IInv, NEW l \in Launcher, StopGateway(l) PROVE IInv'
  <1> USE DEF StopGateway, Goto, disk
  <1>1. TypeOK'
    BY BoundAssumption DEF IInv, TypeOK, Service, Counting, Holding, Trying,
       Cleaning, Final
  <1>2. ServesPreparedState'
    BY DEF IInv, TypeOK, ServesPreparedState, Prepared, Whole, Alive, Service, File, Trying
  <1>3. Exclusive'
    BY DEF IInv, TypeOK, Exclusive, Holding, Trying, Cleaning
  <1>4. Prepared'
    BY DEF IInv, TypeOK, Prepared, File, Trying, Cleaning, NeedsSecrets, NeedsConfig
  <1>5. Owned'
    BY DEF IInv, TypeOK, Owned, Alive, Service, Before, Trying, Cleaning
  <1>6. Fresh'
    BY DEF IInv, TypeOK, Fresh, Exclusive, Holding, Trying
  <1>7. Counting'
    BY BoundAssumption DEF IInv, TypeOK, Counting, Exclusive, Holding, Trying
  <1> QED
    BY <1>1, <1>2, <1>3, <1>4, <1>5, <1>6, <1>7 DEF IInv

LEMMA StopSupervisorStep == ASSUME IInv, NEW l \in Launcher, StopSupervisor(l) PROVE IInv'
  <1> USE DEF StopSupervisor, Goto, disk
  <1>1. TypeOK'
    BY BoundAssumption DEF IInv, TypeOK, Service, Counting, Holding, Trying,
       Cleaning, Final
  <1>2. ServesPreparedState'
    BY DEF IInv, TypeOK, ServesPreparedState, Prepared, Whole, Alive, Service, File, Trying
  <1>3. Exclusive'
    BY DEF IInv, TypeOK, Exclusive, Holding, Trying, Cleaning
  <1>4. Prepared'
    BY DEF IInv, TypeOK, Prepared, File, Trying, Cleaning, NeedsSecrets, NeedsConfig
  <1>5. Owned'
    <2>1. process \in [Launcher -> [Service -> State]] /\ pc[l] = "stop_supervisor" /\ Owned
      BY DEF IInv, TypeOK, State
    <2>2. ASSUME NEW k \in Launcher, k # l
          PROVE  process'[k] = process[k] /\ pc'[k] = pc[k]
      BY <2>1, <2>2 DEF IInv, TypeOK
    <2>3. /\ pc'[l] = "archive_after" /\ process'[l]["gateway"] = process[l]["gateway"]
          /\ ~Alive(l, "supervisor")'
      BY <2>1 DEF Alive, Service, State, IInv, TypeOK
    <2>4. /\ Alive(l, "sidecar")' => process'[l]["supervisor"] \in {"exited", "terminated"}
          /\ process'[l]["supervisor"] = "none" => process'[l]["sidecar"] = "none"
      <3>1. ASSUME process' = [process EXCEPT ![l]["supervisor"] = "stopped",
                                 ![l]["sidecar"] = IF Alive(l, "sidecar") THEN "stopped" ELSE @]
            PROVE  ~Alive(l, "sidecar")' /\ process'[l]["supervisor"] # "none"
        BY <2>1, <3>1 DEF Alive, Service
      <3>2. ASSUME process' = [process EXCEPT ![l]["supervisor"] = "terminated"]
            PROVE  process'[l]["supervisor"] = "terminated"
        BY <2>1, <3>2 DEF Service
      <3>3. ASSUME UNCHANGED process, ~Alive(l, "supervisor"), Alive(l, "sidecar")
            PROVE  process[l]["supervisor"] \in {"exited", "terminated"}
        BY <2>1, <3>3 DEF Alive, Owned, Service, State
      <3> QED
        BY <2>1, <3>1, <3>2, <3>3 DEF Alive, Owned
    <2> QED
      BY <2>1, <2>2, <2>3, <2>4 DEF Owned, Alive, Before, Trying
  <1>6. Fresh'
    BY DEF IInv, TypeOK, Fresh, Exclusive, Holding, Trying
  <1>7. Counting'
    BY BoundAssumption DEF IInv, TypeOK, Counting, Exclusive, Holding, Trying
  <1> QED
    BY <1>1, <1>2, <1>3, <1>4, <1>5, <1>6, <1>7 DEF IInv

LEMMA ArchiveAfterStep == ASSUME IInv, NEW l \in Launcher, ArchiveAfter(l) PROVE IInv'
  <1> USE DEF ArchiveAfter, Goto, disk
  <1>1. TypeOK'
    BY BoundAssumption DEF IInv, TypeOK, Service, Counting, Holding, Trying,
       Cleaning, Final
  <1>2. ServesPreparedState'
    BY DEF IInv, TypeOK, ServesPreparedState, Prepared, Whole, Alive, Service, File, Trying
  <1>3. Exclusive'
    BY DEF IInv, TypeOK, Exclusive, Holding, Trying, Cleaning
  <1>4. Prepared'
    BY DEF IInv, TypeOK, Prepared, File, Trying, Cleaning, NeedsSecrets, NeedsConfig
  <1>5. Owned'
    BY DEF IInv, TypeOK, Owned, Alive, Service, Before, Trying, Cleaning
  <1>6. Fresh'
    BY DEF IInv, TypeOK, Fresh, Exclusive, Holding, Trying
  <1>7. Counting'
    BY BoundAssumption DEF IInv, TypeOK, Counting, Exclusive, Holding, Trying
  <1> QED
    BY <1>1, <1>2, <1>3, <1>4, <1>5, <1>6, <1>7 DEF IInv

LEMMA CutStep == ASSUME IInv, NEW l \in Launcher, Cut(l) PROVE IInv'
  <1> USE DEF Cut, Goto, disk
  <1>1. TypeOK'
    BY BoundAssumption DEF IInv, TypeOK, Service, Counting, Holding, Trying,
       Cleaning, Final
  <1>2. ServesPreparedState'
    BY DEF IInv, TypeOK, ServesPreparedState, Prepared, Whole, Alive, Service, File, Trying
  <1>3. Exclusive'
    BY DEF IInv, TypeOK, Exclusive, Holding, Trying, Cleaning
  <1>4. Prepared'
    BY DEF IInv, TypeOK, Prepared, File, Trying, Cleaning, NeedsSecrets, NeedsConfig
  <1>5. Owned'
    BY DEF IInv, TypeOK, Owned, Alive, Service, Before, Trying, Cleaning
  <1>6. Fresh'
    BY DEF IInv, TypeOK, Fresh, Exclusive, Holding, Trying
  <1>7. Counting'
    BY BoundAssumption DEF IInv, TypeOK, Counting, Exclusive, Holding, Trying
  <1> QED
    BY <1>1, <1>2, <1>3, <1>4, <1>5, <1>6, <1>7 DEF IInv

LEMMA StartSidecarStep == ASSUME IInv, NEW l \in Launcher, StartSidecar(l) PROVE IInv'
  <1> USE DEF StartSidecar, Goto, disk
  <1>1. TypeOK'
    BY BoundAssumption DEF IInv, TypeOK, Service, Counting, Holding, Trying,
       Cleaning, Final
  <1>2. ServesPreparedState'
    BY DEF IInv, TypeOK, ServesPreparedState, Prepared, Whole, Alive, Service, File, Trying
  <1>3. Exclusive'
    BY DEF IInv, TypeOK, Exclusive, Holding, Trying, Cleaning
  <1>4. Prepared'
    BY DEF IInv, TypeOK, Prepared, File, Trying, Cleaning, NeedsSecrets, NeedsConfig
  <1>5. Owned'
    BY DEF IInv, TypeOK, Owned, Alive, Service, Before, Trying, Cleaning
  <1>6. Fresh'
    BY DEF IInv, TypeOK, Fresh, Exclusive, Holding, Trying
  <1>7. Counting'
    BY BoundAssumption DEF IInv, TypeOK, Counting, Exclusive, Holding, Trying
  <1> QED
    BY <1>1, <1>2, <1>3, <1>4, <1>5, <1>6, <1>7 DEF IInv

LEMMA ComeUpStep == ASSUME IInv, NEW l \in Launcher, NEW s \in Service, ComeUp(l, s) PROVE IInv'
  <1> USE DEF ComeUp, Goto, disk
  <1>1. TypeOK'
    BY BoundAssumption DEF IInv, TypeOK, Service, Counting, Holding, Trying,
       Cleaning, Final
  <1>2. ServesPreparedState'
    BY DEF IInv, TypeOK, ServesPreparedState, Prepared, Whole, Alive, Service, File, Trying
  <1>3. Exclusive'
    BY DEF IInv, TypeOK, Exclusive, Holding, Trying, Cleaning
  <1>4. Prepared'
    BY DEF IInv, TypeOK, Prepared, File, Trying, Cleaning, NeedsSecrets, NeedsConfig
  <1>5. Owned'
    BY DEF IInv, TypeOK, Owned, Alive, Service, Before, Trying, Cleaning
  <1>6. Fresh'
    BY DEF IInv, TypeOK, Fresh, Exclusive, Holding, Trying
  <1>7. Counting'
    BY BoundAssumption DEF IInv, TypeOK, Counting, Exclusive, Holding, Trying
  <1> QED
    BY <1>1, <1>2, <1>3, <1>4, <1>5, <1>6, <1>7 DEF IInv

LEMMA RequestShutdownStep == ASSUME IInv, NEW l \in Launcher, RequestShutdown(l) PROVE IInv'
  <1> USE DEF RequestShutdown, Goto, disk
  <1>1. TypeOK'
    BY BoundAssumption DEF IInv, TypeOK, Service, Counting, Holding, Trying,
       Cleaning, Final
  <1>2. ServesPreparedState'
    BY DEF IInv, TypeOK, ServesPreparedState, Prepared, Whole, Alive, Service, File, Trying
  <1>3. Exclusive'
    BY DEF IInv, TypeOK, Exclusive, Holding, Trying, Cleaning
  <1>4. Prepared'
    BY DEF IInv, TypeOK, Prepared, File, Trying, Cleaning, NeedsSecrets, NeedsConfig
  <1>5. Owned'
    BY DEF IInv, TypeOK, Owned, Alive, Service, Before, Trying, Cleaning
  <1>6. Fresh'
    BY DEF IInv, TypeOK, Fresh, Exclusive, Holding, Trying
  <1>7. Counting'
    BY BoundAssumption DEF IInv, TypeOK, Counting, Exclusive, Holding, Trying
  <1> QED
    BY <1>1, <1>2, <1>3, <1>4, <1>5, <1>6, <1>7 DEF IInv

LEMMA ExitStep == ASSUME IInv, NEW l \in Launcher, NEW s \in Service, Exit(l, s) PROVE IInv'
  <1> USE DEF Exit, Goto, disk
  <1>1. TypeOK'
    BY BoundAssumption DEF IInv, TypeOK, Service, Counting, Holding, Trying,
       Cleaning, Final
  <1>2. ServesPreparedState'
    BY DEF IInv, TypeOK, ServesPreparedState, Prepared, Whole, Alive, Service, File, Trying
  <1>3. Exclusive'
    BY DEF IInv, TypeOK, Exclusive, Holding, Trying, Cleaning
  <1>4. Prepared'
    BY DEF IInv, TypeOK, Prepared, File, Trying, Cleaning, NeedsSecrets, NeedsConfig
  <1>5. Owned'
    BY DEF IInv, TypeOK, Owned, Alive, Service, Before, Trying, Cleaning
  <1>6. Fresh'
    BY DEF IInv, TypeOK, Fresh, Exclusive, Holding, Trying
  <1>7. Counting'
    BY BoundAssumption DEF IInv, TypeOK, Counting, Exclusive, Holding, Trying
  <1> QED
    BY <1>1, <1>2, <1>3, <1>4, <1>5, <1>6, <1>7 DEF IInv

LEMMA KillStep == ASSUME IInv, NEW l \in Launcher, Kill(l) PROVE IInv'
  <1> USE DEF Kill, Goto, disk
  <1>1. TypeOK'
    BY BoundAssumption DEF IInv, TypeOK, Service, Counting, Holding, Trying,
       Cleaning, Final
  <1>2. ServesPreparedState'
    BY DEF IInv, TypeOK, ServesPreparedState, Prepared, Whole, Alive, Service, File, Trying
  <1>3. Exclusive'
    BY DEF IInv, TypeOK, Exclusive, Holding, Trying, Cleaning
  <1>4. Prepared'
    BY DEF IInv, TypeOK, Prepared, File, Trying, Cleaning, NeedsSecrets, NeedsConfig
  <1>5. Owned'
    BY DEF IInv, TypeOK, Owned, Alive, Service, Before, Trying, Cleaning
  <1>6. Fresh'
    BY DEF IInv, TypeOK, Fresh, Exclusive, Holding, Trying
  <1>7. Counting'
    BY BoundAssumption DEF IInv, TypeOK, Counting, Exclusive, Holding, Trying
  <1> QED
    BY <1>1, <1>2, <1>3, <1>4, <1>5, <1>6, <1>7 DEF IInv

LEMMA NextIInv == IInv /\ [Next]_vars => IInv'
  <1> SUFFICES ASSUME IInv, [Next]_vars PROVE IInv'
    OBVIOUS
  <1>1. ASSUME NEW l \in Launcher, Step(l) PROVE IInv'
    <2>1. "secrets" \in File /\ "config" \in File
      BY DEF File
    <2> QED
      BY <1>1, <2>1, AcquireStep, JoinStep, LoadStep, CreateStep, WriteStep, MigrateStep,
         VerifierStep, CheckPortsStep, ArchiveStep, SpawnStep, WaitReadyStep, WaitAgainStep,
         WaitExitedStep, WatchMarkerStep, WatchSupervisorStep, WatchGatewayStep,
         StopGatewayStep, StopSupervisorStep, ArchiveAfterStep
         DEF Step, LoadOrCreateSecrets, WriteSidecarConfig
  <1>2. ASSUME NEW l \in Launcher, Environment(l) PROVE IInv'
    BY <1>2, SpawnRaisesStep, InterruptStep, CutStep, KillStep, StartSidecarStep,
       RequestShutdownStep, ComeUpStep, ExitStep DEF Environment
  <1>3. CASE UNCHANGED vars
    BY <1>3 DEF vars, disk, IInv, TypeOK, ServesPreparedState, Exclusive, Prepared, Owned,
       Fresh, Counting, Whole, Alive
  <1> QED
    BY <1>1, <1>2, <1>3 DEF Next

LEMMA Invariance == Spec => []IInv
  BY InitIInv, NextIInv, PTL DEF Spec

-----------------------------------------------------------------------------
(* Every variable of the launchers and their children keeps its type.      *)
THEOREM TypeCorrect == Spec => []TypeOK
  <1>1. IInv => TypeOK
    BY DEF IInv
  <1> QED
    BY <1>1, Invariance, PTL

(* Wherever launchers are killed while they prepare the directory, no      *)
(* service is ever started over an empty file or an unfinished database.   *)
THEOREM ServesOnlyPreparedState == Spec => []ServesPreparedState
  <1>1. IInv => ServesPreparedState
    BY DEF IInv
  <1> QED
    BY <1>1, Invariance, PTL

(* However its children come up, exit and are restarted, a launcher whose  *)
(* run and cleanup ended left no child but an orphaned Sidecar.            *)
THEOREM TreeIsStopped == Spec => []StopsItsTree
  <1>1. IInv => StopsItsTree
    BY DEF IInv, Owned, StopsItsTree
  <1> QED
    BY <1>1, Invariance, PTL

(* A marker left by an earlier run, or by a killed one, ends no later run. *)
THEOREM OwnRequestEnds == Spec => OnlyOwnRequestEnds
  <1>1. IInv /\ [Next]_vars =>
          [\A l \in Launcher :
             result[l] # "asked" /\ result'[l] = "asked" => marker = "new"]_vars
    <2> SUFFICES ASSUME IInv, Next, NEW k \in Launcher,
                        result[k] # "asked", result'[k] = "asked"
        PROVE  marker = "new"
      OBVIOUS
    <2>1. result \in [Launcher -> {"none", "asked", "error", "interrupted"}]
          /\ marker \in {"none", "old", "new"} /\ Fresh
      BY DEF IInv, TypeOK
    <2>2. ASSUME NEW l \in Launcher, NEW why \in {"error", "interrupted"}, Leave(l, why)
          PROVE  FALSE
      BY <2>1, <2>2 DEF Leave
    <2>3. ASSUME NEW l \in Launcher, WatchMarker(l) PROVE marker = "new"
      BY <2>1, <2>3 DEF WatchMarker, Leave, Fresh, Trying
    <2>4. ASSUME UNCHANGED result PROVE FALSE
      BY <2>4
    <2>5. ASSUME NEW l \in Launcher, Step(l) PROVE marker = "new"
      BY <2>2, <2>3, <2>4, <2>5
         DEF Step, Acquire, Join, LoadOrCreateSecrets, WriteSidecarConfig, Load, Create, Write,
             Migrate, Verifier, CheckPorts, Archive, Spawn, WaitReady, WaitAgain, WaitExited,
             WatchSupervisor, WatchGateway, StopGateway, StopSupervisor, ArchiveAfter
    <2>6. ASSUME NEW l \in Launcher, Environment(l) PROVE marker = "new"
      BY <2>2, <2>4, <2>6
         DEF Environment, SpawnRaises, Interrupt, Cut, Kill, StartSidecar, RequestShutdown,
             ComeUp, Exit
    <2> QED
      BY <2>5, <2>6 DEF Next
  <1> QED
    BY <1>1, Invariance, PTL DEF Spec, OnlyOwnRequestEnds
-----------------------------------------------------------------------------
(* Every service is given the settings it needs.                           *)
LEMMA AllConfigured == \A s \in Service : Configured(s)
  BY DEF Configured, Required, ServiceEnvironment, RuntimeEnvironment, Service

(* While nothing has died, a service that boots finds its port free: the   *)
(* child bound to it would be the mutex owner's, like the one that boots.  *)
LEMMA PortIsFree ==
    ASSUME IInv, Undisturbed, faults = 0, NEW l \in Launcher, NEW s \in Service,
           process[l][s] = "booting"
    PROVE  ~Bound(s)
  <1>1. \A k \in Launcher : Alive(k, s) => pc[k] \in Holding
    BY DEF Undisturbed, Holding
  <1>2. \A k \in Launcher : Alive(k, s) => k = l
    BY <1>1 DEF IInv, Exclusive, Alive
  <1> QED
    BY <1>2 DEF Bound, Alive

LEMMA StepUndisturbed ==
    ASSUME IInv, Undisturbed, NEW l \in Launcher, Step(l)
    PROVE  Undisturbed'
  <1>1. /\ process \in [Launcher -> [Service -> State]]
        /\ pc \in [Launcher -> {"lock"} \cup Holding \cup Final]
        /\ faults \in Nat /\ Owned
    BY DEF IInv, TypeOK, State
  <1>2. ASSUME UNCHANGED <<process, faults>>, NEW at, Goto(l, at),
               \/ pc[l] \notin Trying \cup Cleaning
               \/ at \in Trying \cup Cleaning
        PROVE  Undisturbed'
    BY <1>1, <1>2 DEF Undisturbed, Goto, Alive
  <1>3. CASE Acquire(l) \/ Join(l)
    BY <1>2, <1>3 DEF Acquire, Join, Trying, Cleaning, disk
  <1>4. ASSUME NEW f \in File, Load(l, f) \/ Create(l, f) \/ Write(l, f)
        PROVE  Undisturbed'
    <2>1. pc[l] \notin Trying \cup Cleaning
      BY <1>4 DEF Load, Create, Write, Trying, Cleaning, Writing, File
    <2> QED
      BY <1>2, <1>4, <2>1 DEF Load, Create, Write, Refuse
  <1>5. CASE Migrate(l) \/ Verifier(l) \/ CheckPorts(l) \/ Archive(l)
    BY <1>2, <1>5 DEF Migrate, Verifier, CheckPorts, Archive, Refuse, Trying, Cleaning
  <1>6. ASSUME NEW s \in DOMAIN Waiting, Spawn(l, s)
        PROVE  Undisturbed'
    <2>1. process' = [process EXCEPT ![l][s] = "booting"] /\ UNCHANGED faults
          /\ pc' = [pc EXCEPT ![l] = Waiting[s]] /\ Waiting[s] \in Trying
          /\ s \in Service
      BY <1>6 DEF Spawn, Goto, Waiting, Trying, Service
    <2> QED
      BY <1>1, <2>1 DEF Undisturbed, Alive
  <1>7. ASSUME NEW s \in DOMAIN Waiting,
               WaitReady(l, s) \/ WaitAgain(l, s) \/ WaitExited(l, s)
        PROVE  Undisturbed'
    BY <1>1, <1>2, <1>7
       DEF WaitReady, WaitAgain, WaitExited, Leave, Goto, Trying, Cleaning, Undisturbed, Alive
  <1>8. CASE WatchMarker(l) \/ WatchSupervisor(l) \/ WatchGateway(l)
    BY <1>2, <1>8
       DEF WatchMarker, WatchSupervisor, WatchGateway, Leave, Trying, Cleaning
  <1>9. CASE StopGateway(l)
    <2>1. UNCHANGED faults /\ pc' = [pc EXCEPT ![l] = "stop_supervisor"]
      BY <1>9 DEF StopGateway, Goto
    <2>2. process' = [process EXCEPT ![l]["gateway"] = "stopped"] \/ UNCHANGED process
      BY <1>9 DEF StopGateway
    <2> QED
      BY <1>1, <2>1, <2>2 DEF Undisturbed, Alive, Trying, Cleaning, Service
  <1>10. CASE StopSupervisor(l)
    <2>1. pc' = [pc EXCEPT ![l] = "archive_after"]
      BY <1>10 DEF StopSupervisor, Goto
    <2>2. ASSUME faults' = faults + 1 PROVE Undisturbed'
      BY <1>1, <2>2 DEF Undisturbed
    <2>3. ASSUME UNCHANGED faults,
                 \/ UNCHANGED process
                 \/ process' = [process EXCEPT ![l]["supervisor"] = "stopped",
                                  ![l]["sidecar"] = IF Alive(l, "sidecar") THEN "stopped" ELSE @]
          PROVE  Undisturbed'
      BY <1>1, <2>1, <2>3 DEF Undisturbed, Alive, Trying, Cleaning, Service
    <2> QED
      BY <1>10, <2>2, <2>3 DEF StopSupervisor
  <1>11. CASE ArchiveAfter(l)
    <2>1. ASSUME faults = 0 PROVE \A s \in Service : ~Alive(l, s)
      BY <1>1, <1>11, <2>1 DEF ArchiveAfter, Owned, Undisturbed, Service
    <2> QED
      BY <1>1, <1>11, <2>1 DEF ArchiveAfter, Goto, Undisturbed, Alive
  <1>12. "secrets" \in File /\ "config" \in File
    BY DEF File
  <1> QED
    BY <1>3, <1>4, <1>5, <1>6, <1>7, <1>8, <1>9, <1>10, <1>11, <1>12
       DEF Step, LoadOrCreateSecrets, WriteSidecarConfig

LEMMA EnvironmentUndisturbed ==
    ASSUME IInv, Undisturbed, NEW l \in Launcher, Environment(l)
    PROVE  Undisturbed'
  <1>1. /\ process \in [Launcher -> [Service -> State]] /\ faults \in Nat
    BY DEF IInv, TypeOK, State
  <1>2. ASSUME faults' = faults + 1 PROVE Undisturbed'
    BY <1>1, <1>2 DEF Undisturbed
  <1>3. CASE StartSidecar(l)
    <2>1. Alive(l, "supervisor") /\ "supervisor" \in Service /\ "sidecar" \in Service
      BY <1>3 DEF StartSidecar, Alive, Service
    <2> QED
      BY <1>1, <1>3, <2>1 DEF StartSidecar, Undisturbed, Alive
  <1>4. CASE RequestShutdown(l)
    BY <1>4 DEF RequestShutdown, Undisturbed, Alive
  <1>5. ASSUME NEW s \in Service, ComeUp(l, s) PROVE Undisturbed'
    <2>1. ASSUME faults = 0
          PROVE  process' = [process EXCEPT ![l][s] = "up"] /\ Alive(l, s)
      BY <1>5, <2>1, AllConfigured, PortIsFree DEF ComeUp, Alive
    <2> QED
      BY <1>1, <1>5, <2>1 DEF ComeUp, Undisturbed, Alive
  <1> QED
    BY <1>2, <1>3, <1>4, <1>5
       DEF Environment, SpawnRaises, Interrupt, Cut, Kill, Exit

(* Unless a child dies or a launcher is cut short, no child ever ends by   *)
(* itself: its settings are given to it, and its port is its own.          *)
THEOREM ChildrenAreNotLost == Spec => []ChildrenStay
  <1>1. Init => Undisturbed
    BY DEF Init, Undisturbed, Alive
  <1>2. IInv /\ Undisturbed /\ [Next]_vars => Undisturbed'
    <2>1. ASSUME Undisturbed, UNCHANGED vars PROVE Undisturbed'
      BY <2>1 DEF vars, Undisturbed, Alive
    <2> QED
      BY <2>1, StepUndisturbed, EnvironmentUndisturbed DEF Next
  <1>3. Undisturbed => ChildrenStay
    BY DEF Undisturbed, ChildrenStay
  <1> QED
    BY <1>1, <1>2, <1>3, Invariance, PTL DEF Spec

-----------------------------------------------------------------------------
(* That a request ends the run is a matter of fairness, and fairness of    *)
(* this fact about steps: once it is made, each step of its launcher's     *)
(* brings the end of the run nearer.                                       *)

(* The steps of a launcher before its run is over, if it is asked to end.  *)
Steps ==
    [archive_after |-> 1, stop_supervisor |-> 2, stop_gateway |-> 3, watch |-> 4,
     wait_gateway |-> 5, spawn_gateway |-> 6 + Attempts, watch_gateway |-> 7 + Attempts,
     watch_supervisor |-> 8 + Attempts, wait_supervisor |-> 7 + Attempts,
     spawn_supervisor |-> 8 + Attempts + Attempts]

Remaining(l) ==
    IF pc[l] \in {"wait_supervisor", "wait_gateway"} THEN Steps[pc[l]] + (Attempts - tries)
    ELSE IF pc[l] \in DOMAIN Steps THEN Steps[pc[l]]
    ELSE 0

Asked(l) == pc[l] \in Trying /\ marker # "none"

(* A request is not lost before the cleanup, and every step of a launcher  *)
(* that is asked to end, or is cleaning up, brings it nearer to its end,   *)
(* whatever its children, another launcher and the faults do meanwhile.    *)
RequestAdvances ==
    [][\A l \in Launcher : Asked(l) \/ pc[l] \in Cleaning =>
         /\ Remaining(l)' <= Remaining(l)
         /\ Step(l) => Remaining(l)' < Remaining(l)
         /\ pc'[l] \in Trying => Asked(l)']_vars

Advances(l) ==
    Asked(l) \/ pc[l] \in Cleaning =>
       /\ Remaining(l)' <= Remaining(l)
       /\ Step(l) => Remaining(l)' < Remaining(l)
       /\ pc'[l] \in Trying => Asked(l)'

LEMMA RemainingPositive ==
    ASSUME IInv, NEW l \in Launcher, pc[l] \in Trying \cup Cleaning
    PROVE  Remaining(l) \in Nat /\ Remaining(l) >= 1
  <1>1. Attempts \in Nat /\ tries \in Nat /\ tries <= Attempts
    BY BoundAssumption DEF IInv, TypeOK
  <1>2. CASE pc[l] \in {"wait_supervisor", "wait_gateway"}
    BY <1>1, <1>2 DEF Remaining, Steps
  <1>3. CASE pc[l] \in {"spawn_supervisor", "spawn_gateway", "watch", "watch_supervisor",
                      "watch_gateway"}
    BY <1>1, <1>3 DEF Remaining, Steps
  <1>4. CASE pc[l] \in Cleaning
    BY <1>4 DEF Remaining, Steps, Cleaning
  <1> QED
    BY <1>2, <1>3, <1>4 DEF Trying

(* Another launcher has no mutex, and can only wait for it.                *)
LEMMA OthersAside ==
    ASSUME IInv, NEW l \in Launcher, pc[l] \in Trying \cup Cleaning,
           NEW d \in Launcher \ {l}, Step(d) \/ Environment(d)
    PROVE  pc'[l] = pc[l] /\ tries' = tries /\ (marker # "none" => marker' # "none")
  <1>1. pc \in [Launcher -> {"lock"} \cup Holding \cup Final] /\ mutex = l /\ l # Nobody
    BY LauncherAssumption DEF IInv, TypeOK, Exclusive, Holding, Nobody
  <1>2. pc[d] \notin Holding
    BY <1>1 DEF IInv, Exclusive
  <1>3. CASE Step(d)
    <2>1. Join(d)
      BY <1>1, <1>2, <1>3
         DEF Step, Acquire, LoadOrCreateSecrets, WriteSidecarConfig, Load, Create, Write, Migrate,
             Verifier, CheckPorts, Archive, Spawn, WaitReady, WaitAgain, WaitExited, WatchMarker,
             WatchSupervisor, WatchGateway, StopGateway, StopSupervisor, ArchiveAfter, Holding,
             Trying, Cleaning, Waiting, Writing, File
    <2> QED
      BY <1>1, <2>1 DEF Join, Goto
  <1>4. CASE Environment(d)
    <2>1. ~ (SpawnRaises(d) \/ Interrupt(d) \/ Cut(d) \/ Kill(d))
      BY <1>2 DEF SpawnRaises, Interrupt, Cut, Kill, Holding, Trying, Cleaning
    <2> QED
      BY <1>4, <2>1 DEF Environment, StartSidecar, RequestShutdown, ComeUp, Exit
  <1> QED
    BY <1>3, <1>4

(* A launcher that is asked to end goes through the watch to the cleanup.  *)
LEMMA StepAdvances ==
    ASSUME IInv, NEW l \in Launcher, Asked(l) \/ pc[l] \in Cleaning, Step(l)
    PROVE  /\ Remaining(l)' \in Nat /\ Remaining(l)' < Remaining(l)
           /\ pc'[l] \in Trying => Asked(l)'
  <1> DEFINE Goal == /\ Remaining(l)' \in Nat /\ Remaining(l)' < Remaining(l)
                     /\ pc'[l] \in Trying => Asked(l)'
  <1>1. /\ pc \in [Launcher -> {"lock"} \cup Holding \cup Final]
        /\ Attempts \in Nat \ {0} /\ tries \in Nat /\ tries <= Attempts
        /\ pc[l] \in {"wait_supervisor", "wait_gateway"} => tries < Attempts
        /\ pc[l] \in Trying => marker # "none"
    BY BoundAssumption DEF IInv, TypeOK, Counting, Asked, Trying, Cleaning
  <1>2. pc[l] \in Trying \cup Cleaning /\ Remaining(l) \in Nat /\ Remaining(l) >= 1
    BY RemainingPositive DEF Asked
  <1>3. ASSUME NEW s \in DOMAIN Waiting, Spawn(l, s) PROVE Goal
    <2>1. s \in {"supervisor", "gateway"}
      BY DEF Waiting
    <2>2. CASE s = "supervisor"
      <3>1. /\ pc[l] = "spawn_supervisor" /\ pc'[l] = "wait_supervisor" /\ tries' = 0
            /\ marker' = marker
        BY <1>1, <1>3, <2>2 DEF Spawn, Goto, Waiting
      <3> QED
        BY <1>1, <3>1 DEF Remaining, Steps, Asked, Trying
    <2>3. CASE s = "gateway"
      <3>1. /\ pc[l] = "spawn_gateway" /\ pc'[l] = "wait_gateway" /\ tries' = 0
            /\ marker' = marker
        BY <1>1, <1>3, <2>3 DEF Spawn, Goto, Waiting
      <3> QED
        BY <1>1, <3>1 DEF Remaining, Steps, Asked, Trying
    <2> QED
      BY <2>1, <2>2, <2>3
  <1>4. ASSUME NEW s \in DOMAIN Waiting, WaitReady(l, s) PROVE Goal
    <2>1. \/ pc[l] = "wait_supervisor" /\ pc'[l] = "spawn_gateway"
          \/ pc[l] = "wait_gateway" /\ pc'[l] = "watch"
      BY <1>1, <1>4 DEF WaitReady, Goto, Waiting
    <2>2. marker' = marker /\ tries' = tries
      BY <1>4 DEF WaitReady
    <2> QED
      BY <1>1, <2>1, <2>2 DEF Remaining, Steps, Asked, Trying
  <1>5. ASSUME NEW s \in DOMAIN Waiting, WaitAgain(l, s) PROVE Goal
    <2>1. pc[l] \in {"wait_supervisor", "wait_gateway"} /\ tries' = tries + 1 /\ marker' = marker
      BY <1>5 DEF WaitAgain, Waiting
    <2>2. pc'[l] = pc[l] \/ pc'[l] = "stop_gateway"
      BY <1>1, <1>5 DEF WaitAgain, Leave, Goto
    <2> QED
      BY <1>1, <2>1, <2>2 DEF Remaining, Steps, Asked, Trying
  <1>6. CASE WatchMarker(l) \/ \E s \in DOMAIN Waiting : WaitExited(l, s)
    <2>1. pc[l] \in {"watch", "wait_supervisor", "wait_gateway"} /\ pc'[l] = "stop_gateway"
      BY <1>1, <1>6 DEF WatchMarker, WaitExited, Leave, Goto, Waiting, Trying
    <2> QED
      BY <1>1, <2>1 DEF Remaining, Steps, Trying
  <1>7. CASE WatchSupervisor(l)
    <2>1. /\ pc[l] = "watch_supervisor" /\ pc'[l] \in {"watch_gateway", "stop_gateway"}
          /\ marker' = marker
      BY <1>1, <1>7 DEF WatchSupervisor, Leave, Goto
    <2> QED
      BY <1>1, <2>1 DEF Remaining, Steps, Asked, Trying
  <1>8. CASE WatchGateway(l)
    <2>1. /\ pc[l] = "watch_gateway" /\ pc'[l] \in {"watch", "spawn_gateway"}
          /\ marker' = marker
      BY <1>1, <1>8 DEF WatchGateway, Goto
    <2> QED
      BY <1>1, <2>1 DEF Remaining, Steps, Asked, Trying
  <1>9. CASE StopGateway(l) \/ StopSupervisor(l) \/ ArchiveAfter(l)
    <2>1. \/ pc[l] = "stop_gateway" /\ pc'[l] = "stop_supervisor"
          \/ pc[l] = "stop_supervisor" /\ pc'[l] = "archive_after"
          \/ pc[l] = "archive_after" /\ pc'[l] \in {"failed", "ended"}
      BY <1>1, <1>9 DEF StopGateway, StopSupervisor, ArchiveAfter, Goto
    <2> QED
      BY <2>1 DEF Remaining, Steps, Trying
  <1>10. ~ (\/ Acquire(l) \/ Join(l) \/ LoadOrCreateSecrets(l) \/ WriteSidecarConfig(l)
            \/ Migrate(l) \/ Verifier(l) \/ CheckPorts(l) \/ Archive(l))
    BY <1>2 DEF Acquire, Join, LoadOrCreateSecrets, WriteSidecarConfig, Load, Create, Write, Migrate,
                Verifier, CheckPorts, Archive, Trying, Cleaning, Writing
  <1> QED
    BY <1>3, <1>4, <1>5, <1>6, <1>7, <1>8, <1>9, <1>10 DEF Step

(* A fault can only send it to the cleanup or beyond.                      *)
LEMMA EnvironmentAdvances ==
    ASSUME IInv, NEW l \in Launcher, Asked(l) \/ pc[l] \in Cleaning, Environment(l)
    PROVE  /\ Remaining(l)' \in Nat /\ Remaining(l)' <= Remaining(l)
           /\ pc'[l] \in Trying => Asked(l)'
  <1>1. /\ pc \in [Launcher -> {"lock"} \cup Holding \cup Final]
        /\ Attempts \in Nat \ {0} /\ tries \in Nat /\ tries <= Attempts
        /\ pc[l] \in Trying => marker # "none"
    BY BoundAssumption DEF IInv, TypeOK, Asked, Trying, Cleaning
  <1>2. pc[l] \in Trying \cup Cleaning /\ Remaining(l) \in Nat /\ Remaining(l) >= 1
    BY RemainingPositive DEF Asked
  <1>3. CASE SpawnRaises(l) \/ Interrupt(l)
    <2>1. pc[l] \in Trying /\ pc'[l] = "stop_gateway"
      BY <1>1, <1>3 DEF SpawnRaises, Interrupt, Leave, Goto, Trying
    <2> QED
      BY <1>1, <2>1 DEF Remaining, Steps, Trying
  <1>4. CASE Cut(l) \/ Kill(l)
    <2>1. pc'[l] \in {"cut", "killed"}
      BY <1>1, <1>4 DEF Cut, Kill, Goto
    <2>2. Remaining(l)' = 0
      BY <2>1 DEF Remaining, Steps
    <2> QED
      BY <1>2, <2>1, <2>2 DEF Trying
  <1>5. CASE StartSidecar(l) \/ RequestShutdown(l) \/ \E s \in Service : ComeUp(l, s) \/ Exit(l, s)
    <2>1. pc' = pc /\ tries' = tries /\ (marker # "none" => marker' # "none")
      BY <1>5 DEF StartSidecar, RequestShutdown, ComeUp, Exit
    <2>2. Remaining(l)' = Remaining(l)
      BY <2>1 DEF Remaining, Steps
    <2> QED
      BY <1>1, <1>2, <2>1, <2>2 DEF Asked
  <1> QED
    BY <1>3, <1>4, <1>5 DEF Environment

(* A request made of a launcher that serves brings it to its end.          *)
THEOREM RequestsAdvance == Spec => RequestAdvances
  <1>1. ASSUME IInv, [Next]_vars, NEW l \in Launcher PROVE Advances(l)
    <2> SUFFICES ASSUME Asked(l) \/ pc[l] \in Cleaning PROVE Advances(l)
      BY DEF Advances
    <2>1. pc[l] \in Trying \cup Cleaning /\ Remaining(l) \in Nat /\ Remaining(l) >= 1
      BY <1>1, RemainingPositive DEF Asked
    <2>2. CASE Step(l)
      BY <1>1, <2>1, <2>2, StepAdvances DEF Advances
    <2>3. CASE ~Step(l) /\ pc'[l] = pc[l] /\ tries' = tries /\ (marker # "none" => marker' # "none")
      <3>1. Remaining(l)' = Remaining(l)
        BY <2>3 DEF Remaining, Steps
      <3>2. pc'[l] \in Trying => Asked(l)'
        BY <2>3 DEF Asked, Trying, Cleaning
      <3> QED
        BY <2>1, <2>3, <3>1, <3>2 DEF Advances
    <2>4. CASE ~Step(l) /\ Environment(l)
      BY <1>1, <2>1, <2>4, EnvironmentAdvances DEF Advances
    <2>5. ASSUME NEW d \in Launcher \ {l}, Step(d) \/ Environment(d), ~Step(l) PROVE Advances(l)
      BY <1>1, <2>1, <2>3, <2>5, OthersAside
    <2>6. CASE UNCHANGED vars /\ ~Step(l)
      BY <2>3, <2>6 DEF vars
    <2> QED
      BY <1>1, <2>2, <2>4, <2>5, <2>6 DEF Next
  <1>2. ASSUME IInv, [Next]_vars
        PROVE  \A l \in Launcher : Asked(l) \/ pc[l] \in Cleaning =>
                 /\ Remaining(l)' <= Remaining(l)
                 /\ Step(l) => Remaining(l)' < Remaining(l)
                 /\ pc'[l] \in Trying => Asked(l)'
    BY <1>1, <1>2 DEF Advances
  <1> QED
    BY <1>2, Invariance, PTL DEF Spec, RequestAdvances
=============================================================================
