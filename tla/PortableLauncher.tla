-------------------------- MODULE PortableLauncher --------------------------
(***************************************************************************)
(* start.exe (launcher.py): preparing the directory's files, starting the  *)
(* Supervisor and the Gateway, watching them, and ending them on request   *)
(* or on failure.  Several start.exe may run, and any process may die.     *)
(*                                                                         *)
(* A launcher starts at most one Supervisor, whose lifespan starts one     *)
(* Sidecar, and one Gateway at a time, so that processes are named by      *)
(* their launcher and service.  The installed Sidecar pair is taken to be  *)
(* whole: PortableLaunch models the check of it.                           *)
(***************************************************************************)
EXTENDS Naturals

CONSTANTS
    Launcher,    \* start.exe processes
    Attempts,    \* ready_attempts
    MaxFaults    \* bound: processes that die and cleanups that fail

ASSUME LauncherAssumption == "nobody" \notin Launcher
ASSUME BoundAssumption == Attempts \in Nat \ {0} /\ MaxFaults \in Nat

VARIABLES
    pc,          \* where a launcher stands
    result,      \* why its run ends
    tries,       \* readiness attempts of the current wait
    mutex,       \* owner of the named mutex
    marker,      \* shutdown.request: "old" if written before the owner locked
    process,     \* state of each launcher's children
    file,        \* runtime-secrets.dat and cliproxy.local.yaml
    database,
    faults

vars == <<pc, result, tries, mutex, marker, process, file, database, faults>>
disk == <<file, database>>

Nobody == "nobody"
Service == {"supervisor", "gateway", "sidecar"}
File == {"secrets", "config"}
Writing == [secrets |-> "write_secrets", config |-> "write_config"]
Waiting == [supervisor |-> "wait_supervisor", gateway |-> "wait_gateway"]
Trying == {"spawn_supervisor", "wait_supervisor", "spawn_gateway", "wait_gateway",
           "watch", "watch_supervisor", "watch_gateway"}
Cleaning == {"stop_gateway", "stop_supervisor", "archive_after"}
Final == {"ended", "joined", "failed", "cut", "killed"}
Holding ==
    {"secrets", "write_secrets", "config", "write_config", "migrate", "verifier",
     "ports", "archive"} \cup Trying \cup Cleaning

Init ==
    /\ pc = [l \in Launcher |-> "lock"]
    /\ result = [l \in Launcher |-> "none"]
    /\ tries = 0
    /\ mutex = Nobody
    /\ marker \in {"none", "old"}
    /\ process = [l \in Launcher |-> [s \in Service |-> "none"]]
    /\ file = [f \in File |-> "none"]
    /\ database = "none"
    /\ faults = 0

Alive(l, s) == process[l][s] \in {"booting", "up"}
Bound(s) == \E l \in Launcher : process[l][s] = "up"

Goto(l, at) == pc' = [pc EXCEPT ![l] = at]

(* The launch is over before anything was started: main raises.            *)
Refuse(l) == Goto(l, "failed") /\ mutex' = Nobody

(* The try block of run ends: what follows is its finally clause.          *)
Leave(l, why) == Goto(l, "stop_gateway") /\ result' = [result EXCEPT ![l] = why]

-----------------------------------------------------------------------------
(* What each service finds in its environment, and what it needs to start. *)

RuntimeEnvironment ==
    {"database", "executable", "config", "base_url", "api_key", "management_key",
     "gateway_url", "phase6", "bypass", "autostart", "shutdown", "manifest",
     "staging", "backup"}

(* Mutant: the Gateway is not given the key of the Sidecar.                *)
MutServiceEnvironment(s) ==
    IF s = "gateway"
    THEN RuntimeEnvironment \cap {"database", "base_url"}
    ELSE RuntimeEnvironment \ {"gateway_api_key"}

ServiceEnvironment(s) ==
    IF s = "gateway"
    THEN RuntimeEnvironment \cap {"database", "base_url", "api_key"}
    ELSE RuntimeEnvironment \ {"gateway_api_key"}

Required ==
    [supervisor |-> {"executable", "config", "api_key", "management_key",
                     "manifest", "staging", "backup", "shutdown"},
     gateway |-> {"database", "api_key"}]

Configured(s) ==
    s # "sidecar" => Required[s] \subseteq ServiceEnvironment(s)

-----------------------------------------------------------------------------
(* main: the mutex, the files, the database.                               *)

(* A mutex whose owner died is acquired too (WAIT_ABANDONED).              *)
Acquire(l) ==
    /\ pc[l] = "lock" /\ mutex = Nobody
    /\ mutex' = l
    /\ marker' = IF marker = "none" THEN "none" ELSE "old"
    /\ Goto(l, "secrets")
    /\ UNCHANGED <<result, tries, process, disk, faults>>

(* Another launcher kept the mutex for 1.5 s: the running application is   *)
(* shown if it answers.                                                    *)
Join(l) ==
    /\ pc[l] = "lock" /\ mutex # Nobody
    /\ Goto(l, IF Bound("supervisor") THEN "joined" ELSE "failed")
    /\ UNCHANGED <<result, tries, mutex, marker, process, disk, faults>>

(* The file decodes, and the configuration matches the secrets.            *)
Whole(f) == file[f] = "whole"

After(f) == IF f = "secrets" THEN "config" ELSE "migrate"

(* Mutant: a file is taken as it is found.                                 *)
MutLoad(l, f) ==
    /\ pc[l] = f /\ file[f] # "none"
    /\ Goto(l, After(f)) /\ UNCHANGED mutex
    /\ UNCHANGED <<result, tries, marker, process, disk, faults>>

(* An existing file must decode and match, or the launch is refused.       *)
Load(l, f) ==
    /\ pc[l] = f /\ file[f] # "none"
    /\ IF Whole(f) THEN Goto(l, After(f)) /\ UNCHANGED mutex
                            ELSE Refuse(l)
    /\ UNCHANGED <<result, tries, marker, process, disk, faults>>

(* open("x"), then the contents, which reach the file when it is closed.   *)
Create(l, f) ==
    /\ pc[l] = f /\ file[f] = "none"
    /\ file' = [file EXCEPT ![f] = "empty"]
    /\ Goto(l, Writing[f])
    /\ UNCHANGED <<result, tries, mutex, marker, process, database, faults>>

Write(l, f) ==
    /\ pc[l] = Writing[f]
    /\ file' = [file EXCEPT ![f] = "whole"]
    /\ Goto(l, After(f))
    /\ UNCHANGED <<result, tries, mutex, marker, process, database, faults>>

LoadOrCreateSecrets(l) ==
    Load(l, "secrets") \/ Create(l, "secrets") \/ Write(l, "secrets")

WriteSidecarConfig(l) ==
    Load(l, "config") \/ Create(l, "config") \/ Write(l, "config")

Migrate(l) ==
    /\ pc[l] = "migrate"
    /\ database' = IF database = "none" THEN "migrated" ELSE database
    /\ Goto(l, "verifier")
    /\ UNCHANGED <<result, tries, mutex, marker, process, file, faults>>

Verifier(l) ==
    /\ pc[l] = "verifier"
    /\ database' = "ready"
    /\ Goto(l, "ports")
    /\ UNCHANGED <<result, tries, mutex, marker, process, file, faults>>

-----------------------------------------------------------------------------
(* PortableLauncher.run                                                    *)

(* _ensure_local_ports_available: all three are bound at one instant.      *)
CheckPorts(l) ==
    /\ pc[l] = "ports"
    /\ IF \E s \in Service : Bound(s)
       THEN Refuse(l)
       ELSE Goto(l, "archive") /\ UNCHANGED mutex
    /\ UNCHANGED <<result, tries, marker, process, disk, faults>>

(* Mutant: the marker an earlier run left is kept.                         *)
MutArchive(l) ==
    /\ pc[l] = "archive"
    /\ Goto(l, "spawn_supervisor")
    /\ UNCHANGED <<result, tries, mutex, marker, process, disk, faults>>

Archive(l) ==
    /\ pc[l] = "archive"
    /\ marker' = "none"
    /\ Goto(l, "spawn_supervisor")
    /\ UNCHANGED <<result, tries, mutex, process, disk, faults>>

Spawn(l, s) ==
    /\ pc[l] = (IF s = "supervisor" THEN "spawn_supervisor" ELSE "spawn_gateway")
    /\ process' = [process EXCEPT ![l][s] = "booting"]
    /\ tries' = 0
    /\ Goto(l, Waiting[s])
    /\ UNCHANGED <<result, mutex, marker, disk, faults>>

(* The process cannot be created.                                          *)
SpawnRaises(l) ==
    /\ pc[l] \in {"spawn_supervisor", "spawn_gateway"} /\ faults < MaxFaults
    /\ Leave(l, "error")
    /\ faults' = faults + 1
    /\ UNCHANGED <<tries, mutex, marker, process, disk>>

(* _wait_ready: the child is polled, then the fixed address is asked for   *)
(* the service's name, whoever answers there.                              *)
WaitReady(l, s) ==
    /\ pc[l] = Waiting[s] /\ Alive(l, s) /\ Bound(s)
    /\ Goto(l, IF s = "supervisor" THEN "spawn_gateway" ELSE "watch")
    /\ UNCHANGED <<result, tries, mutex, marker, process, disk, faults>>

(* Mutant: the attempts are not counted.                                   *)
MutWaitAgain(l, s) ==
    /\ pc[l] = Waiting[s] /\ Alive(l, s) /\ ~Bound(s)
    /\ UNCHANGED vars

(* Mutant: one attempt too many.                                           *)
MutWaitOnceMore(l, s) ==
    /\ pc[l] = Waiting[s] /\ Alive(l, s) /\ ~Bound(s)
    /\ tries' = tries + 1
    /\ IF tries' <= Attempts THEN UNCHANGED <<pc, result>> ELSE Leave(l, "error")
    /\ UNCHANGED <<mutex, marker, process, disk, faults>>

WaitAgain(l, s) ==
    /\ pc[l] = Waiting[s] /\ Alive(l, s) /\ ~Bound(s)
    /\ tries' = tries + 1
    /\ IF tries' < Attempts THEN UNCHANGED <<pc, result>> ELSE Leave(l, "error")
    /\ UNCHANGED <<mutex, marker, process, disk, faults>>

WaitExited(l, s) ==
    /\ pc[l] = Waiting[s] /\ ~Alive(l, s)
    /\ Leave(l, "error")
    /\ UNCHANGED <<tries, mutex, marker, process, disk, faults>>

WatchMarker(l) ==
    /\ pc[l] = "watch"
    /\ IF marker # "none" THEN Leave(l, "asked")
                          ELSE Goto(l, "watch_supervisor") /\ UNCHANGED result
    /\ UNCHANGED <<tries, mutex, marker, process, disk, faults>>

WatchSupervisor(l) ==
    /\ pc[l] = "watch_supervisor"
    /\ IF Alive(l, "supervisor") THEN Goto(l, "watch_gateway") /\ UNCHANGED result
                                 ELSE Leave(l, "error")
    /\ UNCHANGED <<tries, mutex, marker, process, disk, faults>>

WatchGateway(l) ==
    /\ pc[l] = "watch_gateway"
    /\ Goto(l, IF Alive(l, "gateway") THEN "watch" ELSE "spawn_gateway")
    /\ UNCHANGED <<result, tries, mutex, marker, process, disk, faults>>

Interrupt(l) ==
    /\ pc[l] \in Trying /\ faults < MaxFaults
    /\ Leave(l, "interrupted")
    /\ faults' = faults + 1
    /\ UNCHANGED <<tries, mutex, marker, process, disk>>

-----------------------------------------------------------------------------
(* The finally clause.                                                     *)

StopGateway(l) ==
    /\ pc[l] = "stop_gateway"
    /\ process' = IF Alive(l, "gateway")
                  THEN [process EXCEPT ![l]["gateway"] = "stopped"] ELSE process
    /\ Goto(l, "stop_supervisor")
    /\ UNCHANGED <<result, tries, mutex, marker, disk, faults>>

(* Mutant: the child is terminated, and not the processes below it.        *)
MutStopSupervisor(l) ==
    /\ pc[l] = "stop_supervisor"
    /\ process' = IF Alive(l, "supervisor")
                  THEN [process EXCEPT ![l]["supervisor"] = "stopped"] ELSE process
    /\ Goto(l, "archive_after")
    /\ UNCHANGED <<result, tries, mutex, marker, disk, faults>>

(* taskkill /T ends the live Supervisor with its Sidecar; nothing is done  *)
(* for one that has exited.  When taskkill fails the Supervisor alone is   *)
(* terminated.                                                             *)
StopSupervisor(l) ==
    /\ pc[l] = "stop_supervisor"
    /\ \/ /\ process' =
               IF Alive(l, "supervisor")
               THEN [process EXCEPT ![l]["supervisor"] = "stopped",
                                    ![l]["sidecar"] = IF Alive(l, "sidecar")
                                                      THEN "stopped" ELSE @]
               ELSE process
          /\ UNCHANGED faults
       \/ /\ Alive(l, "supervisor") /\ faults < MaxFaults
          /\ process' = [process EXCEPT ![l]["supervisor"] = "terminated"]
          /\ faults' = faults + 1
    /\ Goto(l, "archive_after")
    /\ UNCHANGED <<result, tries, mutex, marker, disk>>

ArchiveAfter(l) ==
    /\ pc[l] = "archive_after"
    /\ marker' = "none"
    /\ mutex' = Nobody
    /\ Goto(l, IF result[l] = "error" THEN "failed" ELSE "ended")
    /\ UNCHANGED <<result, tries, process, disk, faults>>

(* A cleanup step raises (a child that outlives kill, a marker that cannot *)
(* be moved): the rest is skipped.                                         *)
Cut(l) ==
    /\ pc[l] \in Cleaning /\ faults < MaxFaults
    /\ Goto(l, "cut") /\ mutex' = Nobody
    /\ faults' = faults + 1
    /\ UNCHANGED <<result, tries, marker, process, disk>>

-----------------------------------------------------------------------------
(* The children.                                                           *)

(* The Supervisor's lifespan starts the Sidecar before the port is bound.  *)
StartSidecar(l) ==
    /\ process[l]["supervisor"] = "booting" /\ process[l]["sidecar"] = "none"
    /\ Configured("supervisor")
    /\ process' = [process EXCEPT ![l]["sidecar"] = "booting"]
    /\ UNCHANGED <<pc, result, tries, mutex, marker, disk, faults>>

(* A service binds its port; it exits if the port is taken or a setting    *)
(* missing.  A Supervisor that cannot bind stops its Sidecar on the way    *)
(* out.                                                                    *)
ComeUp(l, s) ==
    /\ process[l][s] = "booting"
    /\ s = "supervisor" /\ Configured(s) => process[l]["sidecar"] # "none"
    /\ process' =
         IF Configured(s) /\ ~Bound(s) THEN [process EXCEPT ![l][s] = "up"]
         ELSE [process EXCEPT ![l][s] = "exited",
                  ![l]["sidecar"] = IF s # "gateway" /\ Alive(l, "sidecar")
                                    THEN "exited" ELSE @]
    /\ UNCHANGED <<pc, result, tries, mutex, marker, disk, faults>>

(* POST /api/control/application/shutdown; a second request changes        *)
(* nothing.                                                                *)
RequestShutdown(l) ==
    /\ process[l]["supervisor"] = "up" /\ marker = "none"
    /\ marker' = "new"
    /\ UNCHANGED <<pc, result, tries, mutex, process, disk, faults>>

Exit(l, s) ==
    /\ Alive(l, s) /\ faults < MaxFaults
    /\ process' = [process EXCEPT ![l][s] = "exited"]
    /\ faults' = faults + 1
    /\ UNCHANGED <<pc, result, tries, mutex, marker, disk>>

(* start.exe is killed: its children live on, its mutex is abandoned.      *)
Kill(l) ==
    /\ pc[l] \in Holding /\ faults < MaxFaults
    /\ Goto(l, "killed") /\ mutex' = Nobody
    /\ faults' = faults + 1
    /\ UNCHANGED <<result, tries, marker, process, disk>>

-----------------------------------------------------------------------------
Step(l) ==
    \/ Acquire(l) \/ Join(l)
    \/ LoadOrCreateSecrets(l) \/ WriteSidecarConfig(l)
    \/ Migrate(l) \/ Verifier(l) \/ CheckPorts(l) \/ Archive(l)
    \/ \E s \in DOMAIN Waiting :
          Spawn(l, s) \/ WaitReady(l, s) \/ WaitAgain(l, s) \/ WaitExited(l, s)
    \/ WatchMarker(l) \/ WatchSupervisor(l) \/ WatchGateway(l)
    \/ StopGateway(l) \/ StopSupervisor(l) \/ ArchiveAfter(l)

Environment(l) ==
    \/ SpawnRaises(l) \/ Interrupt(l) \/ Cut(l) \/ Kill(l)
    \/ StartSidecar(l) \/ RequestShutdown(l)
    \/ \E s \in Service : ComeUp(l, s) \/ Exit(l, s)

Next == \E l \in Launcher : Step(l) \/ Environment(l)

Spec == Init /\ [][Next]_vars

(* A launcher's own steps are bounded in time: it polls, sleeps and calls  *)
(* with timeouts.  Nothing is assumed of its children.                     *)
FairSpec == Spec /\ \A l \in Launcher : WF_vars(Step(l))

-----------------------------------------------------------------------------
TypeOK ==
    /\ pc \in [Launcher -> {"lock"} \cup Holding \cup Final]
    /\ result \in [Launcher -> {"none", "asked", "error", "interrupted"}]
    /\ tries \in 0..Attempts
    /\ mutex \in Launcher \cup {Nobody}
    /\ marker \in {"none", "old", "new"}
    /\ process \in [Launcher -> [Service -> {"none", "booting", "up", "exited",
                                             "terminated", "stopped"}]]
    /\ file \in [File -> {"none", "empty", "whole"}]
    /\ database \in {"none", "migrated", "ready"}
    /\ faults \in 0..MaxFaults

(* No service is started over files that a killed launcher left empty, or  *)
(* over a database without its tables and its verifier                     *)
(* (load_or_create, write_sidecar_config, bootstrap_database).             *)
ServesPreparedState ==
    \A l \in Launcher, s \in Service :
       process[l][s] # "none" =>
          /\ \A f \in File : Whole(f)
          /\ database = "ready"

(* "Stop the exact launcher-owned process tree": a run whose cleanup was   *)
(* not cut short leaves no child, and its Sidecar only when the Supervisor *)
(* had exited by itself or taskkill failed (_stop_owned).                  *)
StopsItsTree ==
    \A l \in Launcher : pc[l] \in {"ended", "failed"} =>
       /\ ~Alive(l, "supervisor") /\ ~Alive(l, "gateway")
       /\ Alive(l, "sidecar") =>
             process[l]["supervisor"] \in {"exited", "terminated"}

(* Unless something died, every child stays: each service finds the        *)
(* settings it needs in the environment it is given and its port free      *)
(* (runtime_environment, _service_environment, create_runtime_app).        *)
ChildrenStay ==
    faults = 0 => \A l \in Launcher, s \in Service : process[l][s] # "exited"

(* A run ends by request only for a request made since it locked the       *)
(* directory, never for one an earlier run left behind                     *)
(* (_archive_shutdown_marker).                                             *)
OnlyOwnRequestEnds ==
    [][\A l \in Launcher :
          result[l] # "asked" /\ result'[l] = "asked" => marker = "new"]_vars

(* A shutdown request made while a launcher is serving, even while it      *)
(* waits for a restarted Gateway, ends that launcher's run (run's loop).   *)
RequestEndsRun ==
    \A l \in Launcher :
       marker = "new" /\ pc[l] \in {"spawn_gateway", "wait_gateway", "watch"}
          ~> pc[l] \in Final
=============================================================================
