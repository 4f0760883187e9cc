--------------------------- MODULE SidecarUpdate ---------------------------
(***************************************************************************)
(* The reversible update of the bundled Sidecar: one executable and its    *)
(* manifest, replaced, rolled back and recovered by SidecarUpdateManager   *)
(* (sidecars/cliproxy/updater.py) inside the Supervisor's event loop.      *)
(*                                                                         *)
(* Between two of its awaits the manager does several file operations that *)
(* no other coroutine can see half done but that a killed process leaves   *)
(* half done, so every file operation is a step of its own: Crash may      *)
(* follow any of them, and each of them may raise.  The other routes of    *)
(* the control API reach the Sidecar only where the manager awaits.        *)
(*                                                                         *)
(* A file is abstracted to the Version it belongs to, a manifest to the    *)
(* Version whose SHA-256 it pins, so a checksum test compares the two.  A  *)
(* file copied into a backup directory is absent until its copy ends: a    *)
(* cut-off copy fails the checksum, or the JSON parse, just as no file     *)
(* does.                                                                   *)
(***************************************************************************)
EXTENDS Naturals

CONSTANTS
    Version,     \* versions of the Sidecar
    NoVersion,   \* no file, no process
    Tested,      \* the versions whose manifest says "tested": true
    Candidate,   \* names of the directories under the staging root
    Staged,      \* what each of them holds: [exe |-> ..., man |-> ...]
    MaxBackups,  \* bound: backup directories ever made
    MaxFaults,   \* bound: file or process operations that raise
    MaxCrashes   \* bound: deaths of the Supervisor

Pair == [exe : Version, man : Version]
Directory == [exe : Version \cup {NoVersion}, man : Version \cup {NoVersion}]
Empty == [exe |-> NoVersion, man |-> NoVersion]
BackupId == 1..MaxBackups

ASSUME VersionAssumption ==
    /\ NoVersion \notin Version
    /\ Tested \subseteq Version
    /\ Staged \in [Candidate -> Pair]
ASSUME BoundAssumption ==
    MaxBackups \in Nat /\ MaxFaults \in Nat /\ MaxCrashes \in Nat

VARIABLES
    disk,      \* the installed executable and manifest
    backup,    \* the backup directories, in the order of their created_at
    made,      \* how many of them exist
    marker,    \* update-transaction.json
    pc,        \* where the manager (or the Supervisor's start-up) stands
    kind,      \* the operation that holds the manager's lock
    payload,   \* the pair that operation copies over the installed one
    recovery,  \* the backup it goes back to
    result,    \* the status of the last operation's SidecarUpdateResult
    image,     \* the version the live Sidecar process was started from
    before,    \* history: the installed pair when the operation began
    faults, crashes

files == <<disk, backup, made, marker>>
local == <<kind, payload, recovery, before>>
vars == <<disk, backup, made, marker, pc, kind, payload, recovery, result,
          image, before, faults, crashes>>

(* What _candidate, _valid_backup and _installed_pair_valid test: both     *)
(* files are there, the manifest is tested and pins this executable.       *)
Whole(dir) == dir.man \in Tested /\ dir.exe = dir.man

ValidBackups == {b \in 1..made : Whole(backup[b])}
IsLatest(b) == b \in ValidBackups /\ \A c \in ValidBackups : c <= b

NoMarker == [state |-> "none", recovery |-> 0]
MarkerState ==
    {"none", "prepared", "stopped", "replacing_binary", "binary_replaced",
     "replacing_manifest", "starting", "rollback_prepared",
     "rollback_stopped", "rollback_starting"}

Forward == {"install", "rollback"}
Backward == {"undo_install", "undo_rollback", "recover"}
Status == {"none", "installed", "rolled_back", "failed", "cancelled", "raised"}

Early == {"copy_exe", "copy_man", "prepare"}
Late == {"stop", "m_stopped", "m_replacing", "replace_exe", "m_replaced",
         "m_manifest", "replace_man", "m_starting", "start", "status",
         "probe", "archive"}
Location == {"down", "boot", "idle", "confirm"} \cup Early \cup Late

Init ==
    /\ \E v \in Tested : disk = [exe |-> v, man |-> v]
    /\ backup = [b \in BackupId |-> Empty]
    /\ made = 0
    /\ marker = NoMarker
    /\ pc = "down"
    /\ kind = "none" /\ payload = Empty /\ recovery = 0 /\ before = Empty
    /\ result = "none"
    /\ image = NoVersion
    /\ faults = 0 /\ crashes = 0

-----------------------------------------------------------------------------
(* Ends of an operation.                                                   *)

(* Mutant: the backup of one operation is carried into the next.           *)
MutFinish(status) ==
    /\ pc' = IF kind = "recover" THEN "boot" ELSE "idle"
    /\ kind' = "none" /\ payload' = Empty /\ before' = Empty
    /\ result' = status
    /\ UNCHANGED recovery

Finish(status) ==
    /\ pc' = IF kind = "recover" THEN "boot" ELSE "idle"
    /\ kind' = "none" /\ payload' = Empty /\ recovery' = 0 /\ before' = Empty
    /\ result' = status

(* Mutant: the handler restores what it was installing.                    *)
MutTurnBack ==
    /\ kind \in Forward
    /\ kind' = IF kind = "install" THEN "undo_install" ELSE "undo_rollback"
    /\ pc' = "stop"
    /\ UNCHANGED <<payload, recovery, before, result>>

(* The operation's own "except Exception": an install or a rollback turns  *)
(* back to its recovery backup; whatever is already on its way back gives  *)
(* up and leaves the marker for the next start of the Supervisor.          *)
TurnBack ==
    /\ kind \in Forward
    /\ kind' = IF kind = "install" THEN "undo_install" ELSE "undo_rollback"
    /\ payload' = backup[recovery]
    /\ pc' = "stop"
    /\ UNCHANGED <<recovery, before, result>>
GiveUp == kind \in Backward /\ Finish("failed")
Raise == TurnBack \/ GiveUp

Fault == faults < MaxFaults /\ faults' = faults + 1

-----------------------------------------------------------------------------
(* install and rollback up to the first write of the marker.               *)

BeginInstall(c) ==
    /\ pc = "idle"
    /\ \/ /\ Whole(Staged[c])
          /\ pc' = "confirm" /\ kind' = "install" /\ result' = "none"
          /\ payload' = Staged[c] /\ before' = disk /\ recovery' = 0
       \/ /\ ~Whole(Staged[c])
          /\ result' = "raised"
          /\ UNCHANGED <<pc, kind, payload, recovery, before>>
    /\ UNCHANGED <<files, image, faults, crashes>>

BeginRollback ==
    /\ pc = "idle"
    /\ \/ /\ ValidBackups = {}
          /\ result' = "failed"
          /\ UNCHANGED <<pc, kind, payload, recovery, before>>
       \/ \E b \in BackupId :
            /\ IsLatest(b)
            /\ pc' = "confirm" /\ kind' = "rollback" /\ result' = "none"
            /\ payload' = backup[b] /\ before' = disk /\ recovery' = b
    /\ UNCHANGED <<files, image, faults, crashes>>

Cancel ==
    /\ pc = "confirm"
    /\ Finish("cancelled")
    /\ UNCHANGED <<files, image, faults, crashes>>

(* Mutant: a rollback does not save the pair it replaces.                  *)
MutAccept ==
    /\ pc = "confirm"
    /\ IF kind = "install"
         THEN /\ Whole(disk) /\ made < MaxBackups
              /\ made' = made + 1 /\ recovery' = made + 1
              /\ pc' = "copy_exe"
         ELSE pc' = "prepare" /\ UNCHANGED <<made, recovery>>
    /\ UNCHANGED <<disk, backup, marker, kind, payload, before, result, image,
                   faults, crashes>>

(* The user accepts: _backup_current makes the new backup directory.  A    *)
(* rollback over a broken pair saves nothing and goes back to its source.  *)
Accept ==
    /\ pc = "confirm"
    /\ \/ /\ Whole(disk)
          /\ made < MaxBackups
          /\ made' = made + 1
          /\ recovery' = made + 1
          /\ pc' = "copy_exe"
          /\ UNCHANGED <<kind, payload, before, result>>
       \/ /\ ~Whole(disk) /\ kind = "install"
          /\ Finish("raised")
          /\ UNCHANGED made
       \/ /\ ~Whole(disk) /\ kind = "rollback"
          /\ pc' = "prepare"
          /\ UNCHANGED <<kind, payload, recovery, before, result, made>>
    /\ UNCHANGED <<disk, backup, marker, image, faults, crashes>>

(* Mutant: the marker is written over a backup without its manifest.       *)
MutCopyExe ==
    /\ pc = "copy_exe"
    /\ backup' = [backup EXCEPT ![recovery].exe = disk.exe]
    /\ pc' = "prepare"
    /\ UNCHANGED <<disk, made, marker, local, result, image, faults, crashes>>

CopyExe ==
    /\ pc = "copy_exe"
    /\ backup' = [backup EXCEPT ![recovery].exe = disk.exe]
    /\ pc' = "copy_man"
    /\ UNCHANGED <<disk, made, marker, local, result, image, faults, crashes>>

CopyMan ==
    /\ pc = "copy_man"
    /\ backup' = [backup EXCEPT ![recovery].man = disk.man]
    /\ pc' = "prepare"
    /\ UNCHANGED <<disk, made, marker, local, result, image, faults, crashes>>

(* _write_transaction: the marker is replaced in one rename.               *)
Mark(at, state, next) ==
    /\ pc = at
    /\ marker' = [state |-> state, recovery |-> recovery]
    /\ pc' = next

WriteMarker ==
    /\ \/ /\ kind = "install"
          /\ \/ Mark("prepare", "prepared", "stop")
             \/ Mark("m_stopped", "stopped", "m_replacing")
             \/ Mark("m_replacing", "replacing_binary", "replace_exe")
             \/ Mark("m_replaced", "binary_replaced", "m_manifest")
             \/ Mark("m_manifest", "replacing_manifest", "replace_man")
             \/ Mark("m_starting", "starting", "start")
       \/ /\ kind = "rollback"
          /\ \/ Mark("prepare", "rollback_prepared", "stop")
             \/ Mark("m_stopped", "rollback_stopped", "replace_exe")
             \/ Mark("m_starting", "rollback_starting", "start")
    /\ UNCHANGED <<disk, backup, made, local, result, image, faults, crashes>>

(* An exception before the try block reaches the caller.                   *)
FailEarly ==
    /\ pc \in Early
    /\ Fault
    /\ Finish("raised")
    /\ UNCHANGED <<files, image, crashes>>

-----------------------------------------------------------------------------
(* The try block and its handler, which differ in what they copy.          *)

Stop ==
    /\ pc = "stop"
    /\ image' = NoVersion
    /\ pc' = IF kind \in Forward THEN "m_stopped" ELSE "replace_exe"
    /\ UNCHANGED <<files, local, result, faults, crashes>>

(* Mutant: whoever restores a backup forgets its manifest.                 *)
MutReplaceExe ==
    /\ pc = "replace_exe"
    /\ image = NoVersion
    /\ disk' = [disk EXCEPT !.exe = payload.exe]
    /\ pc' = IF kind = "install" THEN "m_replaced" ELSE "start"
    /\ UNCHANGED <<backup, made, marker, local, result, image, faults, crashes>>

(* Windows refuses to replace the image of a live process.                 *)
ReplaceExe ==
    /\ pc = "replace_exe"
    /\ image = NoVersion
    /\ disk' = [disk EXCEPT !.exe = payload.exe]
    /\ pc' = IF kind = "install" THEN "m_replaced" ELSE "replace_man"
    /\ UNCHANGED <<backup, made, marker, local, result, image, faults, crashes>>

(* Mutant: the transaction is closed before the new version has started.   *)
MutReplaceMan ==
    /\ pc = "replace_man"
    /\ disk' = [disk EXCEPT !.man = payload.man]
    /\ marker' = NoMarker
    /\ pc' = "start"
    /\ UNCHANGED <<backup, made, local, result, image, faults, crashes>>

ReplaceMan ==
    /\ pc = "replace_man"
    /\ disk' = [disk EXCEPT !.man = payload.man]
    /\ pc' = IF kind \in Forward THEN "m_starting" ELSE "start"
    /\ UNCHANGED <<backup, made, marker, local, result, image, faults, crashes>>

(* lifecycle.start: a live child is kept, else the installed file is run.  *)
Launched == IF image = NoVersion THEN disk.exe ELSE image

Start ==
    /\ pc = "start"
    /\ image' = Launched
    /\ pc' = "status"
    /\ UNCHANGED <<files, local, result, faults, crashes>>

(* lifecycle.status: the child is polled, then the probe is awaited.       *)
Poll ==
    /\ pc = "status"
    /\ image # NoVersion
    /\ pc' = "probe"
    /\ UNCHANGED <<files, local, result, image, faults, crashes>>

ProbeReady ==
    /\ pc = "probe"
    /\ pc' = "archive"
    /\ UNCHANGED <<files, local, result, image, faults, crashes>>

NotReady ==
    /\ \/ pc = "status" /\ image = NoVersion
       \/ pc = "probe"
    /\ Raise
    /\ UNCHANGED <<files, image, faults, crashes>>

Outcome ==
    CASE kind = "install" -> "installed"
      [] kind = "undo_rollback" -> "failed"
      [] OTHER -> "rolled_back"

Archive ==
    /\ pc = "archive"
    /\ marker' = NoMarker
    /\ Finish(Outcome)
    /\ UNCHANGED <<disk, backup, made, image, faults, crashes>>

(* Any operation of the try block raises.  The handler ignores a failing   *)
(* stop; a file held by a live process cannot be replaced.                 *)
FailLate ==
    /\ pc \in Late
    /\ \/ Fault
       \/ pc = "replace_exe" /\ image # NoVersion /\ UNCHANGED faults
    /\ IF pc = "stop" /\ kind \in Backward
         THEN pc' = "replace_exe" /\ UNCHANGED <<local, result>>
         ELSE Raise
    /\ UNCHANGED <<files, image, crashes>>

-----------------------------------------------------------------------------
(* The Supervisor: its death, and its start-up in the FastAPI lifespan,    *)
(* which recovers an interrupted update and then starts the Sidecar.       *)

Crash ==
    /\ pc # "down"
    /\ crashes < MaxCrashes
    /\ crashes' = crashes + 1
    /\ pc' = "down"
    /\ kind' = "none" /\ payload' = Empty /\ recovery' = 0 /\ before' = Empty
    /\ result' = "none"
    /\ image' \in {image, NoVersion}
    /\ UNCHANGED <<files, faults>>

(* The recorded backup, else the latest valid one.                         *)
RecoverySource(b) ==
    LET recorded == marker # NoMarker /\ marker.recovery \in ValidBackups
    IN  IF recorded THEN b = marker.recovery ELSE IsLatest(b)

(* Mutant: a marker that does not yet say "binary_replaced" is ignored.    *)
MutRecover ==
    IF marker.state \in {"none", "prepared", "stopped", "replacing_binary"}
      THEN result' = "failed" /\ pc' = "boot" /\ UNCHANGED local
      ELSE /\ \E b \in BackupId :
                /\ RecoverySource(b)
                /\ kind' = "recover" /\ recovery' = b /\ payload' = backup[b]
           /\ before' = disk
           /\ pc' = "replace_exe"
           /\ result' = "none"

Recover ==
    \/ /\ \/ marker = NoMarker /\ Whole(disk)
          \/ ValidBackups = {}
       /\ result' = "failed"
       /\ pc' = "boot"
       /\ UNCHANGED local
    \/ /\ ~(marker = NoMarker /\ Whole(disk))
       /\ \E b \in BackupId :
            /\ RecoverySource(b)
            /\ kind' = "recover" /\ recovery' = b /\ payload' = backup[b]
       /\ before' = disk
       /\ pc' = "replace_exe"
       /\ result' = "none"

(* The launcher starts no Supervisor while the Sidecar's port is taken.    *)
Boot ==
    /\ pc = "down"
    /\ image = NoVersion
    /\ Recover
    /\ UNCHANGED <<files, image, faults, crashes>>

BootStart ==
    /\ pc = "boot"
    /\ image' = Launched
    /\ pc' = "idle"
    /\ UNCHANGED <<files, local, result, faults, crashes>>

-----------------------------------------------------------------------------
(* The rest of the system, where the manager awaits.                       *)

Awaiting ==
    /\ pc \in {"idle", "confirm", "stop", "start", "probe"}
    /\ kind # "recover"

ApiStart ==
    /\ Awaiting
    /\ image' = Launched
    /\ UNCHANGED <<files, pc, local, result, faults, crashes>>

ApiStop ==
    /\ Awaiting
    /\ image' = NoVersion
    /\ UNCHANGED <<files, pc, local, result, faults, crashes>>

SidecarExit ==
    /\ image # NoVersion
    /\ image' = NoVersion
    /\ UNCHANGED <<files, pc, local, result, faults, crashes>>

-----------------------------------------------------------------------------
Operation ==
    \/ CopyExe \/ CopyMan \/ WriteMarker \/ Stop \/ ReplaceExe \/ ReplaceMan
    \/ Start \/ Poll \/ ProbeReady \/ NotReady \/ Archive
    \/ FailEarly \/ FailLate

Next ==
    \/ \E c \in Candidate : BeginInstall(c)
    \/ BeginRollback \/ Cancel \/ Accept
    \/ Operation
    \/ Boot \/ BootStart
    \/ ApiStart \/ ApiStop \/ SidecarExit
    \/ Crash

Spec == Init /\ [][Next]_vars

(* The event loop runs every coroutine that is ready, the user starts the  *)
(* application again, and an orphaned Sidecar does not hold its port for   *)
(* ever.  Nobody has to answer a confirmation dialog.                      *)
Fairness ==
    /\ WF_vars(Operation)
    /\ WF_vars(Boot) /\ WF_vars(BootStart)
    /\ WF_vars(pc = "down" /\ SidecarExit)

FairSpec == Spec /\ Fairness

-----------------------------------------------------------------------------
(* Properties.                                                             *)

(* The locals of updater.py belong to the operation under way: nothing is  *)
(* left of the last one, and the one that runs has a pair to put in place  *)
(* and, from the user's consent on, a backup to go back to.                *)
LocalsOK ==
    /\ kind = "none" <=> pc \in {"down", "boot", "idle"}
    /\ kind = "none" <=> payload = Empty
    /\ kind = "none" <=> before = Empty
    /\ recovery = 0 <=> kind = "none" \/ (kind = "install" /\ pc = "confirm")

(* Every variable keeps its type, and the manager's locals are set exactly *)
(* while an operation of updater.py runs.                                  *)
TypeOK ==
    /\ disk \in Pair
    /\ backup \in [BackupId -> Directory]
    /\ made \in 0..MaxBackups
    /\ marker \in [state : MarkerState, recovery : 0..MaxBackups]
    /\ pc \in Location
    /\ kind \in {"none"} \cup Forward \cup Backward
    /\ payload \in Pair \cup {Empty}
    /\ recovery \in 0..MaxBackups
    /\ result \in Status
    /\ image \in Version \cup {NoVersion}
    /\ before \in Pair \cup {Empty}
    /\ faults \in 0..MaxFaults
    /\ crashes \in 0..MaxCrashes
    /\ LocalsOK

(* Whatever has raised and wherever the Supervisor has died, installed     *)
(* files that do not belong together are never without a marker, and a     *)
(* marker never names a backup that recovery would refuse.                 *)
Recoverable ==
    /\ ~Whole(disk) => marker # NoMarker
    /\ marker # NoMarker => marker.recovery \in ValidBackups

(* Each path of updater.py to _start_running has put back a whole pair     *)
(* first: the manager itself never launches an executable beside another   *)
(* version's manifest.                                                     *)
StartsWholePair == pc = "start" => Whole(disk)

(* When install or rollback closes its transaction, the pair it replaced   *)
(* is in the latest valid backup, so the next rollback brings it back      *)
(* whatever was tried, failed or half done in between.                     *)
CommitCanBeUndone ==
    [][marker # NoMarker /\ marker' = NoMarker /\ kind \in Forward =>
         /\ disk' = payload /\ Whole(disk')
         /\ Whole(before) => backup[recovery] = before /\ IsLatest(recovery)]_vars

(* An install that answers anything but "installed" or "failed" leaves the *)
(* installed pair as it found it; so does every cancelled operation.       *)
UnsuccessfulLeavesPair ==
    [][(/\ result = "none" /\ kind # "none"
        /\ \/ result' \in {"cancelled", "raised"}
           \/ result' = "rolled_back" /\ kind = "undo_install")
       => disk' = before]_vars

(* The version an interruption now would lead back to is the marker's      *)
(* backup, or the installed pair when no transaction is open.              *)
Transacting == kind \in Forward /\ pc \in Late
Committed == IF marker = NoMarker THEN disk.exe ELSE backup[marker.recovery].exe
OnDisk == IF Whole(disk) THEN disk.exe ELSE NoVersion
Goal == IF Transacting THEN payload.exe ELSE NoVersion

Atomic == INSTANCE AtomicPair WITH
    version <- Committed, disk <- OnDisk, goal <- Goal,
    open <- marker # NoMarker,
    Torn <- NoVersion, NoGoal <- NoVersion

(* The update of updater.py implements the atomic change of one version.   *)
RefinesAtomicPair == Atomic!Spec

(* A Supervisor that died at any point of an update, started again, comes  *)
(* to serve over a whole pair: recover_interrupted_update in the lifespan  *)
(* restores what its marker names.  Nothing raises in the run that checks  *)
(* it: a fault during the recovery itself leaves it to the next start.     *)
CrashHeals == pc = "down" ~> pc = "idle" /\ Whole(disk)

=============================================================================
