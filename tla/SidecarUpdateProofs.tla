------------------------ MODULE SidecarUpdateProofs ------------------------
(***************************************************************************)
(* Proofs, for any set of versions, any staged candidates and any bounds,  *)
(* that an interrupted Sidecar update can always be recovered, that the    *)
(* update implements the atomic change of one version, and that each       *)
(* operation comes to its end, a start-up's over a whole pair.             *)
(***************************************************************************)
EXTENDS SidecarUpdate, TLAPS

(* Where an operation may stand, by its kind.                              *)
Locations ==
    /\ pc \in {"down", "boot", "idle"} <=> kind = "none"
    /\ pc \in {"confirm"} \cup Early => kind \in Forward
    /\ pc \in {"m_stopped", "m_starting"} => kind \in Forward
    /\ pc \in {"m_replacing", "m_replaced", "m_manifest"} => kind = "install"
    /\ kind = "recover" => pc # "stop"

(* The backup directories above made do not exist yet.                     *)
Unmade == \A b \in BackupId : b > made => backup[b] = Empty

(* A backup in the making holds the installed pair up to the copy reached. *)
Copying ==
    /\ pc \in {"copy_exe", "copy_man"} =>
         /\ recovery = made /\ recovery \in BackupId
         /\ Whole(disk)
    /\ pc = "copy_exe" => backup[recovery] = Empty
    /\ pc = "copy_man" =>
         backup[recovery] = [exe |-> disk.exe, man |-> NoVersion]
    /\ pc = "prepare" =>
         /\ recovery \in ValidBackups
         /\ Whole(disk) => backup[recovery] = disk
         /\ ~Whole(disk) => backup[recovery] = payload

(* Once the marker is written, it names the operation's recovery backup.   *)
Marked ==
    pc \in Late =>
        /\ recovery \in ValidBackups
        /\ marker # NoMarker /\ marker.recovery = recovery
        /\ kind \in Backward => payload = backup[recovery]

(* What is copied is a whole pair, and this is how much of it is in place. *)
Payload ==
    /\ kind # "none" => Whole(payload) /\ payload \in Pair
    /\ kind = "rollback" /\ pc = "confirm" =>
         recovery \in ValidBackups /\ payload = backup[recovery]
    /\ pc \in {"m_replaced", "m_manifest", "replace_man"} =>
         disk.exe = payload.exe
    /\ pc \in {"m_starting", "start", "status", "probe", "archive"} =>
         disk = payload

(* What the operation found is still in place until the marker is written, *)
(* and from then on in the backup made last, if it was a whole pair.       *)
History ==
    /\ pc \in {"confirm"} \cup Early => before = disk
    /\ pc = "prepare" =>
         /\ Whole(disk) => recovery = made
         /\ kind = "install" => Whole(disk)
    /\ pc \in Late /\ (\/ kind \in {"install", "undo_install"}
                       \/ kind = "rollback" /\ Whole(before)) =>
         backup[recovery] = before /\ recovery = made

IInv ==
    /\ TypeOK
    /\ Recoverable
    /\ Locations
    /\ Unmade
    /\ Copying
    /\ Marked
    /\ Payload
    /\ History

-----------------------------------------------------------------------------
(* A checksum that matches makes a directory a pair of real files.         *)
LEMMA WholeIsPair ==
    ASSUME NEW dir \in Directory, Whole(dir)
    PROVE  dir \in Pair
  BY VersionAssumption DEF Directory, Whole, Pair

(* The initial state satisfies the inductive invariant.                    *)
LEMMA InitIInv == Init => IInv
  BY VersionAssumption, BoundAssumption
  DEF Init, IInv, TypeOK, LocalsOK, Recoverable, Locations, Unmade, Copying, Marked,
      Payload, History, Pair, Directory, Empty, BackupId, Whole, ValidBackups,
      NoMarker, MarkerState, Forward, Backward, Status, Early, Late, Location

(* Filling the directory of an operation that is still copying neither     *)
(* makes nor breaks another backup, and the marker names another one.      *)
LEMMA CopyKeepsBackups ==
    ASSUME IInv, CopyExe \/ CopyMan
    PROVE  /\ backup' \in [BackupId -> Directory]
           /\ \A b \in BackupId \ {recovery} : backup'[b] = backup[b]
           /\ recovery \notin ValidBackups
           /\ marker # NoMarker => marker.recovery \in ValidBackups'
           /\ made' = made /\ recovery' = recovery /\ marker' = marker
  <1> USE VersionAssumption, BoundAssumption
  <1>1. /\ TypeOK /\ pc \in {"copy_exe", "copy_man"}
        /\ recovery = made /\ recovery \in BackupId
        /\ ~Whole(backup[recovery])
    BY DEF IInv, TypeOK, Copying, CopyExe, CopyMan, Whole, Empty
  <1>2. /\ backup' \in [BackupId -> Directory]
        /\ \A b \in BackupId \ {recovery} : backup'[b] = backup[b]
        /\ made' = made /\ recovery' = recovery /\ marker' = marker
    BY <1>1 DEF TypeOK, CopyExe, CopyMan, Pair, Directory, local
  <1>3. recovery \notin ValidBackups
    BY <1>1 DEF ValidBackups
  <1>4. marker # NoMarker => marker.recovery \in ValidBackups'
    BY <1>1, <1>2, <1>3
    DEF IInv, Recoverable, ValidBackups, Whole, BackupId, TypeOK
  <1>5. QED
    BY <1>2, <1>3, <1>4

(* What begins sets every local of its operation, and what ends clears it. *)
LEMMA LocalsStep == IInv /\ [Next]_vars => LocalsOK'
<1> SUFFICES ASSUME IInv, [Next]_vars PROVE LocalsOK'
  OBVIOUS
<1> USE VersionAssumption, BoundAssumption
    DEF Forward, Backward, Early, Late, Location, files, local
<1>0. LocalsOK /\ Empty \notin Pair /\ disk \in Pair /\ made \in Nat
  BY DEF IInv, TypeOK, Pair, Empty
<1>1. CASE \E c \in Candidate : BeginInstall(c)
  BY <1>0, <1>1 DEF BeginInstall, LocalsOK
<1>2. CASE BeginRollback
  <2>1. \A b \in ValidBackups : b # 0 /\ backup[b] \in Pair
    BY WholeIsPair DEF IInv, TypeOK, ValidBackups, BackupId
  <2>2. QED
    BY <1>0, <1>2, <2>1 DEF BeginRollback, IsLatest, LocalsOK
<1>3. CASE Cancel \/ Accept
  BY <1>0, <1>3 DEF Cancel, Accept, Finish, LocalsOK, IInv, TypeOK, Locations
<1>4. CASE CopyExe \/ CopyMan \/ WriteMarker
  BY <1>0, <1>4 DEF CopyExe, CopyMan, WriteMarker, Mark, LocalsOK
<1>5. CASE Stop \/ ReplaceExe \/ ReplaceMan \/ Start \/ Poll \/ ProbeReady
  BY <1>0, <1>5
  DEF Stop, ReplaceExe, ReplaceMan, Start, Poll, ProbeReady, LocalsOK
<1>6. CASE FailEarly \/ Archive
  BY <1>6 DEF FailEarly, Archive, Finish, LocalsOK
<1>7. ASSUME pc \in Late, Raise PROVE LocalsOK'
  <2>1. recovery # 0 /\ backup[recovery] \in Pair
    BY <1>7, WholeIsPair DEF IInv, TypeOK, Marked, ValidBackups, BackupId
  <2>2. QED
    BY <1>0, <1>7, <2>1 DEF Raise, TurnBack, GiveUp, Finish, LocalsOK
<1>8. CASE NotReady
  BY <1>7, <1>8 DEF NotReady
<1>9. CASE FailLate
  BY <1>0, <1>7, <1>9 DEF FailLate, LocalsOK
<1>10. CASE Boot
  <2>1. \A b \in ValidBackups : b # 0 /\ backup[b] \in Pair
    BY WholeIsPair DEF IInv, TypeOK, ValidBackups, BackupId
  <2>2. QED
    BY <1>0, <1>10, <2>1 DEF Boot, Recover, RecoverySource, IsLatest, LocalsOK
<1>11. CASE BootStart \/ ApiStart \/ ApiStop \/ SidecarExit \/ Crash
  BY <1>0, <1>11
  DEF BootStart, ApiStart, ApiStop, SidecarExit, Crash, LocalsOK
<1>12. CASE UNCHANGED vars
  BY <1>0, <1>12 DEF vars, LocalsOK
<1>13. QED
  BY <1>1, <1>2, <1>3, <1>4, <1>5, <1>6, <1>8, <1>9, <1>10, <1>11, <1>12
  DEF Next, Operation

(* An exception inside the try block turns the operation back to a whole   *)
(* backup, or ends it with the marker in place.                            *)
LEMMA RaiseKeepsIInv ==
    ASSUME IInv, pc \in Late, Raise, UNCHANGED <<files, image, crashes>>,
           faults' \in 0..MaxFaults, LocalsOK'
    PROVE  IInv'
  <1> USE VersionAssumption, BoundAssumption
      DEF Forward, Backward, Early, Late, files
  <1>1. /\ recovery \in ValidBackups /\ recovery \in BackupId
        /\ Whole(backup[recovery]) /\ backup[recovery] \in Pair
        /\ marker # NoMarker /\ marker.recovery = recovery
    BY WholeIsPair DEF IInv, TypeOK, Marked, ValidBackups, BackupId
  <1>2. ValidBackups' = ValidBackups
    BY DEF ValidBackups, Whole
  <1>3. CASE TurnBack
    <2>1. TypeOK'
      BY <1>1, <1>3 DEF IInv, TypeOK, TurnBack, Location
    <2>2. Locations' /\ Unmade' /\ Copying'
      BY <1>3 DEF IInv, Locations, Unmade, Copying, TurnBack
    <2>3. Recoverable' /\ Marked' /\ Payload'
      BY <1>1, <1>2, <1>3
      DEF IInv, Recoverable, Marked, Payload, TurnBack, Whole
    <2>4. History'
      BY <1>3 DEF IInv, History, TurnBack
    <2>5. QED
      BY <2>1, <2>2, <2>3, <2>4 DEF IInv
  <1>4. CASE GiveUp
    <2>1. TypeOK'
      BY <1>4 DEF IInv, TypeOK, GiveUp, Finish, Location, Status
    <2>2. Locations' /\ Unmade' /\ Copying' /\ Marked' /\ Payload' /\ History'
      BY <1>4
      DEF IInv, Locations, Unmade, Copying, Marked, Payload, History, GiveUp,
          Finish
    <2>3. Recoverable'
      BY <1>1, <1>2 DEF IInv, Recoverable, Whole
    <2>4. QED
      BY <2>1, <2>2, <2>3 DEF IInv
  <1>5. QED
    BY <1>3, <1>4 DEF Raise

(* Every step keeps the inductive invariant.                               *)
LEMMA NextIInv == IInv /\ [Next]_vars => IInv'
<1> SUFFICES ASSUME IInv, [Next]_vars PROVE IInv'
  OBVIOUS
<1> USE VersionAssumption, BoundAssumption
    DEF Forward, Backward, Early, Late, Location, Status, files, local
<1>0. TypeOK /\ Recoverable /\ LocalsOK'
  BY LocalsStep DEF IInv
<1>1. CASE \E c \in Candidate : BeginInstall(c)
  <2> PICK c \in Candidate : BeginInstall(c)
    BY <1>1
  <2>1. Staged[c] \in Pair
    OBVIOUS
  <2>2. TypeOK' /\ Recoverable'
    BY <1>0, <2>1 DEF BeginInstall, TypeOK, Recoverable, ValidBackups, Whole
  <2>3. Locations' /\ Unmade' /\ Copying' /\ Marked' /\ Payload' /\ History'
    BY <2>1
    DEF IInv, BeginInstall, Locations, Unmade, Copying, Marked, Payload, History,
        Whole, ValidBackups
  <2>4. QED
    BY <2>2, <2>3 DEF IInv
<1>2. CASE BeginRollback
  <2>1. \A b \in ValidBackups : b \in BackupId /\ backup[b] \in Pair
    BY <1>0, WholeIsPair DEF TypeOK, ValidBackups, BackupId
  <2>2. TypeOK' /\ Recoverable'
    BY <1>0, <1>2, <2>1
    DEF BeginRollback, IsLatest, TypeOK, Recoverable, ValidBackups, Whole, BackupId
  <2>3. Locations' /\ Unmade' /\ Copying' /\ Marked' /\ Payload' /\ History'
    BY <1>2, <2>1
    DEF IInv, BeginRollback, IsLatest, Locations, Unmade, Copying, Marked,
        Payload, History, Whole, ValidBackups
  <2>4. QED
    BY <2>2, <2>3 DEF IInv
<1>3. CASE Cancel
  BY <1>0, <1>3
  DEF IInv, Cancel, Finish, TypeOK, Recoverable, Locations, Unmade, Copying,
      Marked, Payload, History, ValidBackups, Whole
<1>4. CASE Accept
  <2>1. TypeOK'
    BY <1>0, <1>4 DEF Accept, Finish, TypeOK
  <2>2. \A b \in 1..made : b \in ValidBackups => b \in ValidBackups'
    BY <1>0, <1>4 DEF Accept, ValidBackups, Whole, TypeOK
  <2>3. Recoverable'
    BY <1>0, <1>4, <2>2 DEF Accept, Recoverable, ValidBackups, Whole
  <2>4. Locations' /\ Unmade'
    BY <1>0, <1>4
    DEF IInv, Accept, Finish, Locations, Unmade, TypeOK, BackupId
  <2>5. Copying'
    BY <1>0, <1>4, <2>2
    DEF IInv, Accept, Finish, Copying, Locations, Unmade, Payload, TypeOK, BackupId,
        Whole, ValidBackups
  <2>6. Marked' /\ Payload' /\ History'
    BY <1>4 DEF IInv, Accept, Finish, Marked, Payload, History, Whole
  <2>7. QED
    BY <2>1, <2>3, <2>4, <2>5, <2>6 DEF IInv
<1>5. CASE CopyExe
  <2> USE CopyKeepsBackups DEF CopyExe
  <2>1. TypeOK' /\ Recoverable'
    BY <1>0, <1>5 DEF TypeOK, Recoverable, Whole
  <2>2. Unmade' /\ Copying'
    BY <1>0, <1>5
    DEF IInv, TypeOK, Unmade, Copying, BackupId, Empty, Whole
  <2>3. Locations' /\ Marked' /\ Payload' /\ History'
    BY <1>5 DEF IInv, Locations, Marked, Payload, History
  <2>4. QED
    BY <2>1, <2>2, <2>3 DEF IInv
<1>6. CASE CopyMan
  <2> USE CopyKeepsBackups DEF CopyMan
  <2>1. TypeOK' /\ Recoverable'
    BY <1>0, <1>6 DEF TypeOK, Recoverable, Whole
  <2>2. Unmade' /\ Copying'
    BY <1>0, <1>6
    DEF IInv, TypeOK, Unmade, Copying, BackupId, Pair, Whole, ValidBackups
  <2>3. Locations' /\ Marked' /\ Payload' /\ History'
    BY <1>6 DEF IInv, Locations, Marked, Payload, History, Copying, Whole
  <2>4. QED
    BY <2>1, <2>2, <2>3 DEF IInv
<1>7. CASE WriteMarker
  <2>1. /\ recovery \in ValidBackups /\ recovery \in 1..MaxBackups
        /\ ValidBackups' = ValidBackups
    BY <1>0, <1>7
    DEF IInv, WriteMarker, Mark, Copying, Marked, ValidBackups, Whole, TypeOK
  <2>2. marker' # NoMarker /\ marker'.recovery = recovery
    BY <1>7, <2>1 DEF WriteMarker, Mark, NoMarker
  <2>3. TypeOK' /\ Recoverable'
    BY <1>0, <1>7, <2>1, <2>2
    DEF WriteMarker, Mark, TypeOK, MarkerState, Recoverable, Whole
  <2>4. Locations' /\ Unmade' /\ Copying' /\ Marked'
    BY <1>7, <2>1, <2>2
    DEF IInv, WriteMarker, Mark, Locations, Unmade, Copying, Marked
  <2>5. Payload' /\ History'
    BY <1>7
    DEF IInv, WriteMarker, Mark, Payload, History, Copying, Whole
  <2>6. QED
    BY <2>3, <2>4, <2>5 DEF IInv
<1>8. CASE FailEarly
  BY <1>0, <1>8
  DEF IInv, FailEarly, Fault, Finish, TypeOK, Recoverable, Locations, Unmade,
      Copying, Marked, Payload, History, ValidBackups, Whole
<1>9. CASE Stop
  BY <1>0, <1>9
  DEF IInv, Stop, TypeOK, Recoverable, Locations, Unmade, Copying, Marked,
      Payload, History, ValidBackups, Whole
<1>10. CASE ReplaceExe
  <2>1. payload \in Pair /\ marker # NoMarker
    BY <1>10 DEF IInv, ReplaceExe, Locations, Marked, Payload
  <2>2. TypeOK' /\ disk'.exe = payload.exe
    BY <1>0, <1>10, <2>1 DEF ReplaceExe, TypeOK, Pair
  <2>3. Recoverable'
    BY <1>0, <1>10, <2>1 DEF ReplaceExe, Recoverable, ValidBackups, Whole
  <2>4. Locations' /\ Unmade' /\ Copying' /\ Marked'
    BY <1>10
    DEF IInv, ReplaceExe, Locations, Unmade, Copying, Marked, ValidBackups, Whole
  <2>5. Payload' /\ History'
    BY <1>10, <2>2 DEF IInv, ReplaceExe, Payload, History, Whole
  <2>6. QED
    BY <2>2, <2>3, <2>4, <2>5 DEF IInv
<1>11. CASE ReplaceMan
  <2>1. payload \in Pair /\ marker # NoMarker
    BY <1>11 DEF IInv, ReplaceMan, Locations, Marked, Payload
  <2>2. TypeOK' /\ disk' = payload
    BY <1>0, <1>11, <2>1 DEF IInv, Payload, ReplaceMan, TypeOK, Pair
  <2>3. Recoverable'
    BY <1>0, <1>11, <2>1 DEF ReplaceMan, Recoverable, ValidBackups, Whole
  <2>4. Locations' /\ Unmade' /\ Copying' /\ Marked'
    BY <1>11
    DEF IInv, ReplaceMan, Locations, Unmade, Copying, Marked, ValidBackups, Whole
  <2>5. Payload' /\ History'
    BY <1>11, <2>2 DEF IInv, ReplaceMan, Payload, History, Whole
  <2>6. QED
    BY <2>2, <2>3, <2>4, <2>5 DEF IInv
<1>12. CASE Start \/ Poll \/ ProbeReady
  BY <1>0, <1>12
  DEF IInv, Start, Poll, ProbeReady, Launched, TypeOK, Pair, Recoverable,
      Locations, Unmade, Copying, Marked, Payload, History, ValidBackups, Whole
<1>13. CASE NotReady
  <2>1. faults' \in 0..MaxFaults
    BY <1>0, <1>13 DEF NotReady, TypeOK
  <2>2. QED
    BY <1>0, <1>13, <2>1, RaiseKeepsIInv DEF NotReady
<1>14. CASE Archive
  <2>1. Whole(disk) /\ disk \in Pair
    BY <1>0, <1>14 DEF IInv, Archive, Payload, Locations, TypeOK
  <2>2. TypeOK'
    BY <1>0, <1>14 DEF Archive, Finish, Outcome, TypeOK, NoMarker, MarkerState
  <2>3. Recoverable'
    BY <1>14, <2>1 DEF Archive, Recoverable, Whole
  <2>4. Locations' /\ Unmade' /\ Copying' /\ Marked' /\ Payload' /\ History'
    BY <1>14
    DEF IInv, Archive, Finish, Locations, Unmade, Copying, Marked, Payload,
        History
  <2>5. QED
    BY <2>2, <2>3, <2>4 DEF IInv
<1>15. CASE FailLate
  <2>1. faults' \in 0..MaxFaults
    BY <1>0, <1>15 DEF FailLate, Fault, TypeOK
  <2>2. CASE pc = "stop" /\ kind \in Backward
    BY <1>0, <1>15, <2>1, <2>2
    DEF IInv, FailLate, TypeOK, Recoverable, Locations, Unmade, Copying, Marked,
        Payload, History, ValidBackups, Whole
  <2>3. CASE ~(pc = "stop" /\ kind \in Backward)
    BY <1>0, <1>15, <2>1, <2>3, RaiseKeepsIInv DEF FailLate
  <2>4. QED
    BY <2>2, <2>3
<1>16. CASE Boot
  <2>1. ASSUME NEW b \in BackupId, RecoverySource(b),
               ~(marker = NoMarker /\ Whole(disk))
        PROVE  /\ b \in ValidBackups /\ backup[b] \in Pair /\ Whole(backup[b])
               /\ marker # NoMarker /\ marker.recovery = b
    BY <1>0, <2>1, WholeIsPair
    DEF RecoverySource, Recoverable, TypeOK, ValidBackups
  <2>2. TypeOK' /\ Recoverable'
    BY <1>0, <1>16, <2>1
    DEF Boot, Recover, TypeOK, Recoverable, ValidBackups, Whole, BackupId
  <2>3. Locations' /\ Unmade' /\ Copying' /\ Marked' /\ Payload' /\ History'
    BY <1>16, <2>1
    DEF IInv, Boot, Recover, Locations, Unmade, Copying, Marked, Payload,
        History, ValidBackups, Whole
  <2>4. QED
    BY <2>2, <2>3 DEF IInv
<1>17. CASE BootStart \/ ApiStart \/ ApiStop \/ SidecarExit
  BY <1>0, <1>17
  DEF IInv, BootStart, ApiStart, ApiStop, SidecarExit, Launched, TypeOK, Pair,
      Recoverable, Locations, Unmade, Copying, Marked, Payload, History,
      ValidBackups, Whole
<1>18. CASE Crash
  BY <1>0, <1>18
  DEF IInv, Crash, TypeOK, Recoverable, Locations, Unmade, Copying, Marked,
      Payload, History, ValidBackups, Whole
<1>19. CASE UNCHANGED vars
  BY <1>0, <1>19
  DEF IInv, vars, TypeOK, Recoverable, Locations, Unmade, Copying, Marked,
      Payload, History, ValidBackups, Whole
<1>20. QED
  BY <1>1, <1>2, <1>3, <1>4, <1>5, <1>6, <1>7, <1>8, <1>9, <1>10, <1>11, <1>12,
     <1>13, <1>14, <1>15, <1>16, <1>17, <1>18, <1>19
  DEF Next, Operation

(* The inductive invariant holds in every reachable state.                 *)
LEMMA Invariance == Spec => []IInv
  BY InitIInv, NextIInv, PTL DEF Spec

-----------------------------------------------------------------------------
(* Type correctness of the updater's state, for every value of the         *)
(* constants.                                                              *)
THEOREM TypeCorrect == Spec => []TypeOK
<1>1. IInv => TypeOK
  BY DEF IInv
<1>2. QED
  BY <1>1, Invariance, PTL

(* Wherever the Supervisor dies in updater.py, a torn pair has a marker    *)
(* and the marker names a backup that passes verification.                 *)
THEOREM AlwaysRecoverable == Spec => []Recoverable
<1>1. IInv => Recoverable
  BY DEF IInv
<1>2. QED
  BY <1>1, Invariance, PTL

(* _start_running is never reached over a torn pair.                       *)
THEOREM StartsOnlyWholePairs == Spec => []StartsWholePair
<1>1. IInv => StartsWholePair
  BY DEF IInv, Payload, Locations, StartsWholePair, Early, Late, Forward, Backward
<1>2. QED
  BY <1>1, Invariance, PTL

(* A committed install or rollback leaves what it replaced in the latest   *)
(* valid backup, where the next rollback looks.                            *)
THEOREM CommitsCanBeUndone == Spec => CommitCanBeUndone
<1> USE DEF Forward, Backward, Early, Late, files, local
<1>1. ASSUME IInv, [Next]_vars,
             marker # NoMarker, marker' = NoMarker, kind \in Forward
      PROVE  /\ disk' = payload /\ Whole(disk')
             /\ Whole(before) => backup[recovery] = before /\ IsLatest(recovery)
  <2>1. Archive
    BY <1>1
    DEF Next, Operation, BeginInstall, BeginRollback, Cancel, Accept, CopyExe,
        CopyMan, WriteMarker, Mark, NoMarker, FailEarly, Stop, ReplaceExe,
        ReplaceMan, Start, Poll, ProbeReady, NotReady, FailLate, Boot, BootStart,
        ApiStart, ApiStop, SidecarExit, Crash, vars
  <2>2. disk' = payload /\ Whole(payload)
    BY <1>1, <2>1 DEF Archive, IInv, Payload, Locations
  <2>3. CASE Whole(before)
    <3>1. /\ backup[recovery] = before /\ recovery = made
          /\ recovery \in ValidBackups
      BY <1>1, <2>1, <2>3 DEF Archive, IInv, History, Marked
    <3>2. IsLatest(recovery)
      BY <1>1, <3>1, BoundAssumption DEF IsLatest, ValidBackups, IInv, TypeOK
    <3>3. QED
      BY <2>2, <3>1, <3>2
  <2>4. QED
    BY <2>2, <2>3
<1>2. IInv /\ [Next]_vars =>
        [marker # NoMarker /\ marker' = NoMarker /\ kind \in Forward =>
           /\ disk' = payload /\ Whole(disk')
           /\ Whole(before) => backup[recovery] = before /\ IsLatest(recovery)]_vars
  BY <1>1
<1>3. QED
  BY <1>2, Invariance, PTL DEF Spec, CommitCanBeUndone

(* Every end of an install but a successful or a failed one puts back, or  *)
(* has left, the pair it found.                                            *)
THEOREM UnsuccessfulLeavesThePair == Spec => UnsuccessfulLeavesPair
<1> USE DEF Forward, Backward, Early, Late, files, local
<1>1. ASSUME IInv, [Next]_vars, result = "none", kind # "none",
             \/ result' \in {"cancelled", "raised"}
             \/ result' = "rolled_back" /\ kind = "undo_install"
      PROVE  disk' = before
  <2>1. \/ Cancel
        \/ Accept /\ kind = "install"
        \/ FailEarly
        \/ Archive /\ kind = "undo_install"
    BY <1>1
    DEF IInv, Locations, Next, Operation, BeginInstall, BeginRollback, Cancel,
        Accept, CopyExe, CopyMan, WriteMarker, FailEarly, Stop, ReplaceExe,
        ReplaceMan, Start, Poll, ProbeReady, NotReady, Archive, Outcome,
        FailLate, Boot, Recover, BootStart, ApiStart, ApiStop, SidecarExit,
        Crash, Finish, Raise, TurnBack, GiveUp, vars
  <2>2. CASE Cancel \/ Accept \/ FailEarly
    BY <1>1, <2>2 DEF Cancel, Accept, FailEarly, IInv, History
  <2>3. CASE Archive /\ kind = "undo_install"
    BY <1>1, <2>3 DEF Archive, IInv, History, Marked, Payload
  <2>4. QED
    BY <2>1, <2>2, <2>3
<1>2. IInv /\ [Next]_vars =>
        [(/\ result = "none" /\ kind # "none"
          /\ \/ result' \in {"cancelled", "raised"}
             \/ result' = "rolled_back" /\ kind = "undo_install")
         => disk' = before]_vars
  BY <1>1
<1>3. QED
  BY <1>2, Invariance, PTL DEF Spec, UnsuccessfulLeavesPair

-----------------------------------------------------------------------------
(* Refinement: the marker's backup is the abstract version.                *)

(* Under the mapping, an open transaction's version is its whole backup.   *)
LEMMA CommittedVersion ==
    ASSUME IInv
    PROVE  /\ Committed \in Version
           /\ marker = NoMarker => OnDisk = Committed
           /\ pc \in Late => Committed = backup[recovery].exe
  <1> USE VersionAssumption
  <1>1. CASE marker = NoMarker
    BY <1>1 DEF IInv, Recoverable, Marked, Committed, OnDisk, Whole
  <1>2. CASE marker # NoMarker
    BY <1>2 DEF IInv, Recoverable, Marked, Committed, ValidBackups, Whole
  <1>3. QED
    BY <1>1, <1>2

(* A step that leaves the files, the marker and the forward phase alone is *)
(* invisible in the abstract specification.                                *)
LEMMA Invisible ==
    ASSUME UNCHANGED <<disk, backup, marker>>, Goal' = Goal
    PROVE  UNCHANGED Atomic!avars
  BY DEF Atomic!avars, Committed, OnDisk, Whole

(* Turning back, giving up or dying drops the goal and nothing else.       *)
LEMMA DroppedGoal ==
    ASSUME UNCHANGED <<disk, backup, marker>>, Goal' = NoVersion
    PROVE  [Atomic!Next]_(Atomic!avars)
  BY DEF Atomic!avars, Atomic!Next, Atomic!Abandon, Committed, OnDisk, Whole

(* Every step of the updater is a step of AtomicPair, or none.             *)
LEMMA StepRefines ==
    ASSUME IInv, IInv', [Next]_vars
    PROVE  [Atomic!Next]_(Atomic!avars)
<1> USE VersionAssumption
    DEF Forward, Backward, Early, Late, files, local, Goal, Transacting
<1>0. /\ Committed \in Version
      /\ marker = NoMarker => OnDisk = Committed
      /\ pc \in Late => /\ Committed = backup[recovery].exe
                        /\ marker # NoMarker
      /\ pc \in Late /\ kind \in Backward => Committed = payload.exe
      /\ kind # "none" => Whole(payload) /\ payload.exe \in Version
      /\ Whole(disk) => disk.exe \in Version
  BY CommittedVersion DEF IInv, Marked, Payload, Pair, TypeOK
<1>1. CASE \/ \E c \in Candidate : BeginInstall(c)
           \/ BeginRollback \/ Cancel \/ Accept \/ FailEarly
  <2>1. UNCHANGED <<disk, backup, marker>> /\ Goal' = Goal
    BY <1>1
    DEF IInv, Locations, BeginInstall, BeginRollback, Cancel, Accept, FailEarly,
        Finish
  <2>2. QED
    BY <2>1, Invisible
<1>2. CASE CopyExe \/ CopyMan
  <2>1. \A b \in BackupId \ {recovery} : backup'[b] = backup[b]
    BY <1>2, CopyKeepsBackups
  <2>2. marker # NoMarker => marker.recovery \in BackupId \ {recovery}
    BY <1>2, CopyKeepsBackups, BoundAssumption
    DEF IInv, Recoverable, TypeOK, ValidBackups, BackupId
  <2>3. UNCHANGED <<disk, marker, Goal>>
    BY <1>2 DEF CopyExe, CopyMan
  <2>4. QED
    BY <2>1, <2>2, <2>3 DEF Atomic!avars, Committed, OnDisk, Whole
<1>3. CASE WriteMarker
  <2>1. CASE pc = "prepare"
    <3>1. /\ Goal = NoVersion /\ Goal' = payload.exe
          /\ UNCHANGED <<disk, backup, OnDisk>> /\ marker' # NoMarker
          /\ Committed' = backup[recovery].exe
      BY <1>3, <2>1 DEF IInv, Marked, WriteMarker, Mark, Committed, OnDisk, Whole
    <3>2. backup[recovery].exe = IF OnDisk = NoVersion THEN payload.exe ELSE OnDisk
      BY <1>0, <2>1 DEF IInv, Copying, OnDisk
    <3>3. kind # "none"
      BY <2>1 DEF IInv, Locations
    <3>4. Atomic!Begin(payload.exe)
      BY <3>1, <3>2 DEF Atomic!Begin
    <3>5. QED
      BY <1>0, <3>3, <3>4 DEF Atomic!Next
  <2>2. CASE pc # "prepare"
    BY <1>0, <1>3, <2>2
    DEF IInv, Marked, WriteMarker, Mark, Committed, OnDisk, Whole, Atomic!avars
  <2>3. QED
    BY <2>1, <2>2
<1>4. CASE ReplaceExe \/ ReplaceMan
  <2>1. /\ UNCHANGED <<Committed, marker, Goal>> /\ marker # NoMarker
        /\ OnDisk' \in {NoVersion, payload.exe}
    BY <1>0, <1>4
    DEF IInv, Locations, Payload, ReplaceExe, ReplaceMan, Committed, OnDisk,
        TypeOK, Pair, Whole
  <2>2. CASE kind \in Forward
    <3>1. Atomic!Apply
      BY <1>0, <1>4, <2>1, <2>2 DEF Atomic!Apply, ReplaceExe, ReplaceMan
    <3>2. QED
      BY <3>1 DEF Atomic!Next
  <2>3. CASE kind \in Backward
    <3>1. Atomic!Undo
      BY <1>0, <1>4, <2>1, <2>3 DEF Atomic!Undo, ReplaceExe, ReplaceMan
    <3>2. QED
      BY <3>1 DEF Atomic!Next
  <2>4. QED
    BY <1>4, <2>2, <2>3 DEF IInv, TypeOK, Locations, ReplaceExe, ReplaceMan
<1>5. CASE \/ Stop \/ Start \/ Poll \/ ProbeReady
           \/ BootStart \/ ApiStart \/ ApiStop \/ SidecarExit
  <2>1. UNCHANGED <<disk, backup, marker>> /\ Goal' = Goal
    BY <1>5
    DEF IInv, Locations, Stop, Start, Poll, ProbeReady, BootStart, ApiStart,
        ApiStop, SidecarExit
  <2>2. QED
    BY <2>1, Invisible
<1>6. CASE Archive
  <2>1. /\ disk = payload /\ OnDisk = payload.exe /\ kind # "none"
        /\ OnDisk' = OnDisk /\ Committed' = disk.exe
        /\ marker' = NoMarker /\ marker # NoMarker /\ Goal' = NoVersion
    BY <1>0, <1>6
    DEF IInv, Locations, Payload, Archive, Finish, OnDisk, Committed, Whole
  <2>2. CASE kind \in Forward
    <3>1. Atomic!Commit
      BY <1>0, <1>6, <2>1, <2>2 DEF Archive, Atomic!Commit
    <3>2. QED
      BY <3>1 DEF Atomic!Next
  <2>3. CASE kind \in Backward
    <3>1. Atomic!Settle
      BY <1>0, <1>6, <2>1, <2>3 DEF Archive, Atomic!Settle
    <3>2. QED
      BY <3>1 DEF Atomic!Next
  <2>4. QED
    BY <2>1, <2>2, <2>3 DEF IInv, TypeOK
<1>7. CASE NotReady \/ FailLate
  <2>1. UNCHANGED <<disk, backup, marker>> /\ Goal' = NoVersion
    BY <1>7
    DEF IInv, Locations, NotReady, FailLate, Raise, TurnBack, GiveUp, Finish
  <2>2. QED
    BY <2>1, DroppedGoal
<1>8. CASE Crash \/ Boot
  <2>1. UNCHANGED <<disk, backup, marker>> /\ Goal' = NoVersion
    BY <1>8 DEF IInv, Locations, Crash, Boot, Recover
  <2>2. QED
    BY <2>1, DroppedGoal
<1>9. CASE UNCHANGED vars
  BY <1>9, Invisible DEF vars
<1>10. QED
  BY <1>1, <1>2, <1>3, <1>4, <1>5, <1>6, <1>7, <1>8, <1>9 DEF Next, Operation

(* install, rollback and recover_interrupted_update together change the    *)
(* installed version atomically, whatever raises and whenever the process  *)
(* dies: the updater implements AtomicPair.                                *)
THEOREM UpdateIsAtomic == Spec => RefinesAtomicPair
<1>1. Init => Atomic!Init
  BY VersionAssumption
  DEF Init, Atomic!Init, Committed, OnDisk, Goal, Transacting, Forward, Late,
      NoMarker, Whole
<1>2. IInv /\ IInv' /\ [Next]_vars => [Atomic!Next]_(Atomic!avars)
  BY StepRefines
<1>3. QED
  BY <1>1, <1>2, Invariance, PTL DEF Spec, RefinesAtomicPair, Atomic!Spec

-----------------------------------------------------------------------------
(* That a Supervisor which died comes to serve over a whole pair is a      *)
(* matter of fairness, and fairness of two facts about steps: each step of *)
(* an operation, or of a start-up, leads nearer to its end, and only what  *)
(* raises during a recovery ends it over a torn pair.                      *)

(* The steps that an operation has before it, at most, its way back        *)
(* included: when it still replaces the pair, and when it restores one or  *)
(* the Supervisor starts.                                                  *)
Onward ==
    [confirm |-> 24, copy_exe |-> 23, copy_man |-> 22, prepare |-> 21, stop |-> 20,
     m_stopped |-> 19, m_replacing |-> 18, replace_exe |-> 17, m_replaced |-> 16,
     m_manifest |-> 15, replace_man |-> 14, m_starting |-> 13, start |-> 12,
     status |-> 11, probe |-> 10, archive |-> 9]
Homeward ==
    [down |-> 8, stop |-> 8, replace_exe |-> 7, replace_man |-> 6, start |-> 5,
     status |-> 4, probe |-> 3, archive |-> 2, boot |-> 1, idle |-> 0]

Left == IF kind \in Forward THEN Onward[pc] ELSE Homeward[pc]

(* An operation and a start-up end after a bounded number of their own     *)
(* steps, whatever raises on the way, and no other route of the control    *)
(* API puts that off; only a death of the Supervisor does.                 *)
OperationsAdvance ==
    [][pc # "idle" /\ ~Crash =>
         /\ Left' <= Left
         /\ Operation \/ Boot \/ BootStart => Left' < Left]_vars

(* A start-up begins to serve over a whole pair, unless its recovery was   *)
(* ended by something that raised.                                         *)
RecoveryMends ==
    [][pc # "boot" /\ pc' = "boot" => Whole(disk') \/ faults' > faults]_vars

(* No Sidecar runs while a recovery replaces its files, so that none of    *)
(* them is held.                                                           *)
Unheld ==
    kind = "recover" /\ pc \in {"replace_exe", "replace_man", "start"} => image = NoVersion

(* An exception in the try block sends an operation back or ends it.       *)
LEMMA RaiseAdvances ==
    ASSUME IInv, pc \in Late, Raise
    PROVE  Left' < Left
<1> USE DEF Forward, Backward, Early, Late, Onward, Homeward, Left
<1>1. CASE TurnBack
  BY <1>1 DEF TurnBack
<1>2. CASE GiveUp
  BY <1>2 DEF GiveUp, Finish, IInv, Locations
<1>3. QED
  BY <1>1, <1>2 DEF Raise

(* Each step of an operation or of a start-up has fewer before it.         *)
LEMMA OperationAdvances ==
    ASSUME IInv, Operation \/ Boot \/ BootStart
    PROVE  Left' < Left
<1> USE DEF Forward, Backward, Early, Late, Onward, Homeward, Left
<1>1. CASE CopyExe \/ CopyMan
  BY <1>1 DEF CopyExe, CopyMan, IInv, Locations, local
<1>2. CASE WriteMarker
  BY <1>2 DEF WriteMarker, Mark, local
<1>3. CASE Stop \/ ReplaceExe \/ ReplaceMan
  BY <1>3 DEF Stop, ReplaceExe, ReplaceMan, IInv, TypeOK, Locations, local
<1>4. CASE Start \/ Poll \/ ProbeReady
  BY <1>4 DEF Start, Poll, ProbeReady, IInv, TypeOK, Locations, local
<1>5. CASE NotReady
  BY <1>5, RaiseAdvances DEF NotReady
<1>6. CASE Archive
  BY <1>6 DEF Archive, Finish, IInv, TypeOK, Locations
<1>7. CASE FailEarly
  BY <1>7 DEF FailEarly, Finish, IInv, Locations
<1>8. CASE FailLate
  <2>1. CASE pc = "stop" /\ kind \in Backward
    BY <1>8, <2>1 DEF FailLate, local
  <2>2. CASE ~(pc = "stop" /\ kind \in Backward)
    BY <1>8, <2>2, RaiseAdvances DEF FailLate
  <2>3. QED
    BY <2>1, <2>2
<1>9. CASE Boot \/ BootStart
  BY <1>9 DEF Boot, BootStart, Recover, IInv, Locations, local
<1>10. QED
  BY <1>1, <1>2, <1>3, <1>4, <1>5, <1>6, <1>7, <1>8, <1>9 DEF Operation

(* Whatever raises in install, rollback and recover_interrupted_update,    *)
(* each of them comes to its end.                                          *)
THEOREM UpdateAdvances == Spec => OperationsAdvance
<1> USE DEF Forward, Backward, Early, Late, Location, Onward, Homeward, Left
<1>1. ASSUME IInv, [Next]_vars, pc # "idle", ~Crash
      PROVE  /\ Left' <= Left
             /\ Operation \/ Boot \/ BootStart => Left' < Left
  <2>1. CASE Operation \/ Boot \/ BootStart
    <3>1. Left' < Left
      BY <1>1, <2>1, OperationAdvances
    <3>2. Left \in Nat /\ Left' \in Nat
      BY <1>1, NextIInv DEF IInv, TypeOK, Locations
    <3>3. QED
      BY <3>1, <3>2
  <2>2. CASE Cancel \/ Accept
    BY <1>1, <2>2 DEF Cancel, Accept, Finish, IInv, Locations, Operation, CopyExe,
       CopyMan, WriteMarker, Mark, Stop, ReplaceExe, ReplaceMan, Start, Poll,
       ProbeReady, NotReady, Archive, FailEarly, FailLate, Boot, BootStart
  <2>3. CASE UNCHANGED <<pc, kind>>
    <3>1. Left' = Left /\ Left \in Nat
      BY <1>1, <2>3 DEF IInv, TypeOK, Locations
    <3>2. QED
      BY <1>1, <3>1, OperationAdvances
  <2>4. QED
    BY <1>1, <2>1, <2>2, <2>3
    DEF Next, BeginInstall, BeginRollback, ApiStart, ApiStop, SidecarExit, local, vars
<1>2. IInv /\ [Next]_vars =>
        [pc # "idle" /\ ~Crash =>
           /\ Left' <= Left
           /\ Operation \/ Boot \/ BootStart => Left' < Left]_vars
  BY <1>1
<1>3. QED
  BY <1>2, Invariance, PTL DEF Spec, OperationsAdvance

(* recover_interrupted_update restores what the marker names: a start-up   *)
(* in which nothing raises serves over a whole pair.                       *)
THEOREM RecoveryHeals == Spec => RecoveryMends
<1> USE DEF Forward, Backward, Early, Late, files, local
<1>1. Init => Unheld
  BY DEF Init, Unheld
<1>2. IInv /\ Unheld /\ [Next]_vars => Unheld'
  <2> SUFFICES ASSUME IInv, Unheld, [Next]_vars, kind' = "recover",
                      pc' \in {"replace_exe", "replace_man", "start"}
               PROVE  image' = NoVersion
    BY DEF Unheld
  <2>1. CASE Boot
    BY <2>1 DEF Boot
  <2>2. CASE ReplaceExe \/ ReplaceMan
    BY <2>2 DEF ReplaceExe, ReplaceMan, Unheld
  <2>3. CASE UNCHANGED <<pc, kind, image>> \/ image' = NoVersion
    BY <2>3 DEF Unheld
  <2>4. QED
    BY <2>1, <2>2, <2>3
    DEF Next, Operation, BeginInstall, BeginRollback, Cancel, Accept, CopyExe,
        CopyMan, WriteMarker, Mark, FailEarly, Finish, Stop, Start, Poll,
        ProbeReady, NotReady, Raise, TurnBack, GiveUp, Archive, FailLate,
        BootStart, ApiStart, ApiStop, Awaiting, SidecarExit, Crash, vars, IInv,
        Locations
<1>3. ASSUME IInv, Unheld, [Next]_vars, pc # "boot", pc' = "boot"
      PROVE  Whole(disk') \/ faults' > faults
  <2>1. CASE Boot
    BY <1>3, <2>1 DEF Boot, Recover, IInv, Recoverable, Whole
  <2>2. CASE Archive
    BY <1>3, <2>2 DEF Archive, IInv, Payload, Locations, Whole
  <2>3. CASE NotReady
    BY <1>3, <2>3 DEF NotReady, IInv, Payload, Locations, Whole
  <2>4. CASE FailEarly \/ FailLate
    <3>1. CASE Fault
      BY <1>3, <3>1 DEF Fault, IInv, TypeOK
    <3>2. CASE FailLate /\ pc = "replace_exe" /\ image # NoVersion
      BY <1>3, <3>2 DEF FailLate, Raise, TurnBack, GiveUp, Finish, Unheld
    <3>3. QED
      BY <2>4, <3>1, <3>2 DEF FailEarly, FailLate
  <2>5. QED
    BY <1>3, <2>1, <2>2, <2>3, <2>4
    DEF Next, Operation, BeginInstall, BeginRollback, Cancel, Accept, CopyExe,
        CopyMan, WriteMarker, Mark, Finish, Stop, ReplaceExe, ReplaceMan, Start,
        Poll, ProbeReady, BootStart, ApiStart, ApiStop, SidecarExit, Crash, vars,
        IInv, Locations
<1>4. IInv /\ Unheld /\ [Next]_vars =>
        [pc # "boot" /\ pc' = "boot" => Whole(disk') \/ faults' > faults]_vars
  BY <1>3
<1>5. QED
  BY <1>1, <1>2, <1>4, Invariance, PTL DEF Spec, RecoveryMends

=============================================================================
