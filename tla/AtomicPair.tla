----------------------------- MODULE AtomicPair -----------------------------
(***************************************************************************)
(* What the Sidecar updater promises of the two files it replaces: though  *)
(* they change one after the other, there is at every moment one version   *)
(* that an interruption would leave installed, and it changes in one step. *)
(*                                                                         *)
(*   version   the version an interruption now would lead back to          *)
(*   disk      the version of the installed pair, or Torn                  *)
(*   goal      the version being installed, or NoGoal                      *)
(*   open      an operation has begun and is not settled                   *)
(***************************************************************************)
CONSTANTS Version, Torn, NoGoal

VARIABLES version, disk, goal, open

avars == <<version, disk, goal, open>>

Init ==
    /\ version \in Version
    /\ disk = version
    /\ goal = NoGoal
    /\ open = FALSE

(* A new operation takes the pair it finds as the one to come back to; if  *)
(* an earlier one left a torn pair, it has only its own goal to go to.     *)
Begin(v) ==
    /\ goal = NoGoal
    /\ goal' = v
    /\ version' = IF disk = Torn THEN v ELSE disk
    /\ open' = TRUE
    /\ UNCHANGED disk

Apply ==
    /\ goal # NoGoal
    /\ disk' \in {Torn, goal}
    /\ UNCHANGED <<version, goal, open>>

(* The only step that makes the new version the installed one.             *)
Commit ==
    /\ goal # NoGoal
    /\ disk = goal
    /\ version' = goal
    /\ goal' = NoGoal
    /\ open' = FALSE
    /\ UNCHANGED disk

Abandon ==
    /\ goal # NoGoal
    /\ goal' = NoGoal
    /\ UNCHANGED <<version, disk, open>>

Undo ==
    /\ open /\ goal = NoGoal
    /\ disk' \in {Torn, version}
    /\ UNCHANGED <<version, goal, open>>

Settle ==
    /\ open /\ goal = NoGoal
    /\ disk = version
    /\ open' = FALSE
    /\ UNCHANGED <<version, disk, goal>>

Next ==
    \/ \E v \in Version : Begin(v)
    \/ Apply \/ Commit \/ Abandon \/ Undo \/ Settle

Spec == Init /\ [][Next]_avars

=============================================================================
