-------------------------- MODULE ProviderCatalogue --------------------------
(***************************************************************************)
(* The tables that the Gateway and the Supervisor share about providers:   *)
(* the model catalogue and its discovery state (models/registry.py), a     *)
(* custom provider's connection (openai_compatible/storage.py) and the     *)
(* export selection (integrations/selection.py), under the jobs that       *)
(* change them: an Antigravity discovery in either process, the route that *)
(* saves a custom provider, and the route that replaces the selection.     *)
(*                                                                         *)
(* SQLite through its legacy driver: a SELECT before a transaction's first *)
(* write sees the committed state and holds nothing; the first write takes *)
(* the one write lock, and COMMIT makes the whole transaction visible.     *)
(***************************************************************************)
EXTENDS Naturals, FiniteSets

CONSTANTS
    Model,
    Discovery,   \* discoveries of Antigravity models
    Save,        \* calls that save the custom provider
    Choice,      \* calls that replace the export selection
    Answers,     \* model lists an upstream may answer; {} is one nobody can use
    Manual,      \* model lists a save may configure
    Forms,       \* how well formed a save's request may be
    MaxFaults    \* bound: jobs that die

ASSUME BoundAssumption == MaxFaults \in Nat
ASSUME AnswerAssumption ==
    Answers \subseteq SUBSET Model /\ Manual \subseteq SUBSET Model
ASSUME FormAssumption == Forms \subseteq {"plain", "authorization", "malformed"}
ASSUME JobAssumption ==
    /\ Discovery \cap Save = {} /\ Discovery \cap Choice = {} /\ Save \cap Choice = {}
    /\ "nobody" \notin Discovery \cup Save \cup Choice
    /\ IsFiniteSet(Discovery \cup Save)

VARIABLES
    available,   \* the models of each provider with available = TRUE
    verdict,     \* provider_discovery_state, and the job it is about
    row,         \* the custom provider: the save it is from, and if it has an API key
    selection,   \* harness_export_provider_preferences
    writer,      \* the job that holds SQLite's write lock
    job,         \* each job's locals
    clock,
    answered,    \* history: what each provider's upstreams answered
    succeeded,   \* history: the stamp of each provider's last committed success
    past,        \* history: the stamps of all of them, and 0
    overlapped,  \* history: providers two of whose jobs were under way together
    faults

db == <<available, verdict, row, selection>>
history == <<answered, succeeded, past, overlapped>>
vars == <<db, writer, job, clock, history, faults>>

Nobody == "nobody"
Provider == {"antigravity", "custom"}
Job == Discovery \cup Save \cup Choice
Of(j) == IF j \in Discovery THEN "antigravity" ELSE "custom"
Writers == Discovery \cup Save

Idle ==
    [pc |-> "idle", key |-> FALSE, models |-> {}, found |-> {}, stamp |-> 0,
     last |-> 0, known |-> FALSE, form |-> "plain", listed |-> {}, enabled |-> {}]

Init ==
    /\ available = [p \in Provider |-> {}]
    /\ verdict = [p \in Provider |->
                    [state |-> "none", last |-> 0, error |-> "none", of |-> Nobody]]
    /\ row = [of |-> Nobody, key |-> FALSE]
    /\ selection = [p \in Provider |-> "unset"]
    /\ writer = Nobody
    /\ job = [j \in Job |-> Idle]
    /\ clock = 0
    /\ answered = [p \in Provider |-> {}]
    /\ succeeded = [p \in Provider |-> 0]
    /\ past = [p \in Provider |-> {0}]
    /\ overlapped = {}
    /\ faults = 0

At(j, pc) == job[j].pc = pc
Goto(j, pc) == job' = [job EXCEPT ![j].pc = pc]
(* The job goes on, or ends, and needs none of its locals any more.        *)
Forget(j, pc) == job' = [job EXCEPT ![j] = [Idle EXCEPT !.pc = pc]]
Ended(j) == job[j].pc \in {"done", "refused", "raised"}
UnderWay(j) == job[j].pc # "idle" /\ ~Ended(j)

(* The selection's route awaits nothing: until it ends the Supervisor's    *)
(* event loop begins no other selection, and takes no save from one of its *)
(* threads or its request on to the next.  A thread that has begun, and    *)
(* the Gateway, go on.                                                     *)
LoopFree == \A k \in Choice : ~UnderWay(k)

(* A provider in the catalogue, one that is not kept out of the exports,   *)
(* and one an export would contain.                                        *)
Listed(p) == available[p] # {}
Enabled(p) == selection[p] # "off"
Exported(p) == Listed(p) /\ Enabled(p)

(* What the dashboard says of the custom provider.                         *)
Verification ==
    IF verdict["custom"].error = "not_verified" \/ verdict["custom"].state = "none"
      THEN "unverified"
    ELSE IF verdict["custom"].state = "available" THEN "verified"
    ELSE "connection_failed"

(* A job of p begins.                                                      *)
Enter(j) ==
    overlapped' = IF \E k \in Writers \ {j} : Of(k) = Of(j) /\ UnderWay(k)
                  THEN overlapped \cup {Of(j)} ELSE overlapped

-----------------------------------------------------------------------------
(* AntigravityDiscovery.refresh, and a save's probe, ask the upstream.     *)

Discover(j) ==
    /\ j \in Discovery /\ At(j, "idle")
    /\ Enter(j)
    /\ Goto(j, "asking")
    /\ UNCHANGED <<db, writer, clock, answered, succeeded, past, faults>>

(* The request fails: no connection, a refusal, an error, not JSON.        *)
NoAnswer(j) ==
    /\ At(j, "asking")
    /\ j \in Save => LoopFree
    /\ Goto(j, "fail_read")
    /\ UNCHANGED <<db, writer, clock, history, faults>>

(* refresh_success stamps the list before it asks for the lock.            *)
Take(j, found) ==
    /\ clock' = clock + 1
    /\ job' = [job EXCEPT ![j].pc = "mark", ![j].found = found, ![j].stamp = clock']
    /\ answered' = [answered EXCEPT ![Of(j)] = @ \cup {found}]

(* An empty list and one with an invalid or a repeated model are not used. *)
Usable(found) == found # {}

Answered(j, found) ==
    /\ j \in Discovery /\ At(j, "asking")
    /\ \/ Usable(found) /\ Take(j, found)
       \/ ~Usable(found) /\ Goto(j, "fail_read") /\ UNCHANGED <<clock, answered>>
    /\ UNCHANGED <<db, writer, succeeded, past, overlapped, faults>>

(* Mutant: a list the probe cannot use leaves the route at once.           *)
MutProbed(j, found) ==
    /\ j \in Save /\ At(j, "asking") /\ LoopFree
    /\ \/ Usable(found) /\ Take(j, found)
       \/ ~Usable(found) /\ Forget(j, "done") /\ UNCHANGED <<clock, answered>>
    /\ UNCHANGED <<db, writer, succeeded, past, overlapped, faults>>

(* The save's own probe.                                                   *)
Probed(j, found) ==
    /\ j \in Save /\ At(j, "asking") /\ LoopFree
    /\ \/ Usable(found) /\ Take(j, found)
       \/ ~Usable(found) /\ Goto(j, "fail_read") /\ UNCHANGED <<clock, answered>>
    /\ UNCHANGED <<db, writer, succeeded, past, overlapped, faults>>

(* Mutant: each statement is committed by itself.                          *)
MutMark(j) ==
    /\ At(j, "mark") /\ writer = Nobody
    /\ writer' = j
    /\ available' = [available EXCEPT ![Of(j)] = {}]
    /\ Goto(j, "commit")
    /\ UNCHANGED <<verdict, row, selection, clock, history, faults>>

(* The transaction's first statement marks every model unavailable and     *)
(* takes the lock; nobody else sees it yet.                                *)
Mark(j) ==
    /\ At(j, "mark") /\ writer = Nobody
    /\ writer' = j
    /\ Goto(j, "commit")
    /\ UNCHANGED <<db, clock, history, faults>>

(* Mutant: models that are missing from the answer stay available.         *)
MutRefreshed(j, models) ==
    [available EXCEPT ![Of(j)] = @ \cup models]

Refreshed(j, models) == [available EXCEPT ![Of(j)] = models]

Snapshot(j, state, last, error) ==
    [verdict EXCEPT ![Of(j)] =
       [state |-> state, last |-> last, error |-> error, of |-> j]]

RefreshSuccess(j) ==
    /\ At(j, "commit")
    /\ available' = Refreshed(j, job[j].found)
    /\ verdict' = Snapshot(j, "available", job[j].stamp, "none")
    /\ writer' = Nobody
    /\ succeeded' = [succeeded EXCEPT ![Of(j)] = job[j].stamp]
    /\ past' = [past EXCEPT ![Of(j)] = @ \cup {job[j].stamp}]
    /\ Forget(j, "done")
    /\ UNCHANGED <<row, selection, clock, answered, overlapped, faults>>

(* record_failure reads the last success and whether there is a row, both  *)
(* before its first write.                                                 *)
FailRead(j) ==
    /\ At(j, "fail_read")
    /\ job' = [job EXCEPT ![j].pc = "fail_write",
                          ![j].last = verdict[Of(j)].last,
                          ![j].known = verdict[Of(j)].state # "none"]
    /\ UNCHANGED <<db, writer, clock, history, faults>>

(* Mutant: the time of the attempt is stored as that of the last success.  *)
MutRecordFailure(j) ==
    /\ At(j, "fail_write") /\ writer = Nobody
    /\ verdict' = Snapshot(j, "stale", clock, "failed")
    /\ Forget(j, "done")
    /\ UNCHANGED <<available, row, selection, writer, clock, history, faults>>

(* Another job's row makes the INSERT fail, which nobody handles.          *)
RecordFailure(j) ==
    /\ At(j, "fail_write") /\ writer = Nobody
    /\ IF ~job[j].known /\ verdict[Of(j)].state # "none"
       THEN Forget(j, "raised") /\ UNCHANGED verdict
       ELSE Forget(j, "done")
            /\ verdict' = Snapshot(j, "stale", job[j].last, "failed")
    /\ UNCHANGED <<available, row, selection, writer, clock, history, faults>>

-----------------------------------------------------------------------------
(* POST /api/control/providers/openai-compatible: load, replace, probe and *)
(* record, each a hop to a thread.                                         *)

BeginSave(j, models, keyed, form) ==
    /\ j \in Save /\ At(j, "idle") /\ LoopFree
    /\ Enter(j)
    /\ job' = [job EXCEPT ![j].pc = IF keyed THEN "replace" ELSE "load",
                          ![j].key = keyed,
                          ![j].models = models, ![j].form = form]
    /\ UNCHANGED <<db, writer, clock, answered, succeeded, past, faults>>

(* Without a key in the request the stored one is kept.                    *)
LoadKey(j) ==
    /\ At(j, "load")
    /\ job' = [job EXCEPT ![j].pc = "replace", ![j].key = row.key]
    /\ UNCHANGED <<db, writer, clock, history, faults>>

(* Well formed, and not two credentials: an API key, which may be the      *)
(* stored one, and an Authorization header.                                *)
Valid(j) ==
    \/ job[j].form = "plain"
    \/ job[j].form = "authorization" /\ ~job[j].key

ReplaceRefused(j) ==
    /\ At(j, "replace") /\ ~Valid(j)
    /\ Forget(j, "refused")
    /\ UNCHANGED <<db, writer, clock, history, faults>>

(* With a catalogue to store, replace selects the last success before its  *)
(* first write ...                                                         *)
ReplaceRead(j) ==
    /\ At(j, "replace") /\ Valid(j) /\ job[j].models # {}
    /\ job' = [job EXCEPT ![j].pc = "replace_mark", ![j].form = "plain",
                          ![j].last = verdict["custom"].last]
    /\ UNCHANGED <<db, writer, clock, history, faults>>

(* ... and without one whether the provider exists.                        *)
RowRead(j) ==
    /\ At(j, "replace") /\ Valid(j) /\ job[j].models = {}
    /\ job' = [job EXCEPT ![j].pc = "row", ![j].form = "plain",
                          ![j].known = row.of # Nobody]
    /\ UNCHANGED <<db, writer, clock, history, faults>>

ReplaceMark(j) ==
    /\ At(j, "replace_mark") /\ writer = Nobody
    /\ writer' = j
    /\ Goto(j, "replace_commit")
    /\ UNCHANGED <<db, clock, history, faults>>

Stored(j) == [of |-> j, key |-> job[j].key]

(* The configured catalogue, its unverified state and the connection       *)
(* become visible together.                                                *)
ReplaceCommit(j) ==
    /\ At(j, "replace_commit")
    /\ available' = Refreshed(j, job[j].models)
    /\ verdict' = Snapshot(j, "stale", job[j].last, "not_verified")
    /\ row' = Stored(j)
    /\ writer' = Nobody
    /\ Forget(j, "asking")
    /\ UNCHANGED <<selection, clock, history, faults>>

(* Without a catalogue only the connection changes.                        *)
ReplaceRow(j) ==
    /\ At(j, "row") /\ writer = Nobody
    /\ IF ~job[j].known /\ row.of # Nobody
       THEN Forget(j, "refused") /\ UNCHANGED row
       ELSE Forget(j, "asking") /\ row' = Stored(j)
    /\ UNCHANGED <<available, verdict, selection, writer, clock, history, faults>>

-----------------------------------------------------------------------------
(* POST /api/control/integrations/export-providers                         *)

Choose(j, enabled) ==
    /\ j \in Choice /\ At(j, "idle") /\ LoopFree
    /\ LET listed == {p \in Provider : Listed(p)} IN
       IF enabled \subseteq listed
       THEN job' = [job EXCEPT ![j].pc = "delete",
                               ![j].listed = listed, ![j].enabled = enabled]
       ELSE Forget(j, "refused")
    /\ UNCHANGED <<db, writer, clock, history, faults>>

(* Mutant: the rows are deleted in a transaction of their own.             *)
MutDelete(j) ==
    /\ At(j, "delete") /\ writer = Nobody
    /\ selection' = [p \in Provider |-> "unset"]
    /\ writer' = j
    /\ Goto(j, "insert")
    /\ UNCHANGED <<available, verdict, row, clock, history, faults>>

Delete(j) ==
    /\ At(j, "delete") /\ writer = Nobody
    /\ writer' = j
    /\ Goto(j, "insert")
    /\ UNCHANGED <<db, clock, history, faults>>

Insert(j) ==
    /\ At(j, "insert")
    /\ selection' = [p \in Provider |->
          IF p \notin job[j].listed THEN "unset"
          ELSE IF p \in job[j].enabled THEN "on" ELSE "off"]
    /\ writer' = Nobody
    /\ Forget(j, "done")
    /\ UNCHANGED <<available, verdict, row, clock, history, faults>>

-----------------------------------------------------------------------------
(* Mutant: a transaction that fails is not rolled back.                    *)
MutDie(j) ==
    /\ UnderWay(j) /\ faults < MaxFaults
    /\ Forget(j, "raised")
    /\ faults' = faults + 1
    /\ UNCHANGED <<db, writer, clock, history>>

(* The process dies, or a statement raises ("database is locked" after     *)
(* five seconds): an open transaction is rolled back.                      *)
Die(j) ==
    /\ UnderWay(j) /\ faults < MaxFaults
    /\ Forget(j, "raised")
    /\ writer' = IF writer = j THEN Nobody ELSE writer
    /\ faults' = faults + 1
    /\ UNCHANGED <<db, clock, history>>

Step(j) ==
    \/ NoAnswer(j) \/ \E found \in Answers : Answered(j, found) \/ Probed(j, found)
    \/ Mark(j) \/ RefreshSuccess(j) \/ FailRead(j) \/ RecordFailure(j)
    \/ LoadKey(j) \/ ReplaceRefused(j) \/ ReplaceRead(j) \/ RowRead(j)
    \/ ReplaceMark(j) \/ ReplaceCommit(j) \/ ReplaceRow(j)
    \/ Delete(j) \/ Insert(j)

Begin(j) ==
    \/ Discover(j)
    \/ \E models \in Manual, keyed \in BOOLEAN, form \in Forms : BeginSave(j, models, keyed, form)
    \/ \E enabled \in SUBSET Provider : Choose(j, enabled)

Next == \E j \in Job : Begin(j) \/ Step(j) \/ Die(j)

Spec == Init /\ [][Next]_vars

-----------------------------------------------------------------------------
Stamp == 0..Cardinality(Writers)

TypeOK ==
    /\ available \in [Provider -> SUBSET Model]
    /\ verdict \in [Provider -> [state : {"none", "available", "stale"}, last : Stamp,
                                 error : {"none", "failed", "not_verified"},
                                 of : Writers \cup {Nobody}]]
    /\ row \in [of : Save \cup {Nobody}, key : BOOLEAN]
    /\ selection \in [Provider -> {"unset", "on", "off"}]
    /\ writer \in Job \cup {Nobody}
    /\ \A j \in Job :
          /\ job[j].pc \in {"idle", "asking", "mark", "commit", "fail_read", "fail_write",
                            "load", "replace", "replace_mark", "replace_commit", "row",
                            "delete", "insert", "done", "refused", "raised"}
          /\ job[j].pc \in {"commit", "replace_commit", "insert"} <=> writer = j
    /\ clock \in Stamp
    /\ faults \in 0..MaxFaults

(* A provider whose state is "available" offers exactly the models of one  *)
(* discovery: none that has disappeared upstream, and none that was only   *)
(* configured ("without claiming live verification").                      *)
VerifiedIsOneDiscovery ==
    \A p \in Provider :
       verdict[p].state = "available" => available[p] \in answered[p]

(* "An empty result ... cannot erase a previously useful catalogue": no    *)
(* reader ever finds an emptied catalogue, not even during a refresh.      *)
CatalogueNeverErased ==
    [][\A p \in Provider : Listed(p) => Listed(p)']_vars

(* Once a provider's jobs have ended, none having died and no two having   *)
(* overlapped, a stored custom provider's verdict is that of the probe of  *)
(* the connection that is stored (the save route).                         *)
SoloSaveSettles ==
    /\ row.of # Nobody /\ "custom" \notin overlapped
    /\ \A j \in Save : job[j].pc \in {"idle", "done", "refused"}
    => verdict["custom"].of = row.of /\ Verification # "unverified"

(* Unless a provider's jobs overlapped, its last success is the time of    *)
(* the last discovery that was committed: no failure and no configuration  *)
(* invents, loses or moves it (record_failure,                             *)
(* refresh_configured_in_transaction).                                     *)
SoloKeepsLastSuccess ==
    \A p \in Provider \ overlapped : verdict[p].last = succeeded[p]

(* What the jobs in progress have already done to the tables.              *)
Probing == {"asking", "mark", "commit", "fail_read", "fail_write"}
Phase(j) ==
    IF Ended(j) THEN "over"
    ELSE IF j \in Save /\ job[j].pc \in Probing THEN "stored" ELSE "before"

Atomic == INSTANCE AtomicCatalogue WITH
    connection <- row.of,
    phase <- [j \in Writers |-> Phase(j)],
    About <- [j \in Writers |-> Of(j)],
    NoJob <- Nobody

(* Each transaction is one step to every reader, no failure touches a      *)
(* catalogue ("an empty result ... cannot erase a previously useful        *)
(* catalogue"), and no last success is invented, overlapping jobs or not.  *)
RefinesAtomicCatalogue == Atomic!Spec

(* A provider that is kept out of the exports gets in only by the COMMIT   *)
(* of a selection that names it (replace_export_providers): not by a       *)
(* discovery or a save, whose COMMITs may come between the reading of the  *)
(* catalogue and that of the selection, nor by a selection that stops      *)
(* half-way.                                                               *)
DisabledStaysOut ==
    [][\A p \in Provider : Listed(p) /\ ~Exported(p) /\ Exported(p)' =>
          \E j \in Choice : writer = j /\ writer' = Nobody /\ p \in job[j].enabled]_vars
=============================================================================
