------------------------ MODULE ProviderCatalogueProofs ------------------------
(***************************************************************************)
(* Proofs, for any models, answers and jobs of both processes, that a      *)
(* provider called available offers one discovery's models, that no reader *)
(* finds an emptied catalogue, that jobs which do not overlap keep the     *)
(* last success and settle the verdict, and that a provider kept out of    *)
(* the exports gets in only by name.                                       *)
(***************************************************************************)
EXTENDS ProviderCatalogue, TLAPS, FiniteSetTheorems

Over == {"idle", "done", "refused", "raised"}
Saving == {"load", "replace", "replace_mark", "replace_commit", "row"}
Choosing == {"delete", "insert"}

Fields ==
    {"pc", "key", "models", "found", "stamp", "last", "known", "form", "listed", "enabled"}

(* What the tables are functions of; their contents' types play no part.   *)
Shaped ==
    /\ DOMAIN job = Job /\ \A j \in Job : DOMAIN job[j] = Fields
    /\ DOMAIN available = Provider /\ DOMAIN verdict = Provider
    /\ DOMAIN selection = Provider
    /\ DOMAIN answered = Provider /\ DOMAIN succeeded = Provider

(* Which job stands where, and who holds the write lock.                   *)
Placed ==
    \A j \in Job :
       /\ job[j].pc \in Probing => j \in Writers
       /\ job[j].pc \in Saving => j \in Save
       /\ job[j].pc \in Choosing => j \in Choice
       /\ job[j].pc \in {"commit", "replace_commit", "insert"} => writer = j

(* What a job carries to its COMMIT.                                       *)
Carried ==
    \A j \in Job :
       /\ job[j].pc \in {"mark", "commit"} =>
             job[j].found # {} /\ job[j].found \in answered[Of(j)]
       /\ job[j].pc \in {"replace_mark", "replace_commit"} => job[j].models # {}

(* Two jobs of a provider that are under way are known to have overlapped. *)
Noticed ==
    \A j, k \in Writers :
       j # k /\ Of(j) = Of(k) /\ UnderWay(j) /\ UnderWay(k) => Of(j) \in overlapped

(* So what the only job under way has read is still true when it writes.   *)
Current ==
    \A j \in Writers : Of(j) \notin overlapped =>
       /\ job[j].pc \in {"fail_write", "replace_mark", "replace_commit"} =>
             job[j].last = verdict[Of(j)].last
       /\ j \in Save /\ job[j].pc \in Probing => row.of = j

(* The stored connection is being probed, or its verdict is in.            *)
Settled == verdict["custom"].of = row.of /\ Verification # "unverified"
Settling ==
    "custom" \notin overlapped /\ (\A j \in Save : job[j].pc # "raised") =>
       \/ row.of = Nobody \/ Settled
       \/ \E j \in Save : job[j].pc \in Probing

IInv ==
    /\ Shaped /\ Placed /\ Carried /\ Noticed /\ Current
    /\ VerifiedIsOneDiscovery /\ SoloKeepsLastSuccess /\ Settling

LEMMA Sets ==
    /\ Nobody \notin Job /\ Writers \subseteq Job
    /\ \A j \in Job : Of(j) \in Provider
    /\ \A j \in Save : j \in Writers /\ j \in Job /\ j \notin Discovery /\ j \notin Choice
                       /\ Of(j) = "custom"
    /\ \A j \in Discovery : j \in Writers /\ j \in Job /\ Of(j) = "antigravity"
    /\ \A j \in Choice : j \notin Writers
    /\ \A j \in Writers : Of(j) = "custom" => j \in Save
    /\ "custom" \in Provider /\ "antigravity" # "custom"
  BY JobAssumption DEF Nobody, Job, Writers, Of, Provider

LEMMA InitIInv == Init => IInv
  <1> SUFFICES ASSUME Init PROVE IInv
    OBVIOUS
  <1>1. Shaped
    BY DEF Init, Shaped, Idle, Fields
  <1>2. Placed /\ Carried /\ Noticed /\ Current
    BY Sets DEF Init, Placed, Carried, Noticed, Current, UnderWay, Idle, Probing, Saving,
       Choosing
  <1>3. VerifiedIsOneDiscovery /\ SoloKeepsLastSuccess /\ Settling
    BY DEF Init, VerifiedIsOneDiscovery, SoloKeepsLastSuccess, Settling
  <1> QED
    BY <1>1, <1>2, <1>3 DEF IInv

LEMMA DiscoverStep ==
    ASSUME IInv, NEW j \in Job, Discover(j)
    PROVE  IInv'
  <1> USE DEF Discover, IInv, Shaped, Enter, At, db, history, Placed
  <1>1. /\ DOMAIN job' = Job /\ DOMAIN job'[j] = Fields
        /\ \A k \in Job \ {j} : job'[k] = job[k]
        /\ job'[j].pc = "asking"
    BY DEF Fields, Goto
  <1>2. Shaped'
    BY <1>1
  <1>3. Placed'
    BY Sets, <1>1 DEF Probing, Saving, Choosing
  <1>4. Carried'
    BY <1>1 DEF Carried
  <1>5. Noticed'
    BY Sets, <1>1 DEF Noticed, UnderWay, Ended, Probing, Saving
  <1>6. Current'
    BY Sets, <1>1 DEF Current, UnderWay, Ended, Probing, Saving
  <1>7. VerifiedIsOneDiscovery'
    BY DEF VerifiedIsOneDiscovery
  <1>8. SoloKeepsLastSuccess'
    BY DEF SoloKeepsLastSuccess, Probing, Saving
  <1>9. Settling'
    BY Sets, <1>1 DEF Settling, Settled, Verification, UnderWay, Ended, Probing, Saving
  <1> QED
    BY <1>2, <1>3, <1>4, <1>5, <1>6, <1>7, <1>8, <1>9

LEMMA NoAnswerStep ==
    ASSUME IInv, NEW j \in Job, NoAnswer(j)
    PROVE  IInv'
  <1> USE DEF NoAnswer, IInv, Shaped, At, db, history, Placed
  <1>1. /\ DOMAIN job' = Job /\ DOMAIN job'[j] = Fields
        /\ \A k \in Job \ {j} : job'[k] = job[k]
        /\ job'[j].pc = "fail_read"
    BY DEF Fields, Goto
  <1>2. Shaped'
    BY <1>1
  <1>3. Placed'
    BY <1>1 DEF Probing, Saving, Choosing
  <1>4. Carried'
    BY <1>1 DEF Carried
  <1>5. Noticed'
    BY Sets, <1>1 DEF Noticed, UnderWay, Ended, Probing, Saving
  <1>6. Current'
    BY Sets, <1>1 DEF Current, UnderWay, Ended, Probing, Saving
  <1>7. VerifiedIsOneDiscovery'
    BY DEF VerifiedIsOneDiscovery
  <1>8. SoloKeepsLastSuccess'
    BY DEF SoloKeepsLastSuccess, Probing, Saving
  <1>9. Settling'
    BY Sets, <1>1 DEF Settling, Settled, Verification, UnderWay, Ended, Probing, Saving
  <1> QED
    BY <1>2, <1>3, <1>4, <1>5, <1>6, <1>7, <1>8, <1>9

LEMMA AnsweredStep ==
    ASSUME IInv, NEW j \in Job, NEW found \in Answers,
           Answered(j, found)
    PROVE  IInv'
  <1> USE DEF Answered, At, IInv, Shaped, Take, Usable, db, history, Placed
  <1>1. CASE Usable(found)
    <2>1. /\ DOMAIN job' = Job /\ DOMAIN job'[j] = Fields
          /\ \A k \in Job \ {j} : job'[k] = job[k]
          /\ job'[j].pc = "mark"
          /\ job'[j].found = found
      BY <1>1 DEF Fields, Goto
    <2>2. Shaped'
      BY <1>1
    <2>3. Placed'
      BY <2>1, <1>1 DEF Probing, Saving, Choosing
    <2>4. Carried'
      BY Sets, <2>1, <1>1 DEF Carried
    <2>5. Noticed'
      BY Sets, <1>1 DEF Noticed, UnderWay, Ended, Probing, Saving
    <2>6. Current'
      BY Sets, <2>1, <1>1 DEF Current, UnderWay, Ended, Probing, Saving
    <2>7. VerifiedIsOneDiscovery'
      BY DEF VerifiedIsOneDiscovery
    <2>8. SoloKeepsLastSuccess'
      BY DEF SoloKeepsLastSuccess, Probing, Saving
    <2>9. Settling'
      BY Sets, <1>1 DEF Settling, Settled, Verification, UnderWay, Ended, Probing, Saving
    <2> QED
      BY <2>2, <2>3, <2>4, <2>5, <2>6, <2>7, <2>8, <2>9
  <1>2. CASE ~Usable(found)
    <2>1. /\ DOMAIN job' = Job /\ DOMAIN job'[j] = Fields
          /\ \A k \in Job \ {j} : job'[k] = job[k]
          /\ job'[j].pc = "fail_read"
      BY <1>2 DEF Fields, Goto
    <2>2. Shaped'
      BY <2>1, <1>2
    <2>3. Placed'
      BY <2>1, <1>2 DEF Probing, Saving, Choosing
    <2>4. Carried'
      BY <2>1, <1>2 DEF Carried
    <2>5. Noticed'
      BY Sets, <2>1, <1>2 DEF Noticed, UnderWay, Ended, Probing, Saving
    <2>6. Current'
      BY Sets, <2>1, <1>2 DEF Current, UnderWay, Ended, Probing, Saving
    <2>7. VerifiedIsOneDiscovery'
      BY DEF VerifiedIsOneDiscovery
    <2>8. SoloKeepsLastSuccess'
      BY DEF SoloKeepsLastSuccess, Probing, Saving
    <2>9. Settling'
      BY Sets, <2>1, <1>2 DEF Settling, Settled, Verification, UnderWay, Ended, Probing,
         Saving
    <2> QED
      BY <2>2, <2>3, <2>4, <2>5, <2>6, <2>7, <2>8, <2>9
  <1> QED
    BY <1>1, <1>2

LEMMA ProbedStep ==
    ASSUME IInv, NEW j \in Job, NEW found \in Answers,
           Probed(j, found)
    PROVE  IInv'
  <1> USE DEF Probed, At, IInv, Shaped, Take, Usable, db, history, Placed
  <1>1. CASE Usable(found)
    <2>1. /\ DOMAIN job' = Job /\ DOMAIN job'[j] = Fields
          /\ \A k \in Job \ {j} : job'[k] = job[k]
          /\ job'[j].pc = "mark"
          /\ job'[j].found = found
      BY <1>1 DEF Fields, Goto
    <2>2. Shaped'
      BY <1>1
    <2>3. Placed'
      BY <2>1, <1>1 DEF Probing, Saving, Choosing
    <2>4. Carried'
      BY Sets, <2>1, <1>1 DEF Carried
    <2>5. Noticed'
      BY Sets, <1>1 DEF Noticed, UnderWay, Ended, Probing, Saving
    <2>6. Current'
      BY Sets, <2>1, <1>1 DEF Current, UnderWay, Ended, Probing, Saving
    <2>7. VerifiedIsOneDiscovery'
      BY DEF VerifiedIsOneDiscovery
    <2>8. SoloKeepsLastSuccess'
      BY DEF SoloKeepsLastSuccess, Probing, Saving
    <2>9. Settling'
      BY <2>1, <1>1 DEF Settling, Settled, Verification, UnderWay, Ended, Probing, Saving
    <2> QED
      BY <2>2, <2>3, <2>4, <2>5, <2>6, <2>7, <2>8, <2>9
  <1>2. CASE ~Usable(found)
    <2>1. /\ DOMAIN job' = Job /\ DOMAIN job'[j] = Fields
          /\ \A k \in Job \ {j} : job'[k] = job[k]
          /\ job'[j].pc = "fail_read"
      BY <1>2 DEF Fields, Goto
    <2>2. Shaped'
      BY <2>1, <1>2
    <2>3. Placed'
      BY <2>1, <1>2 DEF Probing, Saving, Choosing
    <2>4. Carried'
      BY <2>1, <1>2 DEF Carried
    <2>5. Noticed'
      BY Sets, <2>1, <1>2 DEF Noticed, UnderWay, Ended, Probing, Saving
    <2>6. Current'
      BY Sets, <2>1, <1>2 DEF Current, UnderWay, Ended, Probing, Saving
    <2>7. VerifiedIsOneDiscovery'
      BY DEF VerifiedIsOneDiscovery
    <2>8. SoloKeepsLastSuccess'
      BY DEF SoloKeepsLastSuccess, Probing, Saving
    <2>9. Settling'
      BY <2>1, <1>2 DEF Settling, Settled, Verification, UnderWay, Ended, Probing, Saving
    <2> QED
      BY <2>2, <2>3, <2>4, <2>5, <2>6, <2>7, <2>8, <2>9
  <1> QED
    BY <1>1, <1>2

LEMMA MarkStep ==
    ASSUME IInv, NEW j \in Job, Mark(j)
    PROVE  IInv'
  <1> USE DEF Mark, IInv, Shaped, At, db, history, Placed
  <1>1. /\ DOMAIN job' = Job /\ DOMAIN job'[j] = Fields
        /\ \A k \in Job \ {j} : job'[k] = job[k]
        /\ job'[j].pc = "commit"
        /\ job'[j].found = job[j].found
    BY DEF Fields, Goto
  <1>2. Shaped'
    BY <1>1
  <1>3. Placed'
    BY Sets, <1>1 DEF Probing, Saving, Choosing
  <1>4. Carried'
    BY <1>1 DEF Carried
  <1>5. Noticed'
    BY Sets, <1>1 DEF Noticed, UnderWay, Ended, Probing, Saving
  <1>6. Current'
    BY Sets, <1>1 DEF Current, UnderWay, Ended, Probing, Saving
  <1>7. VerifiedIsOneDiscovery'
    BY DEF VerifiedIsOneDiscovery
  <1>8. SoloKeepsLastSuccess'
    BY DEF SoloKeepsLastSuccess, Probing, Saving
  <1>9. Settling'
    BY Sets, <1>1 DEF Settling, Settled, Verification, UnderWay, Ended, Probing, Saving
  <1> QED
    BY <1>2, <1>3, <1>4, <1>5, <1>6, <1>7, <1>8, <1>9

LEMMA RefreshSuccessStep ==
    ASSUME IInv, NEW j \in Job, RefreshSuccess(j)
    PROVE  IInv'
  <1> USE DEF RefreshSuccess, At, IInv, Shaped, Refreshed, Snapshot, db, history, Placed
  <1>1. /\ DOMAIN job' = Job /\ DOMAIN job'[j] = Fields
        /\ \A k \in Job \ {j} : job'[k] = job[k]
        /\ job'[j].pc = "done"
    BY DEF Fields, Forget, Idle
  <1>2. Shaped'
    BY <1>1
  <1>3. Placed'
    BY <1>1 DEF Probing, Saving, Choosing
  <1>4. Carried'
    BY <1>1 DEF Carried
  <1>5. Noticed'
    BY Sets, <1>1 DEF Noticed, UnderWay, Ended, Probing, Saving
  <1>6. Current'
    BY Sets, <1>1 DEF Current, Noticed, UnderWay, Ended, Probing, Saving
  <1>7. VerifiedIsOneDiscovery'
    BY DEF VerifiedIsOneDiscovery, Carried
  <1>8. SoloKeepsLastSuccess'
    BY DEF SoloKeepsLastSuccess, Probing, Saving
  <1>9. Settling'
    BY Sets, <1>1 DEF Settling, Settled, Verification, Current, UnderWay, Ended, Probing,
       Saving
  <1> QED
    BY <1>2, <1>3, <1>4, <1>5, <1>6, <1>7, <1>8, <1>9

LEMMA FailReadStep ==
    ASSUME IInv, NEW j \in Job, FailRead(j)
    PROVE  IInv'
  <1> USE DEF FailRead, IInv, Shaped, db, history, Placed
  <1>1. /\ DOMAIN job' = Job /\ DOMAIN job'[j] = Fields
        /\ \A k \in Job \ {j} : job'[k] = job[k]
        /\ job'[j].pc = "fail_write"
        /\ job'[j].last = verdict[Of(j)].last
    BY DEF Fields
  <1>2. Shaped'
    OBVIOUS
  <1>3. Placed'
    BY DEF At, Probing, Saving, Choosing
  <1>4. Carried'
    BY DEF Carried
  <1>5. Noticed'
    BY Sets DEF At, Noticed, UnderWay, Ended, Probing, Saving
  <1>6. Current'
    BY Sets DEF At, Current, UnderWay, Ended, Probing, Saving
  <1>7. VerifiedIsOneDiscovery'
    BY DEF VerifiedIsOneDiscovery
  <1>8. SoloKeepsLastSuccess'
    BY DEF At, SoloKeepsLastSuccess, Probing, Saving
  <1>9. Settling'
    BY Sets DEF At, Settling, Settled, Verification, UnderWay, Ended, Probing, Saving
  <1> QED
    BY <1>2, <1>3, <1>4, <1>5, <1>6, <1>7, <1>8, <1>9

LEMMA RecordFailureStep ==
    ASSUME IInv, NEW j \in Job, RecordFailure(j)
    PROVE  IInv'
  <1> USE DEF RecordFailure, At, IInv, Shaped, Snapshot, db, history, Placed
  <1>1. CASE ~job[j].known /\ verdict[Of(j)].state # "none"
    <2>1. /\ DOMAIN job' = Job /\ DOMAIN job'[j] = Fields
          /\ \A k \in Job \ {j} : job'[k] = job[k]
          /\ job'[j].pc = "raised"
      BY <1>1 DEF Fields, Forget, Idle
    <2>2. Shaped'
      BY <2>1, <1>1
    <2>3. Placed'
      BY <2>1, <1>1 DEF Probing, Saving, Choosing
    <2>4. Carried'
      BY <2>1, <1>1 DEF Carried
    <2>5. Noticed'
      BY Sets, <2>1, <1>1 DEF Noticed, UnderWay, Ended, Probing, Saving
    <2>6. Current'
      BY Sets, <2>1, <1>1 DEF Current, UnderWay, Ended, Probing, Saving
    <2>7. VerifiedIsOneDiscovery'
      BY DEF VerifiedIsOneDiscovery
    <2>8. SoloKeepsLastSuccess'
      BY <1>1 DEF SoloKeepsLastSuccess, Probing, Saving
    <2>9. Settling'
      BY Sets, <2>1, <1>1 DEF Settling, Settled, Verification, UnderWay, Ended, Probing,
         Saving
    <2> QED
      BY <2>2, <2>3, <2>4, <2>5, <2>6, <2>7, <2>8, <2>9
  <1>2. CASE ~(~job[j].known /\ verdict[Of(j)].state # "none")
    <2>1. /\ DOMAIN job' = Job /\ DOMAIN job'[j] = Fields
          /\ \A k \in Job \ {j} : job'[k] = job[k]
          /\ job'[j].pc = "done"
      BY <1>2 DEF Fields, Forget, Idle
    <2>2. Shaped'
      BY <2>1, <1>2
    <2>3. Placed'
      BY <2>1, <1>2 DEF Probing, Saving, Choosing
    <2>4. Carried'
      BY <2>1, <1>2 DEF Carried
    <2>5. Noticed'
      BY Sets, <2>1, <1>2 DEF Noticed, UnderWay, Ended, Probing, Saving
    <2>6. Current'
      BY Sets, <2>1, <1>2 DEF Current, UnderWay, Ended, Probing, Saving
    <2>7. VerifiedIsOneDiscovery'
      BY DEF VerifiedIsOneDiscovery
    <2>8. SoloKeepsLastSuccess'
      BY DEF SoloKeepsLastSuccess, Current, Probing, Saving
    <2>9. Settling'
      BY Sets, <2>1, <1>2 DEF Settling, Settled, Verification, Current, UnderWay, Ended,
         Probing, Saving
    <2> QED
      BY <2>2, <2>3, <2>4, <2>5, <2>6, <2>7, <2>8, <2>9
  <1> QED
    BY <1>1, <1>2

LEMMA BeginSaveStep ==
    ASSUME IInv, NEW j \in Job, NEW models \in Manual, NEW keyed \in BOOLEAN, NEW form \in Forms,
           BeginSave(j, models, keyed, form)
    PROVE  IInv'
  <1> USE DEF BeginSave, IInv, Shaped, Enter, At, db, history, Placed
  <1>1. CASE keyed
    <2>1. /\ DOMAIN job' = Job /\ DOMAIN job'[j] = Fields
          /\ \A k \in Job \ {j} : job'[k] = job[k]
          /\ job'[j].pc = "replace"
      BY <1>1 DEF Fields
    <2>2. Shaped'
      OBVIOUS
    <2>3. Placed'
      BY DEF Probing, Saving, Choosing
    <2>4. Carried'
      BY DEF Carried
    <2>5. Noticed'
      BY Sets, <1>1 DEF Noticed, UnderWay, Ended, Probing, Saving
    <2>6. Current'
      BY Sets, <1>1 DEF Current, UnderWay, Ended, Probing, Saving
    <2>7. VerifiedIsOneDiscovery'
      BY DEF VerifiedIsOneDiscovery
    <2>8. SoloKeepsLastSuccess'
      BY DEF SoloKeepsLastSuccess, Probing, Saving
    <2>9. Settling'
      BY Sets, <1>1 DEF Settling, Settled, Verification, UnderWay, Ended, Probing, Saving
    <2> QED
      BY <2>2, <2>3, <2>4, <2>5, <2>6, <2>7, <2>8, <2>9
  <1>2. CASE ~keyed
    <2>1. /\ DOMAIN job' = Job /\ DOMAIN job'[j] = Fields
          /\ \A k \in Job \ {j} : job'[k] = job[k]
          /\ job'[j].pc = "load"
      BY <1>2 DEF Fields
    <2>2. Shaped'
      OBVIOUS
    <2>3. Placed'
      BY DEF Probing, Saving, Choosing
    <2>4. Carried'
      BY DEF Carried
    <2>5. Noticed'
      BY Sets, <1>2 DEF Noticed, UnderWay, Ended, Probing, Saving
    <2>6. Current'
      BY Sets, <1>2 DEF Current, UnderWay, Ended, Probing, Saving
    <2>7. VerifiedIsOneDiscovery'
      BY DEF VerifiedIsOneDiscovery
    <2>8. SoloKeepsLastSuccess'
      BY DEF SoloKeepsLastSuccess, Probing, Saving
    <2>9. Settling'
      BY Sets, <1>2 DEF Settling, Settled, Verification, UnderWay, Ended, Probing, Saving
    <2> QED
      BY <2>2, <2>3, <2>4, <2>5, <2>6, <2>7, <2>8, <2>9
  <1> QED
    BY <1>1, <1>2

LEMMA LoadKeyStep ==
    ASSUME IInv, NEW j \in Job, LoadKey(j)
    PROVE  IInv'
  <1> USE DEF LoadKey, IInv, Shaped, db, history, Placed
  <1>1. /\ DOMAIN job' = Job /\ DOMAIN job'[j] = Fields
        /\ \A k \in Job \ {j} : job'[k] = job[k]
        /\ job'[j].pc = "replace"
    BY DEF Fields
  <1>2. Shaped'
    OBVIOUS
  <1>3. Placed'
    BY DEF At, Probing, Saving, Choosing
  <1>4. Carried'
    BY DEF Carried
  <1>5. Noticed'
    BY Sets DEF At, Noticed, UnderWay, Ended, Probing, Saving
  <1>6. Current'
    BY Sets DEF At, Current, UnderWay, Ended, Probing, Saving
  <1>7. VerifiedIsOneDiscovery'
    BY DEF VerifiedIsOneDiscovery
  <1>8. SoloKeepsLastSuccess'
    BY DEF At, SoloKeepsLastSuccess, Probing, Saving
  <1>9. Settling'
    BY Sets DEF At, Settling, Settled, Verification, UnderWay, Ended, Probing, Saving
  <1> QED
    BY <1>2, <1>3, <1>4, <1>5, <1>6, <1>7, <1>8, <1>9

LEMMA ReplaceRefusedStep ==
    ASSUME IInv, NEW j \in Job, ReplaceRefused(j)
    PROVE  IInv'
  <1> USE DEF ReplaceRefused, At, IInv, Shaped, db, history, Placed
  <1>1. /\ DOMAIN job' = Job /\ DOMAIN job'[j] = Fields
        /\ \A k \in Job \ {j} : job'[k] = job[k]
        /\ job'[j].pc = "refused"
    BY DEF Fields, Forget, Idle
  <1>2. Shaped'
    BY <1>1
  <1>3. Placed'
    BY <1>1 DEF Probing, Saving, Choosing
  <1>4. Carried'
    BY <1>1 DEF Carried
  <1>5. Noticed'
    BY Sets, <1>1 DEF Noticed, UnderWay, Ended, Probing, Saving
  <1>6. Current'
    BY Sets, <1>1 DEF Current, UnderWay, Ended, Probing, Saving
  <1>7. VerifiedIsOneDiscovery'
    BY DEF VerifiedIsOneDiscovery
  <1>8. SoloKeepsLastSuccess'
    BY DEF SoloKeepsLastSuccess, Probing, Saving
  <1>9. Settling'
    BY Sets, <1>1 DEF Settling, Settled, Verification, UnderWay, Ended, Probing, Saving
  <1> QED
    BY <1>2, <1>3, <1>4, <1>5, <1>6, <1>7, <1>8, <1>9

LEMMA ReplaceReadStep ==
    ASSUME IInv, NEW j \in Job, ReplaceRead(j)
    PROVE  IInv'
  <1> USE DEF ReplaceRead, IInv, Shaped, db, history, Placed
  <1>1. /\ DOMAIN job' = Job /\ DOMAIN job'[j] = Fields
        /\ \A k \in Job \ {j} : job'[k] = job[k]
        /\ job'[j].pc = "replace_mark"
        /\ job'[j].last = verdict["custom"].last
        /\ job'[j].models = job[j].models
    BY DEF Fields
  <1>2. Shaped'
    OBVIOUS
  <1>3. Placed'
    BY DEF At, Probing, Saving, Choosing
  <1>4. Carried'
    BY DEF Carried
  <1>5. Noticed'
    BY Sets DEF At, Noticed, UnderWay, Ended, Probing, Saving
  <1>6. Current'
    BY Sets DEF At, Current, UnderWay, Ended, Probing, Saving
  <1>7. VerifiedIsOneDiscovery'
    BY DEF VerifiedIsOneDiscovery
  <1>8. SoloKeepsLastSuccess'
    BY DEF At, SoloKeepsLastSuccess, Probing, Saving
  <1>9. Settling'
    BY Sets DEF At, Settling, Settled, Verification, UnderWay, Ended, Probing, Saving
  <1> QED
    BY <1>2, <1>3, <1>4, <1>5, <1>6, <1>7, <1>8, <1>9

LEMMA RowReadStep ==
    ASSUME IInv, NEW j \in Job, RowRead(j)
    PROVE  IInv'
  <1> USE DEF RowRead, IInv, Shaped, db, history, Placed
  <1>1. /\ DOMAIN job' = Job /\ DOMAIN job'[j] = Fields
        /\ \A k \in Job \ {j} : job'[k] = job[k]
        /\ job'[j].pc = "row"
    BY DEF Fields
  <1>2. Shaped'
    OBVIOUS
  <1>3. Placed'
    BY DEF At, Probing, Saving, Choosing
  <1>4. Carried'
    BY DEF Carried
  <1>5. Noticed'
    BY Sets DEF At, Noticed, UnderWay, Ended, Probing, Saving
  <1>6. Current'
    BY Sets DEF At, Current, UnderWay, Ended, Probing, Saving
  <1>7. VerifiedIsOneDiscovery'
    BY DEF VerifiedIsOneDiscovery
  <1>8. SoloKeepsLastSuccess'
    BY DEF At, SoloKeepsLastSuccess, Probing, Saving
  <1>9. Settling'
    BY Sets DEF At, Settling, Settled, Verification, UnderWay, Ended, Probing, Saving
  <1> QED
    BY <1>2, <1>3, <1>4, <1>5, <1>6, <1>7, <1>8, <1>9

LEMMA ReplaceMarkStep ==
    ASSUME IInv, NEW j \in Job, ReplaceMark(j)
    PROVE  IInv'
  <1> USE DEF ReplaceMark, IInv, Shaped, At, db, history, Placed
  <1>1. /\ DOMAIN job' = Job /\ DOMAIN job'[j] = Fields
        /\ \A k \in Job \ {j} : job'[k] = job[k]
        /\ job'[j].pc = "replace_commit"
        /\ job'[j].last = job[j].last
        /\ job'[j].models = job[j].models
    BY DEF Fields, Goto
  <1>2. Shaped'
    BY <1>1
  <1>3. Placed'
    BY Sets, <1>1 DEF Probing, Saving, Choosing
  <1>4. Carried'
    BY <1>1 DEF Carried
  <1>5. Noticed'
    BY Sets, <1>1 DEF Noticed, UnderWay, Ended, Probing, Saving
  <1>6. Current'
    BY Sets, <1>1 DEF Current, UnderWay, Ended, Probing, Saving
  <1>7. VerifiedIsOneDiscovery'
    BY DEF VerifiedIsOneDiscovery
  <1>8. SoloKeepsLastSuccess'
    BY DEF SoloKeepsLastSuccess, Probing, Saving
  <1>9. Settling'
    BY Sets, <1>1 DEF Settling, Settled, Verification, UnderWay, Ended, Probing, Saving
  <1> QED
    BY <1>2, <1>3, <1>4, <1>5, <1>6, <1>7, <1>8, <1>9

LEMMA ReplaceCommitStep ==
    ASSUME IInv, NEW j \in Job, ReplaceCommit(j)
    PROVE  IInv'
  <1> USE DEF ReplaceCommit, At, IInv, Shaped, Refreshed, Snapshot, Stored, db, history,
     Placed
  <1>1. /\ DOMAIN job' = Job /\ DOMAIN job'[j] = Fields
        /\ \A k \in Job \ {j} : job'[k] = job[k]
        /\ job'[j].pc = "asking"
    BY DEF Fields, Forget, Idle
  <1>2. Shaped'
    BY <1>1
  <1>3. Placed'
    BY Sets, <1>1 DEF Probing, Saving, Choosing
  <1>4. Carried'
    BY <1>1 DEF Carried
  <1>5. Noticed'
    BY Sets, <1>1 DEF Noticed, UnderWay, Ended, Probing, Saving
  <1>6. Current'
    BY Sets, <1>1 DEF Current, Noticed, UnderWay, Ended, Probing, Saving
  <1>7. VerifiedIsOneDiscovery'
    BY DEF VerifiedIsOneDiscovery
  <1>8. SoloKeepsLastSuccess'
    BY Sets DEF SoloKeepsLastSuccess, Current, Probing, Saving
  <1>9. Settling'
    BY <1>1 DEF Settling, Settled, Verification, UnderWay, Ended, Probing, Saving
  <1> QED
    BY <1>2, <1>3, <1>4, <1>5, <1>6, <1>7, <1>8, <1>9

LEMMA ReplaceRowStep ==
    ASSUME IInv, NEW j \in Job, ReplaceRow(j)
    PROVE  IInv'
  <1> USE DEF ReplaceRow, At, IInv, Shaped, Stored, db, history, Placed
  <1>1. CASE ~job[j].known /\ row.of # Nobody
    <2>1. /\ DOMAIN job' = Job /\ DOMAIN job'[j] = Fields
          /\ \A k \in Job \ {j} : job'[k] = job[k]
          /\ job'[j].pc = "refused"
      BY <1>1 DEF Fields, Forget, Idle
    <2>2. Shaped'
      BY <2>1, <1>1
    <2>3. Placed'
      BY <2>1, <1>1 DEF Probing, Saving, Choosing
    <2>4. Carried'
      BY <2>1, <1>1 DEF Carried
    <2>5. Noticed'
      BY Sets, <2>1, <1>1 DEF Noticed, UnderWay, Ended, Probing, Saving
    <2>6. Current'
      BY Sets, <2>1, <1>1 DEF Current, UnderWay, Ended, Probing, Saving
    <2>7. VerifiedIsOneDiscovery'
      BY DEF VerifiedIsOneDiscovery
    <2>8. SoloKeepsLastSuccess'
      BY DEF SoloKeepsLastSuccess, Probing, Saving
    <2>9. Settling'
      BY Sets, <2>1, <1>1 DEF Settling, Settled, Verification, UnderWay, Ended, Probing,
         Saving
    <2> QED
      BY <2>2, <2>3, <2>4, <2>5, <2>6, <2>7, <2>8, <2>9
  <1>2. CASE ~(~job[j].known /\ row.of # Nobody)
    <2>1. /\ DOMAIN job' = Job /\ DOMAIN job'[j] = Fields
          /\ \A k \in Job \ {j} : job'[k] = job[k]
          /\ job'[j].pc = "asking"
      BY <1>2 DEF Fields, Forget, Idle
    <2>2. Shaped'
      BY <2>1, <1>2
    <2>3. Placed'
      BY Sets, <2>1, <1>2 DEF Probing, Saving, Choosing
    <2>4. Carried'
      BY <2>1, <1>2 DEF Carried
    <2>5. Noticed'
      BY Sets, <2>1, <1>2 DEF Noticed, UnderWay, Ended, Probing, Saving
    <2>6. Current'
      BY Sets, <2>1, <1>2 DEF Current, Noticed, UnderWay, Ended, Probing, Saving
    <2>7. VerifiedIsOneDiscovery'
      BY DEF VerifiedIsOneDiscovery
    <2>8. SoloKeepsLastSuccess'
      BY DEF SoloKeepsLastSuccess, Probing, Saving
    <2>9. Settling'
      BY <2>1, <1>2 DEF Settling, Settled, Verification, UnderWay, Ended, Probing, Saving
    <2> QED
      BY <2>2, <2>3, <2>4, <2>5, <2>6, <2>7, <2>8, <2>9
  <1> QED
    BY <1>1, <1>2

LEMMA ChooseStep ==
    ASSUME IInv, NEW j \in Job, NEW enabled \in SUBSET Provider,
           Choose(j, enabled)
    PROVE  IInv'
  <1> USE DEF IInv, Shaped, Choose, At, db, history
  <1>1. CASE enabled \subseteq {p \in Provider : Listed(p)}
    <2>a. j \in Choice /\ job' = [job EXCEPT ![j].pc = "delete",
                             ![j].listed = {p \in Provider : Listed(p)},
                             ![j].enabled = enabled]
      BY <1>1
    <2>1. /\ DOMAIN job' = Job /\ DOMAIN job'[j] = Fields
          /\ \A k \in Job \ {j} : job'[k] = job[k]
          /\ job'[j].pc = "delete"
      BY <2>a DEF Fields
    <2>2. Shaped'
      BY <2>a
    <2>3. Placed'
      BY <2>1, <1>1, <2>a DEF Placed, Probing, Saving, Choosing
    <2>4. Carried'
      BY <2>1, <1>1, <2>a DEF Placed, Carried
    <2>5. Noticed'
      <3>1. \A k \in Writers : job'[k] = job[k]
        <4>1. \A k \in Writers : k \in Job \ {j}
          BY Sets, <2>a
        <4> QED
          BY <2>1, <4>1
      <3>2. UNCHANGED overlapped
        OBVIOUS
      <3> QED
        BY <3>1, <3>2 DEF Noticed, UnderWay, Ended
    <2>6. Current'
      BY Sets, <1>1, <2>a DEF Placed, Current, UnderWay, Ended, Probing, Saving
    <2>7. VerifiedIsOneDiscovery'
      BY DEF VerifiedIsOneDiscovery
    <2>8. SoloKeepsLastSuccess'
      BY DEF Placed, SoloKeepsLastSuccess, Probing, Saving
    <2>9. Settling'
      BY Sets, <1>1, <2>a DEF Placed, Settling, Settled, Verification, UnderWay, Ended,
         Probing, Saving
    <2> QED
      BY <2>2, <2>3, <2>4, <2>5, <2>6, <2>7, <2>8, <2>9
  <1>2. CASE ~(enabled \subseteq {p \in Provider : Listed(p)})
    <2>a. j \in Choice /\ Forget(j, "refused")
      BY <1>2
    <2>1. /\ DOMAIN job' = Job /\ DOMAIN job'[j] = Fields
          /\ \A k \in Job \ {j} : job'[k] = job[k]
          /\ job'[j].pc = "refused"
      BY <2>a DEF Fields, Forget, Idle
    <2>2. Shaped'
      BY <2>1
    <2>3. Placed'
      BY <2>1, <1>2, <2>a DEF Placed, Probing, Saving, Choosing
    <2>4. Carried'
      BY <2>1, <1>2, <2>a DEF Placed, Carried
    <2>5. Noticed'
      <3>1. \A k \in Writers : job'[k] = job[k]
        <4>1. \A k \in Writers : k \in Job \ {j}
          BY Sets, <2>a
        <4> QED
          BY <2>1, <4>1
      <3>2. UNCHANGED overlapped
        OBVIOUS
      <3> QED
        BY <3>1, <3>2 DEF Noticed, UnderWay, Ended
    <2>6. Current'
      BY Sets, <2>1, <1>2, <2>a DEF Placed, Current, UnderWay, Ended, Probing, Saving
    <2>7. VerifiedIsOneDiscovery'
      BY DEF VerifiedIsOneDiscovery
    <2>8. SoloKeepsLastSuccess'
      BY DEF Placed, SoloKeepsLastSuccess, Probing, Saving
    <2>9. Settling'
      BY Sets, <2>1, <1>2, <2>a DEF Placed, Settling, Settled, Verification, UnderWay,
         Ended, Probing, Saving
    <2> QED
      BY <2>2, <2>3, <2>4, <2>5, <2>6, <2>7, <2>8, <2>9
  <1> QED
    BY <1>1, <1>2

LEMMA DeleteStep ==
    ASSUME IInv, NEW j \in Job, Delete(j)
    PROVE  IInv'
  <1> USE DEF Delete, IInv, Shaped, At, db, history, Placed
  <1>1. /\ DOMAIN job' = Job /\ DOMAIN job'[j] = Fields
        /\ \A k \in Job \ {j} : job'[k] = job[k]
        /\ job'[j].pc = "insert"
    BY DEF Fields, Goto
  <1>2. Shaped'
    BY <1>1
  <1>3. Placed'
    BY Sets, <1>1 DEF Probing, Saving, Choosing
  <1>4. Carried'
    BY <1>1 DEF Carried
  <1>5. Noticed'
    BY Sets, <1>1 DEF Noticed, UnderWay, Ended, Probing, Saving
  <1>6. Current'
    BY Sets, <1>1 DEF Current, UnderWay, Ended, Probing, Saving
  <1>7. VerifiedIsOneDiscovery'
    BY DEF VerifiedIsOneDiscovery
  <1>8. SoloKeepsLastSuccess'
    BY DEF SoloKeepsLastSuccess, Probing, Saving
  <1>9. Settling'
    BY Sets, <1>1 DEF Settling, Settled, Verification, UnderWay, Ended, Probing, Saving
  <1> QED
    BY <1>2, <1>3, <1>4, <1>5, <1>6, <1>7, <1>8, <1>9

LEMMA InsertStep ==
    ASSUME IInv, NEW j \in Job, Insert(j)
    PROVE  IInv'
  <1> USE DEF Insert, At, IInv, Shaped, db, history, Placed
  <1>1. /\ DOMAIN job' = Job /\ DOMAIN job'[j] = Fields
        /\ \A k \in Job \ {j} : job'[k] = job[k]
        /\ job'[j].pc = "done"
    BY DEF Fields, Forget, Idle
  <1>2. Shaped'
    BY <1>1
  <1>3. Placed'
    BY <1>1 DEF Probing, Saving, Choosing
  <1>4. Carried'
    BY <1>1 DEF Carried
  <1>5. Noticed'
    BY Sets, <1>1 DEF Noticed, UnderWay, Ended, Probing, Saving
  <1>6. Current'
    BY Sets, <1>1 DEF Current, UnderWay, Ended, Probing, Saving
  <1>7. VerifiedIsOneDiscovery'
    BY DEF VerifiedIsOneDiscovery
  <1>8. SoloKeepsLastSuccess'
    BY DEF SoloKeepsLastSuccess, Probing, Saving
  <1>9. Settling'
    BY Sets, <1>1 DEF Settling, Settled, Verification, UnderWay, Ended, Probing, Saving
  <1> QED
    BY <1>2, <1>3, <1>4, <1>5, <1>6, <1>7, <1>8, <1>9

LEMMA DieStep ==
    ASSUME IInv, NEW j \in Job, Die(j)
    PROVE  IInv'
  <1> USE DEF Die, At, IInv, Shaped, db, history, Placed
  <1>1. /\ DOMAIN job' = Job /\ DOMAIN job'[j] = Fields
        /\ \A k \in Job \ {j} : job'[k] = job[k]
        /\ job'[j].pc = "raised"
    BY DEF Fields, Forget, Idle
  <1>2. Shaped'
    BY <1>1
  <1>3. Placed'
    BY <1>1 DEF Probing, Saving, Choosing
  <1>4. Carried'
    BY <1>1 DEF Carried
  <1>5. Noticed'
    BY Sets, <1>1 DEF Noticed, UnderWay, Ended, Probing, Saving
  <1>6. Current'
    BY Sets, <1>1 DEF Current, UnderWay, Ended, Probing, Saving
  <1>7. VerifiedIsOneDiscovery'
    BY DEF VerifiedIsOneDiscovery
  <1>8. SoloKeepsLastSuccess'
    BY DEF SoloKeepsLastSuccess, Probing, Saving
  <1>9. Settling'
    BY Sets, <1>1 DEF Settling, Settled, Verification, UnderWay, Ended, Probing, Saving
  <1> QED
    BY <1>2, <1>3, <1>4, <1>5, <1>6, <1>7, <1>8, <1>9

LEMMA NextIInv ==
    ASSUME IInv, [Next]_vars
    PROVE  IInv'
  <1>1. CASE UNCHANGED vars
    BY <1>1 DEF vars, db, history, IInv, Shaped, Placed, Carried, Noticed, Current,
       UnderWay,
                Ended, VerifiedIsOneDiscovery, SoloKeepsLastSuccess, Settling, Settled,
                Verification
  <1>2. ASSUME NEW j \in Job, Begin(j) PROVE IInv'
    BY <1>2, DiscoverStep, BeginSaveStep, ChooseStep DEF Begin
  <1>3. ASSUME NEW j \in Job, Step(j) PROVE IInv'
    BY <1>3, NoAnswerStep, AnsweredStep, ProbedStep, MarkStep, RefreshSuccessStep,
       FailReadStep,
       RecordFailureStep, LoadKeyStep, ReplaceRefusedStep, ReplaceReadStep, RowReadStep,
       ReplaceMarkStep, ReplaceCommitStep, ReplaceRowStep, DeleteStep, InsertStep
    DEF Step
  <1> QED
    BY <1>1, <1>2, <1>3, DieStep DEF Next

LEMMA Invariance == Spec => []IInv
  BY InitIInv, NextIInv, PTL DEF Spec

(* A provider called available offers exactly the models of one answer of  *)
(* its upstream (refresh_success, refresh_configured_in_transaction).      *)
THEOREM OneDiscovery == Spec => []VerifiedIsOneDiscovery
  <1>1. IInv => VerifiedIsOneDiscovery
    BY DEF IInv
  <1> QED
    BY Invariance, <1>1, PTL

(* Jobs of a provider that do not overlap keep the time of its last        *)
(* committed discovery: record_failure and a configured catalogue write    *)
(* back what is still true (registry.py).                                  *)
THEOREM LastSuccessKept == Spec => []SoloKeepsLastSuccess
  <1>1. IInv => SoloKeepsLastSuccess
    BY DEF IInv
  <1> QED
    BY Invariance, <1>1, PTL

(* When the saves of the custom provider have ended, none having died or   *)
(* overlapped, its verdict is the probe's of the stored connection.        *)
THEOREM SaveSettles == Spec => []SoloSaveSettles
  <1>1. IInv => SoloSaveSettles
    BY DEF IInv, SoloSaveSettles, Settling, Settled, Probing
  <1> QED
    BY Invariance, <1>1, PTL

(* The two transactions that replace a catalogue carry models to their     *)
(* COMMIT.                                                                 *)
LEMMA StaysListed ==
    ASSUME IInv, [Next]_vars
    PROVE  \A p \in Provider : Listed(p) => Listed(p)'
  <1>1. CASE UNCHANGED available
    BY <1>1 DEF Listed
  <1>2. ASSUME NEW j \in Job, RefreshSuccess(j)
        PROVE  \A p \in Provider : Listed(p) => Listed(p)'
    <2>1. job[j].found # {}
      BY <1>2 DEF RefreshSuccess, At, IInv, Carried
    <2>2. available' = [available EXCEPT ![Of(j)] = job[j].found] /\ DOMAIN available = Provider
      BY <1>2 DEF RefreshSuccess, Refreshed, IInv, Shaped
    <2> QED
      BY <2>1, <2>2 DEF Listed
  <1>3. ASSUME NEW j \in Job, ReplaceCommit(j)
        PROVE  \A p \in Provider : Listed(p) => Listed(p)'
    <2>1. job[j].models # {}
      BY <1>3 DEF ReplaceCommit, At, IInv, Carried
    <2>2. available' = [available EXCEPT ![Of(j)] = job[j].models] /\ DOMAIN available = Provider
      BY <1>3 DEF ReplaceCommit, Refreshed, IInv, Shaped
    <2> QED
      BY <2>1, <2>2 DEF Listed
  <1>4. \/ UNCHANGED available
        \/ \E j \in Job : RefreshSuccess(j) \/ ReplaceCommit(j)
    <2>1. ASSUME NEW j \in Job, Begin(j) PROVE UNCHANGED available
      BY <2>1 DEF Begin, Discover, BeginSave, Choose, db
    <2>2. ASSUME NEW j \in Job, Step(j)
          PROVE  UNCHANGED available \/ RefreshSuccess(j) \/ ReplaceCommit(j)
      BY <2>2 DEF Step, db, NoAnswer, Answered, Probed, Mark, FailRead, RecordFailure,
         LoadKey, ReplaceRefused, ReplaceRead, RowRead, ReplaceMark, ReplaceRow, Delete, Insert
    <2> QED
      BY <2>1, <2>2 DEF Next, Die, vars, db
  <1> QED
    BY <1>1, <1>2, <1>3, <1>4

(* No step empties a listed provider's catalogue, nor does a reader see    *)
(* one that is being refreshed without its models (registry.py).           *)
THEOREM NeverErased == Spec => CatalogueNeverErased
  <1>1. IInv /\ [Next]_vars => [\A p \in Provider : Listed(p) => Listed(p)']_vars
    BY StaysListed
  <1> QED
    BY Invariance, <1>1, PTL DEF Spec, CatalogueNeverErased

-----------------------------------------------------------------------------
(* The types of a job's locals, which the tables' are taken from.          *)
Location ==
    {"idle", "asking", "mark", "commit", "fail_read", "fail_write", "load", "replace",
     "replace_mark", "replace_commit", "row", "delete", "insert", "done", "refused", "raised"}
Locals ==
    [pc : Location, key : BOOLEAN, models : SUBSET Model, found : SUBSET Model,
     stamp : Stamp, last : Stamp, known : BOOLEAN, form : Forms \cup {"plain"},
     listed : SUBSET Provider, enabled : SUBSET Provider]

Typed ==
    /\ available \in [Provider -> SUBSET Model]
    /\ verdict \in [Provider -> [state : {"none", "available", "stale"}, last : Stamp,
                                 error : {"none", "failed", "not_verified"},
                                 of : Writers \cup {Nobody}]]
    /\ row \in [of : Save \cup {Nobody}, key : BOOLEAN]
    /\ selection \in [Provider -> {"unset", "on", "off"}]
    /\ job \in [Job -> Locals]
    /\ faults \in 0..MaxFaults

(* The write lock is held by the one job that is inside its transaction.   *)
Inside == {"commit", "replace_commit", "insert"}
Locked ==
    /\ writer \in Job \cup {Nobody}
    /\ \A j \in Job : job[j].pc \in Inside <=> writer = j

(* A job stamps at most one list, so that the stamps never outnumber the   *)
(* jobs that have got past it.                                             *)
Past == {"mark", "commit", "done", "refused", "raised"}
Stamped == {j \in Writers : job[j].pc \in Past}
Counted == clock \in Nat /\ clock <= Cardinality(Stamped)

TInv == Typed /\ Locked /\ Counted

(* What a step of job j may do to the lock and to the clock.               *)
Latched(j) ==
    \/ UNCHANGED writer /\ job[j].pc \notin Inside /\ job'[j].pc \notin Inside
    \/ writer = Nobody /\ writer' = j /\ job'[j].pc \in Inside
    \/ writer = j /\ writer' = Nobody /\ job'[j].pc \notin Inside

Ticked(j) ==
    \/ UNCHANGED clock /\ (job[j].pc \in Past => job'[j].pc \in Past)
    \/ clock' = clock + 1 /\ job[j].pc = "asking" /\ job'[j].pc = "mark"

Moved(j) ==
    /\ DOMAIN job' = Job /\ \A k \in Job \ {j} : job'[k] = job[k]
    /\ Latched(j) /\ Ticked(j)

LEMMA FiniteWriters ==
    /\ IsFiniteSet(Writers) /\ Cardinality(Writers) \in Nat
    /\ \A S \in SUBSET Writers : IsFiniteSet(S) /\ Cardinality(S) \in 0..Cardinality(Writers)
  <1>1. IsFiniteSet(Writers)
    BY JobAssumption DEF Writers
  <1>2. Cardinality(Writers) \in Nat
    BY <1>1, FS_CardinalityType
  <1>3. ASSUME NEW S \in SUBSET Writers
        PROVE  IsFiniteSet(S) /\ Cardinality(S) \in 0..Cardinality(Writers)
    <2>1. IsFiniteSet(S) /\ Cardinality(S) <= Cardinality(Writers)
      BY <1>1, FS_Subset
    <2>2. Cardinality(S) \in Nat
      BY <2>1, FS_CardinalityType
    <2> QED
      BY <1>2, <2>1, <2>2
  <1> QED
    BY <1>1, <1>2, <1>3

LEMMA InitTInv == Init => TInv
  <1> SUFFICES ASSUME Init PROVE TInv
    OBVIOUS
  <1>1. 0 \in Stamp
    BY FiniteWriters DEF Stamp
  <1>2. Idle \in Locals
    BY <1>1 DEF Idle, Locals, Location
  <1>3. Typed
    BY <1>1, <1>2, BoundAssumption DEF Init, Typed
  <1>4. Locked
    BY Sets DEF Init, Locked, Idle, Inside
  <1>5. Counted
    BY FiniteWriters DEF Init, Counted, Stamped
  <1> QED
    BY <1>3, <1>4, <1>5 DEF TInv

(* Every step moves one job, and the lock and the clock with it.           *)
LEMMA StepMoves ==
    ASSUME Typed, Locked, NEW j \in Job, Begin(j) \/ Step(j) \/ Die(j)
    PROVE  Moved(j)
  <1> USE DEF At, Locked
  <1>0. job \in [Job -> Locals] /\ DOMAIN job[j] = Fields
    BY DEF Typed, Locals, Fields
  <1>1. CASE Discover(j)
    BY <1>0, <1>1 DEF Discover, Goto, Fields, Moved, Latched, Ticked, Inside, Past
  <1>2. CASE NoAnswer(j)
    BY <1>0, <1>2 DEF NoAnswer, Goto, Fields, Moved, Latched, Ticked, Inside, Past
  <1>3. CASE Mark(j)
    BY <1>0, <1>3 DEF Mark, Goto, Fields, Moved, Latched, Ticked, Inside, Past
  <1>4. CASE RefreshSuccess(j)
    BY <1>0, <1>4 DEF RefreshSuccess, Forget, Idle, Fields, Moved, Latched, Ticked, Inside, Past
  <1>5. CASE FailRead(j)
    BY <1>0, <1>5 DEF FailRead, Fields, Moved, Latched, Ticked, Inside, Past
  <1>6. CASE RecordFailure(j)
    BY <1>0, <1>6 DEF RecordFailure, Forget, Idle, Fields, Moved, Latched, Ticked, Inside, Past
  <1>7. CASE LoadKey(j)
    BY <1>0, <1>7 DEF LoadKey, Fields, Moved, Latched, Ticked, Inside, Past
  <1>8. CASE ReplaceRefused(j)
    BY <1>0, <1>8 DEF ReplaceRefused, Forget, Idle, Fields, Moved, Latched, Ticked, Inside, Past
  <1>9. CASE ReplaceRead(j)
    BY <1>0, <1>9 DEF ReplaceRead, Fields, Moved, Latched, Ticked, Inside, Past
  <1>10. CASE RowRead(j)
    BY <1>0, <1>10 DEF RowRead, Fields, Moved, Latched, Ticked, Inside, Past
  <1>11. CASE ReplaceMark(j)
    BY <1>0, <1>11 DEF ReplaceMark, Goto, Fields, Moved, Latched, Ticked, Inside, Past
  <1>12. CASE ReplaceCommit(j)
    BY <1>0, <1>12 DEF ReplaceCommit, Forget, Idle, Fields, Moved, Latched, Ticked, Inside, Past
  <1>13. CASE ReplaceRow(j)
    BY <1>0, <1>13 DEF ReplaceRow, Forget, Idle, Fields, Moved, Latched, Ticked, Inside, Past
  <1>14. CASE Delete(j)
    BY <1>0, <1>14 DEF Delete, Goto, Fields, Moved, Latched, Ticked, Inside, Past
  <1>15. CASE Insert(j)
    BY <1>0, <1>15 DEF Insert, Forget, Idle, Fields, Moved, Latched, Ticked, Inside, Past
  <1>16. CASE Die(j)
    BY <1>0, <1>16 DEF Die, Forget, Idle, UnderWay, Ended, Fields, Moved, Latched, Ticked, Inside, Past
  <1>17. ASSUME NEW found \in Answers, Answered(j, found) PROVE Moved(j)
    BY <1>0, <1>17 DEF Answered, Take, Goto, Fields, Moved, Latched, Ticked, Inside, Past
  <1>18. ASSUME NEW found \in Answers, Probed(j, found) PROVE Moved(j)
    BY <1>0, <1>18 DEF Probed, Take, Goto, Fields, Moved, Latched, Ticked, Inside, Past
  <1>19. ASSUME NEW models, NEW keyed, NEW form, BeginSave(j, models, keyed, form) PROVE Moved(j)
    BY <1>0, <1>19 DEF BeginSave, Fields, Moved, Latched, Ticked, Inside, Past
  <1>20. ASSUME NEW enabled, Choose(j, enabled) PROVE Moved(j)
    <2>1. job[j].pc = "idle" /\ UNCHANGED <<writer, clock>>
      BY <1>20 DEF Choose
    <2>2. ASSUME NEW listed, job' = [job EXCEPT ![j].pc = "delete", ![j].listed = listed,
                                             ![j].enabled = enabled]
          PROVE  Moved(j)
      BY <1>0, <2>1, <2>2 DEF Fields, Moved, Latched, Ticked, Inside, Past
    <2>3. ASSUME Forget(j, "refused") PROVE Moved(j)
      BY <1>0, <2>1, <2>3 DEF Forget, Idle, Moved, Latched, Ticked, Inside, Past
    <2> QED
      BY <1>20, <2>2, <2>3 DEF Choose
  <1>21. ASSUME Begin(j) PROVE Moved(j)
    BY <1>1, <1>19, <1>20, <1>21 DEF Begin
  <1>22. ASSUME Step(j) PROVE Moved(j)
    BY <1>2, <1>3, <1>4, <1>5, <1>6, <1>7, <1>8, <1>9, <1>10, <1>11, <1>12, <1>13, <1>14,
       <1>15, <1>17, <1>18, <1>22 DEF Step
  <1> QED
    BY <1>16, <1>21, <1>22

(* The lock follows its holder.                                            *)
LEMMA MovedLocked ==
    ASSUME Locked, NEW j \in Job, Moved(j)
    PROVE  Locked'
  BY Sets DEF Moved, Latched, Locked

(* The clock ticks for a job that has not been counted.                    *)
LEMMA MovedCounted ==
    ASSUME Counted, Placed, NEW j \in Job, Moved(j)
    PROVE  Counted'
  <1>1. /\ IsFiniteSet(Stamped) /\ Stamped' \in SUBSET Writers /\ Stamped \in SUBSET Writers
        /\ Cardinality(Stamped) \in Nat
        /\ IsFiniteSet(Stamped') /\ Cardinality(Stamped') \in Nat
    <2>1. Stamped' \in SUBSET Writers /\ Stamped \in SUBSET Writers
      BY DEF Stamped
    <2> QED
      BY <2>1, FiniteWriters
  <1>2. CASE UNCHANGED clock /\ (job[j].pc \in Past => job'[j].pc \in Past)
    <2>1. Stamped \in SUBSET Stamped'
      BY <1>2, Sets DEF Moved, Stamped
    <2>2. Cardinality(Stamped) <= Cardinality(Stamped')
      BY <1>1, <2>1, FS_Subset
    <2> QED
      BY <1>1, <1>2, <2>2 DEF Counted
  <1>3. CASE clock' = clock + 1 /\ job[j].pc = "asking" /\ job'[j].pc = "mark"
    <2>1. j \in Writers /\ j \notin Stamped
      BY <1>3 DEF Placed, Probing, Stamped, Past
    <2>2. Stamped' = Stamped \cup {j}
      BY <1>3, <2>1, Sets DEF Moved, Stamped, Past
    <2>3. Cardinality(Stamped \cup {j}) = Cardinality(Stamped) + 1
      BY <1>1, <2>1, FS_AddElement
    <2> QED
      BY <1>1, <1>3, <2>2, <2>3 DEF Counted
  <1> QED
    BY <1>2, <1>3 DEF Moved, Ticked

(* A number that does not exceed that of some writers is a stamp.          *)
LEMMA IsStamp ==
    ASSUME NEW n \in Nat, NEW S \in SUBSET Writers, n <= Cardinality(S)
    PROVE  n \in Stamp
  <1>1. Cardinality(S) \in 0..Cardinality(Writers)
    BY FiniteWriters
  <1> QED
    BY <1>1, FiniteWriters DEF Stamp

(* The tables and the locals keep their types.                             *)
LEMMA StepTyped ==
    ASSUME Typed, Placed, Counted', NEW j \in Job, Begin(j) \/ Step(j) \/ Die(j)
    PROVE  Typed'
  <1>1. /\ job \in [Job -> Locals] /\ job[j] \in Locals /\ DOMAIN verdict = Provider
        /\ Of(j) \in Provider /\ verdict[Of(j)].last \in Stamp
        /\ "custom" \in Provider /\ verdict["custom"].last \in Stamp /\ row.key \in BOOLEAN
    BY Sets DEF Typed
  <1>2. clock' \in Stamp
    <2>1. Stamped' \in SUBSET Writers
      BY DEF Stamped
    <2> QED
      BY <2>1, IsStamp DEF Counted
  <1>3. 0 \in Stamp
    BY FiniteWriters DEF Stamp
  <1>4. \A at \in Location : [Idle EXCEPT !.pc = at] \in Locals
    BY <1>3 DEF Idle, Locals, Location
  <1>5. ASSUME NEW at \in Location, Goto(j, at) \/ Forget(j, at)
        PROVE  job' \in [Job -> Locals]
    <2>1. ASSUME NEW r \in Locals PROVE [job EXCEPT ![j] = r] \in [Job -> Locals]
      BY <1>1
    <2>2. CASE Forget(j, at)
      BY <1>4, <2>1, <2>2 DEF Forget
    <2>3. CASE Goto(j, at)
      <3>1. [job[j] EXCEPT !.pc = at] \in Locals
        BY <1>1 DEF Locals
      <3> QED
        BY <1>1, <2>3, <3>1 DEF Goto
    <2> QED
      BY <1>5, <2>2, <2>3
  <1>6. ASSUME NEW state \in {"none", "available", "stale"}, NEW last \in Stamp,
               NEW error \in {"none", "failed", "not_verified"}, j \in Writers,
               verdict' = Snapshot(j, state, last, error)
        PROVE  verdict' \in [Provider -> [state : {"none", "available", "stale"}, last : Stamp,
                                          error : {"none", "failed", "not_verified"},
                                          of : Writers \cup {Nobody}]]
    BY <1>1, <1>6 DEF Snapshot, Typed
  <1>7. ASSUME NEW models \in SUBSET Model, available' = Refreshed(j, models)
        PROVE  available' \in [Provider -> SUBSET Model]
    BY <1>1, <1>7 DEF Refreshed, Typed
  <1>8. ASSUME j \in Save, row' = Stored(j)
        PROVE  row' \in [of : Save \cup {Nobody}, key : BOOLEAN]
    BY <1>1, <1>8 DEF Stored, Locals
  <1>9. CASE Discover(j) \/ NoAnswer(j) \/ Mark(j) \/ ReplaceRefused(j) \/ ReplaceMark(j)
             \/ Delete(j)
    <2>1. UNCHANGED <<db, faults>>
      BY <1>9 DEF Discover, NoAnswer, Mark, ReplaceRefused, ReplaceMark, Delete
    <2>2. \E at \in Location : Goto(j, at) \/ Forget(j, at)
      BY <1>9 DEF Discover, NoAnswer, Mark, ReplaceRefused, ReplaceMark, Delete, Location
    <2> QED
      BY <1>5, <2>1, <2>2 DEF Typed, db
  <1>10. ASSUME NEW found \in Answers, Answered(j, found) \/ Probed(j, found)
         PROVE  Typed'
    <2>1. UNCHANGED <<db, faults>>
      BY <1>10 DEF Answered, Probed
    <2>2. CASE Goto(j, "fail_read")
      BY <1>5, <2>1, <2>2 DEF Typed, db, Location
    <2>3. CASE Take(j, found)
      <3>1. found \in SUBSET Model /\ "mark" \in Location
        BY AnswerAssumption DEF Location
      <3>2. job' \in [Job -> Locals]
        BY <1>1, <1>2, <2>3, <3>1 DEF Take, Locals
      <3> QED
        BY <2>1, <3>2 DEF Typed, db
    <2> QED
      BY <1>10, <2>2, <2>3 DEF Answered, Probed
  <1>11. CASE RefreshSuccess(j)
    <2>1. j \in Writers /\ job[j].found \in SUBSET Model /\ job[j].stamp \in Stamp
      BY <1>1, <1>11 DEF RefreshSuccess, At, Placed, Probing, Locals
    <2>2. job' \in [Job -> Locals]
      BY <1>5, <1>11 DEF RefreshSuccess, Location
    <2> QED
      BY <1>6, <1>7, <1>11, <2>1, <2>2 DEF RefreshSuccess, Typed
  <1>12. CASE FailRead(j)
    <2>1. job' \in [Job -> Locals]
      BY <1>1, <1>12 DEF FailRead, Locals, Location
    <2> QED
      BY <1>12, <2>1 DEF FailRead, Typed, db
  <1>13. CASE RecordFailure(j)
    <2>1. j \in Writers /\ job[j].last \in Stamp
      BY <1>1, <1>13 DEF RecordFailure, At, Placed, Probing, Locals
    <2>2. job' \in [Job -> Locals]
      BY <1>5, <1>13 DEF RecordFailure, Location
    <2>3. \/ UNCHANGED verdict \/ verdict' = Snapshot(j, "stale", job[j].last, "failed")
      BY <1>13 DEF RecordFailure
    <2> QED
      BY <1>6, <1>13, <2>1, <2>2, <2>3 DEF RecordFailure, Typed
  <1>14. ASSUME NEW models \in Manual, NEW keyed \in BOOLEAN, NEW form \in Forms,
                BeginSave(j, models, keyed, form)
         PROVE  Typed'
    <2>1. models \in SUBSET Model /\ form \in Forms \cup {"plain"}
      BY AnswerAssumption
    <2>2. ASSUME NEW at \in {"replace", "load"}
          PROVE  [job EXCEPT ![j].pc = at, ![j].key = keyed, ![j].models = models,
                             ![j].form = form] \in [Job -> Locals]
      BY <1>1, <2>1 DEF Locals, Location
    <2>3. job' \in [Job -> Locals]
      BY <1>14, <2>2 DEF BeginSave
    <2> QED
      BY <1>14, <2>3 DEF BeginSave, Typed, db
  <1>15. CASE LoadKey(j) \/ ReplaceRead(j) \/ RowRead(j)
    <2>1. UNCHANGED <<db, faults>>
      BY <1>15 DEF LoadKey, ReplaceRead, RowRead
    <2>2. job' \in [Job -> Locals]
      BY <1>1, <1>15 DEF LoadKey, ReplaceRead, RowRead, Locals, Location
    <2> QED
      BY <2>1, <2>2 DEF Typed, db
  <1>16. CASE ReplaceCommit(j)
    <2>1. j \in Save /\ j \in Writers /\ job[j].models \in SUBSET Model /\ job[j].last \in Stamp
      BY Sets, <1>1, <1>16 DEF ReplaceCommit, At, Placed, Saving, Locals
    <2>2. job' \in [Job -> Locals]
      BY <1>5, <1>16 DEF ReplaceCommit, Location
    <2> QED
      BY <1>6, <1>7, <1>8, <1>16, <2>1, <2>2 DEF ReplaceCommit, Typed
  <1>17. CASE ReplaceRow(j)
    <2>1. j \in Save
      BY <1>17 DEF ReplaceRow, At, Placed, Saving
    <2>2. job' \in [Job -> Locals]
      BY <1>5, <1>17 DEF ReplaceRow, Location
    <2>3. UNCHANGED row \/ row' = Stored(j)
      BY <1>17 DEF ReplaceRow
    <2> QED
      BY <1>8, <1>17, <2>1, <2>2, <2>3 DEF ReplaceRow, Typed
  <1>18. ASSUME NEW enabled \in SUBSET Provider, Choose(j, enabled)
         PROVE  Typed'
    <2>1. UNCHANGED <<db, faults>>
      BY <1>18 DEF Choose
    <2>2. CASE Forget(j, "refused")
      BY <1>5, <2>1, <2>2 DEF Typed, db, Location
    <2>3. ASSUME NEW listed \in SUBSET Provider,
                 job' = [job EXCEPT ![j].pc = "delete", ![j].listed = listed,
                                    ![j].enabled = enabled]
          PROVE  Typed'
      <3>1. job' \in [Job -> Locals]
        BY <1>1, <2>3 DEF Locals, Location
      <3> QED
        BY <2>1, <3>1 DEF Typed, db
    <2> QED
      BY <1>18, <2>2, <2>3 DEF Choose
  <1>19. CASE Insert(j)
    <2>1. job' \in [Job -> Locals]
      BY <1>5, <1>19 DEF Insert, Location
    <2> QED
      BY <1>19, <2>1 DEF Insert, Typed
  <1>20. CASE Die(j)
    <2>1. job' \in [Job -> Locals]
      BY <1>5, <1>20 DEF Die, Location
    <2>2. faults' \in 0..MaxFaults
      BY <1>20, BoundAssumption DEF Die, Typed
    <2> QED
      BY <1>20, <2>1, <2>2 DEF Die, Typed, db
  <1>21. ASSUME Begin(j) PROVE Typed'
    BY <1>9, <1>14, <1>18, <1>21 DEF Begin
  <1>22. ASSUME Step(j) PROVE Typed'
    BY <1>9, <1>10, <1>11, <1>12, <1>13, <1>15, <1>16, <1>17, <1>19, <1>22 DEF Step
  <1> QED
    BY <1>20, <1>21, <1>22

LEMMA NextTInv ==
    ASSUME IInv, TInv, [Next]_vars
    PROVE  TInv'
  <1>1. CASE UNCHANGED vars
    BY <1>1 DEF vars, db, TInv, Typed, Locked, Counted, Stamped
  <1>2. ASSUME NEW j \in Job, Begin(j) \/ Step(j) \/ Die(j) PROVE TInv'
    <2>1. Moved(j)
      BY <1>2, StepMoves DEF TInv
    <2>2. Locked' /\ Counted'
      BY <2>1, MovedLocked, MovedCounted DEF TInv, IInv
    <2>3. Typed'
      BY <1>2, <2>2, StepTyped DEF TInv, IInv
    <2> QED
      BY <2>2, <2>3 DEF TInv
  <1> QED
    BY <1>1, <1>2 DEF Next

(* Every table and every job keeps its type, the write lock is held by the *)
(* job inside its transaction and by no other, and no stamp exceeds the    *)
(* number of jobs that may take one.                                       *)
THEOREM TypeCorrect == Spec => []TypeOK
  <1>1. TInv => TypeOK
    <2>1. ASSUME TInv PROVE clock \in Stamp /\ \A j \in Job : job[j].pc \in Location
      <3>1. Stamped \in SUBSET Writers
        BY DEF Stamped
      <3> QED
        BY <2>1, <3>1, IsStamp DEF TInv, Counted, Typed, Locals
    <2> QED
      BY <2>1 DEF TInv, Typed, Locked, Inside, TypeOK, Location
  <1> QED
    BY InitTInv, NextTInv, Invariance, <1>1, PTL DEF Spec
-----------------------------------------------------------------------------
(* A provider that is turned off is known to whoever replaces the rows: it *)
(* was listed when it was turned off, has stayed so, and no other          *)
(* selection has come between.                                             *)
Known ==
    /\ \A p \in Provider : selection[p] = "off" => Listed(p)
    /\ \A j \in Choice : UnderWay(j) =>
          /\ \A p \in Provider : p \in job[j].listed => Listed(p)
          /\ \A p \in Provider : selection[p] = "off" => p \in job[j].listed
          /\ \A k \in Choice : UnderWay(k) => k = j

(* The steps of the selection's route.                                     *)
LEMMA ChoiceSteps ==
    ASSUME IInv, NEW j \in Choice, Begin(j) \/ Step(j) \/ Die(j)
    PROVE  (\E enabled \in SUBSET Provider : Choose(j, enabled))
           \/ Delete(j) \/ Insert(j) \/ Die(j)
  <1>1. j \notin Discovery /\ j \notin Save /\ j \in Job
    BY JobAssumption DEF Job
  <1>2. job[j].pc \notin Probing \cup Saving
    BY <1>1, Sets DEF IInv, Placed
  <1> QED
    BY <1>1, <1>2
       DEF Begin, Step, Discover, BeginSave, NoAnswer, Answered, Probed, Mark, RefreshSuccess,
           FailRead, RecordFailure, LoadKey, ReplaceRefused, ReplaceRead, RowRead,
           ReplaceMark, ReplaceCommit, ReplaceRow, At, Probing, Saving

(* Nothing but the COMMIT of a selection changes it.                       *)
LEMMA OnlyInsertSelects ==
    ASSUME [Next]_vars
    PROVE  UNCHANGED selection \/ \E j \in Job : Insert(j)
  <1>1. ASSUME NEW j \in Job, Begin(j) PROVE UNCHANGED selection
    BY <1>1 DEF Begin, Discover, BeginSave, Choose, db
  <1>2. ASSUME NEW j \in Job, Step(j) PROVE UNCHANGED selection \/ Insert(j)
    BY <1>2 DEF Step, db, NoAnswer, Answered, Probed, Mark, RefreshSuccess, FailRead,
                RecordFailure, LoadKey, ReplaceRefused, ReplaceRead, RowRead, ReplaceMark,
                ReplaceCommit, ReplaceRow, Delete
  <1> QED
    BY <1>1, <1>2 DEF Next, Die, vars, db

(* What is not the reading of the catalogue nor the COMMIT keeps what the  *)
(* selection under way knows.                                              *)
LEMMA KnownKept ==
    ASSUME Known, UNCHANGED selection, \A p \in Provider : Listed(p) => Listed(p)',
           \A k \in Choice : UnderWay(k)' => UnderWay(k) /\ job'[k].listed = job[k].listed
    PROVE  Known'
  BY DEF Known

LEMMA KnownStep ==
    ASSUME IInv, TInv, Known, [Next]_vars
    PROVE  Known'
  <1>1. \A p \in Provider : Listed(p) => Listed(p)'
    BY StaysListed
  <1>2. CASE UNCHANGED vars
    BY <1>1, <1>2, KnownKept DEF vars, db, UnderWay, Ended
  <1>3. ASSUME NEW j \in Job, Begin(j) \/ Step(j) \/ Die(j) PROVE Known'
    <2>0. /\ job \in [Job -> Locals] /\ DOMAIN job[j] = Fields
          /\ \A k \in Job \ {j} : job'[k] = job[k]
          /\ \A k \in Choice : k \in Job
      BY <1>3, StepMoves DEF TInv, Typed, Moved, Locals, Fields, Job
    <2>1. ASSUME j \notin Choice PROVE Known'
      <3>1. UNCHANGED selection
        <4>1. ~Insert(j)
          BY <2>1 DEF Insert, At, IInv, Placed, Choosing
        <4>2. ASSUME Step(j) PROVE UNCHANGED selection
          BY <4>1, <4>2
             DEF Step, db, NoAnswer, Answered, Probed, Mark, RefreshSuccess, FailRead,
                 RecordFailure, LoadKey, ReplaceRefused, ReplaceRead, RowRead, ReplaceMark,
                 ReplaceCommit, ReplaceRow, Delete
        <4>3. ASSUME Begin(j) \/ Die(j) PROVE UNCHANGED selection
          BY <4>3 DEF Begin, Discover, BeginSave, Choose, Die, db
        <4> QED
          BY <1>3, <4>2, <4>3
      <3>2. \A k \in Choice : job'[k] = job[k]
        BY <2>0, <2>1
      <3> QED
        BY <1>1, <3>1, <3>2, KnownKept DEF UnderWay, Ended
    <2>2. ASSUME j \in Choice, Delete(j) \/ Die(j) PROVE Known'
      <3>1. UNCHANGED selection
        BY <2>2 DEF Delete, Die, db
      <3>2. UnderWay(j)' => UnderWay(j) /\ job'[j].listed = job[j].listed
        <4>1. CASE Delete(j)
          BY <2>0, <4>1 DEF Delete, Goto, At, UnderWay, Ended, Fields
        <4>2. CASE Die(j)
          BY <2>0, <4>2 DEF Die, Forget, UnderWay, Ended
        <4> QED
          BY <2>2, <4>1, <4>2
      <3>3. \A k \in Choice : UnderWay(k)' => UnderWay(k) /\ job'[k].listed = job[k].listed
        BY <2>0, <3>2 DEF UnderWay, Ended
      <3> QED
        BY <1>1, <3>1, <3>3, KnownKept
    <2>3. ASSUME j \in Choice, Insert(j) PROVE Known'
      <3>1. /\ UnderWay(j) /\ ~UnderWay(j)'
            /\ \A p \in Provider : selection'[p] = "off" => p \in job[j].listed
        BY <2>0, <2>3 DEF Insert, Forget, At, UnderWay, Ended
      <3>2. \A k \in Choice : ~UnderWay(k)'
        BY <2>0, <2>3, <3>1 DEF Known, UnderWay, Ended
      <3> QED
        BY <1>1, <2>3, <3>1, <3>2 DEF Known
    <2>4. ASSUME j \in Choice, NEW enabled \in SUBSET Provider, Choose(j, enabled)
          PROVE  Known'
      <3>1. UNCHANGED selection /\ \A k \in Choice : ~UnderWay(k)
        BY <2>4 DEF Choose, LoopFree, db
      <3>2. CASE Forget(j, "refused")
        <4>1. \A k \in Choice : ~UnderWay(k)'
          BY <2>0, <3>1, <3>2 DEF Forget, UnderWay, Ended
        <4> QED
          BY <1>1, <3>1, <4>1, KnownKept
      <3>3. ASSUME NEW listed, listed = {p \in Provider : Listed(p)},
                   job' = [job EXCEPT ![j].pc = "delete", ![j].listed = listed,
                                      ![j].enabled = enabled]
            PROVE  Known'
        <4>1. job'[j].listed = listed /\ \A k \in Choice : UnderWay(k)' => k = j
          BY <2>0, <3>1, <3>3 DEF UnderWay, Ended, Fields
        <4> QED
          BY <1>1, <3>1, <3>3, <4>1 DEF Known
      <3> QED
        BY <2>4, <3>2, <3>3 DEF Choose
    <2> QED
      BY <1>3, <2>1, <2>2, <2>3, <2>4, ChoiceSteps
  <1> QED
    BY <1>2, <1>3 DEF Next

(* Only the COMMIT of a selection that names it lets a provider into the   *)
(* exports that was kept out of them.                                      *)
THEOREM OnlyChosenIn == Spec => DisabledStaysOut
  <1> DEFINE Named == \A p \in Provider : Listed(p) /\ ~Exported(p) /\ Exported(p)' =>
                        \E j \in Choice :
                           writer = j /\ writer' = Nobody /\ p \in job[j].enabled
  <1>1. ASSUME IInv, Known, [Next]_vars
        PROVE  [Named]_vars
    <2>1. CASE UNCHANGED selection
      BY <2>1 DEF Exported, Enabled
    <2>2. ASSUME NEW j \in Job, Insert(j) PROVE Named
      <3>1. j \in Choice /\ writer = j /\ writer' = Nobody /\ UnderWay(j)
        <4>1. job[j].pc = "insert" /\ writer' = Nobody
          BY <2>2 DEF Insert, At
        <4> QED
          BY <1>1, <4>1 DEF IInv, Placed, Choosing, UnderWay, Ended
      <3>2. \A p \in Provider : p \in job[j].listed /\ p \notin job[j].enabled => ~Exported(p)'
        BY <2>2 DEF Insert, Exported, Enabled
      <3>3. \A p \in Provider : Listed(p) /\ ~Exported(p) => p \in job[j].listed
        BY <1>1, <3>1 DEF Known, Exported, Enabled
      <3> QED
        BY <3>1, <3>2, <3>3
    <2> QED
      BY <1>1, <2>1, <2>2, OnlyInsertSelects
  <1>2. Init => Known
    BY DEF Init, Known, Idle, UnderWay, Job
  <1>3. IInv /\ TInv /\ Known /\ [Next]_vars => Known'
    BY KnownStep
  <1> QED
    BY Invariance, InitTInv, NextTInv, <1>1, <1>2, <1>3, PTL DEF Spec, DisabledStaysOut
-----------------------------------------------------------------------------
(* What a job has read before its first write stays a time of a success,   *)
(* however many jobs have written since.                                   *)
Read == {"fail_write", "replace_mark", "replace_commit"}
Remembered ==
    /\ DOMAIN past = Provider
    /\ \A p \in Provider : verdict[p].last \in past[p]
    /\ \A j \in Job : job[j].pc \in Read => job[j].last \in past[Of(j)]

(* A step that writes no table, and the locals that its job may then have. *)
Quiet(j) ==
    /\ UNCHANGED <<available, verdict, past, row>>
    /\ j \in Writers => Phase(j)' \in {Phase(j), "over"}
    /\ job'[j].pc \in Read =>
          \/ job'[j].last = verdict[Of(j)].last
          \/ job[j].pc \in Read /\ job'[j].last = job[j].last

(* The steps that write one: each is one step of AtomicCatalogue.          *)
Written(j) ==
    \/ RefreshSuccess(j) \/ ReplaceCommit(j)
    \/ RecordFailure(j) /\ ~(~job[j].known /\ verdict[Of(j)].state # "none")
    \/ ReplaceRow(j) /\ ~(~job[j].known /\ row.of # Nobody)

LEMMA QuietOrWritten ==
    ASSUME IInv, TInv, NEW j \in Job, Begin(j) \/ Step(j) \/ Die(j)
    PROVE  Quiet(j) \/ Written(j)
  <1> USE DEF At, Read, db, history
  <1>0. /\ job \in [Job -> Locals] /\ DOMAIN job[j] = Fields /\ Placed
        /\ j \in Discovery => j \notin Save
        /\ j \in Save => Of(j) = "custom"
    BY Sets DEF IInv, TInv, Typed, Locals, Fields
  <1>1. CASE Discover(j)
    BY <1>0, <1>1 DEF Discover, Goto, Fields, Quiet, Phase, Ended, Probing
  <1>2. CASE NoAnswer(j)
    BY <1>0, <1>2 DEF NoAnswer, Goto, Fields, Quiet, Phase, Ended, Probing
  <1>3. CASE Mark(j)
    BY <1>0, <1>3 DEF Mark, Goto, Fields, Quiet, Phase, Ended, Probing
  <1>4. CASE RefreshSuccess(j)
    BY <1>4 DEF Written
  <1>5. CASE FailRead(j)
    BY <1>0, <1>5 DEF FailRead, Fields, Quiet, Phase, Ended, Probing
  <1>6. CASE RecordFailure(j)
    <2>1. CASE ~job[j].known /\ verdict[Of(j)].state # "none"
      BY <1>0, <1>6, <2>1 DEF RecordFailure, Forget, Idle, Quiet, Phase, Ended
    <2> QED
      BY <1>6, <2>1 DEF Written
  <1>7. CASE LoadKey(j)
    BY <1>0, <1>7 DEF LoadKey, Fields, Quiet, Phase, Ended, Probing
  <1>8. CASE ReplaceRefused(j)
    BY <1>0, <1>8 DEF ReplaceRefused, Forget, Idle, Quiet, Phase, Ended
  <1>9. CASE ReplaceRead(j)
    BY <1>0, <1>9 DEF ReplaceRead, Fields, Quiet, Phase, Ended, Probing, Placed, Saving
  <1>10. CASE RowRead(j)
    BY <1>0, <1>10 DEF RowRead, Fields, Quiet, Phase, Ended, Probing
  <1>11. CASE ReplaceMark(j)
    BY <1>0, <1>11 DEF ReplaceMark, Goto, Fields, Quiet, Phase, Ended, Probing
  <1>12. CASE ReplaceCommit(j)
    BY <1>12 DEF Written
  <1>13. CASE ReplaceRow(j)
    <2>1. CASE ~job[j].known /\ row.of # Nobody
      BY <1>0, <1>13, <2>1 DEF ReplaceRow, Forget, Idle, Quiet, Phase, Ended
    <2> QED
      BY <1>13, <2>1 DEF Written
  <1>14. CASE Delete(j)
    BY <1>0, <1>14, Sets DEF Delete, Goto, Fields, Quiet, Placed, Choosing
  <1>15. CASE Insert(j)
    BY <1>0, <1>15, Sets DEF Insert, Forget, Idle, Quiet, Placed, Choosing
  <1>16. CASE Die(j)
    BY <1>0, <1>16 DEF Die, Forget, Idle, Quiet, Phase, Ended
  <1>17. ASSUME NEW found \in Answers, Answered(j, found) \/ Probed(j, found) PROVE Quiet(j)
    <2>1. job[j].pc = "asking" /\ UNCHANGED <<available, verdict, past, row>>
      BY <1>17 DEF Answered, Probed
    <2>2. job'[j].pc \in {"mark", "fail_read"}
      BY <1>0, <1>17 DEF Answered, Probed, Take, Goto, Fields
    <2> QED
      BY <2>1, <2>2 DEF Quiet, Phase, Ended, Probing
  <1>18. ASSUME NEW models, NEW keyed, NEW form, BeginSave(j, models, keyed, form) PROVE Quiet(j)
    <2>1. job'[j].pc \in {"replace", "load"}
      BY <1>0, <1>18 DEF BeginSave, Fields
    <2> QED
      BY <1>18, <2>1 DEF BeginSave, Quiet, Phase, Ended, Probing
  <1>19. ASSUME NEW enabled, Choose(j, enabled) PROVE Quiet(j)
    <2>1. j \notin Writers /\ UNCHANGED <<available, verdict, past, row>>
      BY <1>19, Sets DEF Choose
    <2>2. ASSUME NEW listed, job' = [job EXCEPT ![j].pc = "delete", ![j].listed = listed,
                                             ![j].enabled = enabled]
          PROVE  Quiet(j)
      BY <1>0, <2>1, <2>2 DEF Fields, Quiet
    <2>3. ASSUME Forget(j, "refused") PROVE Quiet(j)
      BY <1>0, <2>1, <2>3 DEF Forget, Idle, Quiet
    <2> QED
      BY <1>19, <2>2, <2>3 DEF Choose
  <1>20. ASSUME Begin(j) PROVE Quiet(j) \/ Written(j)
    BY <1>1, <1>18, <1>19, <1>20 DEF Begin
  <1>21. ASSUME Step(j) PROVE Quiet(j) \/ Written(j)
    BY <1>2, <1>3, <1>4, <1>5, <1>6, <1>7, <1>8, <1>9, <1>10, <1>11, <1>12, <1>13, <1>14,
       <1>15, <1>17, <1>21 DEF Step
  <1> QED
    BY <1>16, <1>20, <1>21

(* What the four writing steps write: a success is the job's stamp, and    *)
(* any other verdict the time that the job has read.                       *)
LEMMA WrittenVerdict ==
    ASSUME IInv, TInv, Remembered, NEW j \in Job, Written(j)
    PROVE  /\ \A p \in Provider : past[p] \subseteq past'[p] /\ verdict'[p].last \in past'[p]
           /\ DOMAIN past' = Provider /\ job'[j].pc \notin Read
  <1> USE DEF At, Read, Remembered
  <1>0. /\ DOMAIN job = Job /\ DOMAIN verdict = Provider /\ Of(j) \in Provider
    BY Sets DEF IInv, Shaped
  <1>1. CASE RefreshSuccess(j)
    BY <1>0, <1>1 DEF RefreshSuccess, Snapshot, Forget, Idle
  <1>2. CASE ReplaceCommit(j)
    BY <1>0, <1>2 DEF ReplaceCommit, Snapshot, Forget, Idle, history
  <1>3. CASE RecordFailure(j) /\ ~(~job[j].known /\ verdict[Of(j)].state # "none")
    BY <1>0, <1>3 DEF RecordFailure, Snapshot, Forget, Idle, history
  <1>4. CASE ReplaceRow(j) /\ ~(~job[j].known /\ row.of # Nobody)
    BY <1>0, <1>4 DEF ReplaceRow, Forget, Idle, history
  <1> QED
    BY <1>1, <1>2, <1>3, <1>4 DEF Written

LEMMA StepRemembers ==
    ASSUME IInv, TInv, Remembered, NEW j \in Job, Begin(j) \/ Step(j) \/ Die(j)
    PROVE  Remembered'
  <1>1. Moved(j)
    BY StepMoves DEF IInv, TInv
  <1>2. CASE Quiet(j)
    BY <1>1, <1>2, Sets DEF Remembered, Quiet, Moved
  <1>3. CASE Written(j)
    BY <1>1, <1>3, WrittenVerdict, Sets DEF Remembered, Moved
  <1> QED
    BY <1>2, <1>3, QuietOrWritten

LEMMA Remembering == Spec => [](IInv /\ TInv /\ Remembered)
  <1>1. Init => Remembered
    BY Sets DEF Init, Remembered, Idle, Read
  <1>2. ASSUME IInv, TInv, Remembered, [Next]_vars PROVE Remembered'
    <2>1. CASE UNCHANGED vars
      BY <1>2, <2>1 DEF vars, db, history, Remembered
    <2> QED
      BY <1>2, <2>1, StepRemembers DEF Next
  <1>3. IInv /\ TInv /\ Remembered /\ [Next]_vars => (IInv /\ TInv /\ Remembered)'
    BY <1>2, NextIInv, NextTInv
  <1> QED
    BY InitIInv, InitTInv, <1>1, <1>3, PTL DEF Spec

(* One job's progress is one entry of what AtomicCatalogue calls phase.    *)
LEMMA Enters ==
    ASSUME NEW j \in Writers, Moved(j)
    PROVE  [k \in Writers |-> Phase(k)]' =
              [[k \in Writers |-> Phase(k)] EXCEPT ![j] = Phase(j)']
  BY Sets DEF Moved, Phase, Ended

LEMMA Unseen ==
    ASSUME NEW j \in Job, Moved(j), UNCHANGED <<available, verdict, past, row>>,
           j \in Writers => Phase(j)' = Phase(j)
    PROVE  UNCHANGED Atomic!cvars
  <1>1. \A k \in Writers : Phase(k)' = Phase(k)
    BY Sets DEF Moved, Phase, Ended
  <1>2. [k \in Writers |-> Phase(k)]' = [k \in Writers |-> Phase(k)]
    BY <1>1
  <1> QED
    BY <1>2 DEF Atomic!cvars, Atomic!tables

LEMMA QuietRefines ==
    ASSUME NEW j \in Job, Moved(j), Quiet(j)
    PROVE  [Atomic!Next]_(Atomic!cvars)
  <1>1. CASE j \in Writers => Phase(j)' = Phase(j)
    BY <1>1, Unseen DEF Quiet
  <1>2. CASE j \in Writers /\ Phase(j)' # Phase(j)
    <2>1. Phase(j) # "over" /\ Phase(j)' = "over"
      BY <1>2 DEF Quiet
    <2>2. Atomic!Conclude(j)
      BY <1>2, <2>1, Enters DEF Quiet, Atomic!Conclude, Atomic!Enter, Atomic!tables
    <2> QED
      BY <1>2, <2>1, <2>2 DEF Atomic!Next, Writers
  <1> QED
    BY <1>1, <1>2

LEMMA WrittenRefines ==
    ASSUME IInv, TInv, Remembered, NEW j \in Job, Moved(j), Written(j)
    PROVE  Atomic!Next
  <1> USE DEF At
  <1>0. /\ DOMAIN job = Job /\ DOMAIN job[j] = Fields /\ job[j] \in Locals
    BY DEF IInv, Shaped, TInv, Typed
  <1>1. CASE RefreshSuccess(j)
    <2>1. /\ j \in Writers /\ Phase(j)' = "over" /\ Phase(j) # "over"
          /\ j \in Save => Phase(j) = "stored"
      BY <1>0, <1>1 DEF RefreshSuccess, Forget, Idle, IInv, Placed, Phase, Ended, Probing
    <2>2. job[j].found \in (SUBSET Model) \ {{}} /\ job[j].stamp \in Stamp
      BY <1>0, <1>1 DEF RefreshSuccess, IInv, Carried, Locals
    <2>3. Atomic!Announce(j)
      BY <1>1, <2>1, <2>2
      DEF RefreshSuccess, Refreshed, Snapshot, Atomic!Announce, Atomic!Show, Atomic!Judge,
          Atomic!Catalogue
    <2>4. Atomic!Conclude(j)
      BY <1>1, <2>1, <2>3, Enters DEF RefreshSuccess, Atomic!Conclude, Atomic!Enter
    <2> QED
      BY <2>1, <2>4, Enters DEF Atomic!Next, Writers
  <1>2. CASE RecordFailure(j) /\ ~(~job[j].known /\ verdict[Of(j)].state # "none")
    <2>1. /\ j \in Writers /\ Phase(j)' = "over" /\ Phase(j) # "over"
          /\ j \in Save => Phase(j) = "stored"
      BY <1>0, <1>2 DEF RecordFailure, Forget, Idle, IInv, Placed, Phase, Ended, Probing
    <2>2. job[j].last \in past[Of(j)]
      BY <1>2 DEF RecordFailure, Remembered, Read
    <2>3. Atomic!Report(j)
      BY <1>2, <2>1, <2>2
      DEF RecordFailure, Snapshot, history, Atomic!Report, Atomic!Doubt, Atomic!Judge
    <2>4. Atomic!Conclude(j)
      BY <1>2, <2>1, <2>3, Enters DEF RecordFailure, Atomic!Conclude, Atomic!Enter
    <2> QED
      BY <2>1, <2>4, Enters DEF Atomic!Next, Writers
  <1>3. CASE ReplaceCommit(j)
    <2>1. j \in Save /\ j \in Writers /\ Phase(j)' = "stored" /\ Phase(j) = "before"
      BY <1>0, <1>3, Sets
      DEF ReplaceCommit, Forget, Idle, IInv, Placed, Saving, Phase, Ended, Probing
    <2>2. job[j].models \in (SUBSET Model) \ {{}} /\ job[j].last \in past[Of(j)]
      BY <1>0, <1>3 DEF ReplaceCommit, IInv, Carried, Locals, Remembered, Read
    <2>3. Atomic!Configure(j)
      BY <1>3, <2>1, <2>2
      DEF ReplaceCommit, Refreshed, Snapshot, history, Atomic!Configure, Atomic!Show,
          Atomic!Doubt, Atomic!Judge, Atomic!Catalogue
    <2>4. Atomic!Store(j)
      BY <1>3, <2>1, <2>3, Enters DEF ReplaceCommit, Stored, Atomic!Store, Atomic!Enter
    <2> QED
      BY <2>1, <2>4, Enters DEF Atomic!Next
  <1>4. CASE ReplaceRow(j) /\ ~(~job[j].known /\ row.of # Nobody)
    <2>1. j \in Save /\ j \in Writers /\ Phase(j)' = "stored" /\ Phase(j) = "before"
      BY <1>0, <1>4, Sets
      DEF ReplaceRow, Forget, Idle, IInv, Placed, Saving, Phase, Ended, Probing
    <2>2. Atomic!Store(j)
      BY <1>4, <2>1, Enters
      DEF ReplaceRow, Stored, history, Atomic!Store, Atomic!Enter, Atomic!tables
    <2> QED
      BY <2>1, <2>2, Enters DEF Atomic!Next
  <1> QED
    BY <1>1, <1>2, <1>3, <1>4 DEF Written

(* Whatever jobs overlap, fail or die, each takes effect on what readers   *)
(* see in single steps: the registry and the storage implement             *)
(* AtomicCatalogue.                                                        *)
THEOREM CatalogueIsAtomic == Spec => RefinesAtomicCatalogue
  <1>1. Init => Atomic!Init
    BY Sets DEF Init, Idle, Phase, Ended, Probing, Writers, Atomic!Init
  <1>2. ASSUME IInv /\ TInv /\ Remembered, [Next]_vars
        PROVE  [Atomic!Next]_(Atomic!cvars)
    <2>1. CASE UNCHANGED vars
      BY <2>1 DEF vars, db, history, Phase, Ended, Atomic!cvars, Atomic!tables
    <2>2. ASSUME NEW j \in Job, Begin(j) \/ Step(j) \/ Die(j)
          PROVE  [Atomic!Next]_(Atomic!cvars)
      <3>1. Moved(j)
        BY <1>2, <2>2, StepMoves DEF IInv, TInv
      <3> QED
        BY <1>2, <2>2, <3>1, QuietOrWritten, QuietRefines, WrittenRefines
    <2> QED
      BY <1>2, <2>1, <2>2 DEF Next
  <1> QED
    BY <1>1, <1>2, Remembering, PTL DEF Spec, RefinesAtomicCatalogue, Atomic!Spec
=============================================================================
