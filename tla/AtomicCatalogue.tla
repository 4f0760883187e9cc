-------------------------- MODULE AtomicCatalogue --------------------------
(***************************************************************************)
(* What the provider tables promise to their readers, however the jobs     *)
(* that write them overlap, fail and die.  A job takes effect in one step: *)
(* a discovery once, a save once when the connection is stored and once    *)
(* when its verdict is.  No step empties a catalogue, a failure leaves the *)
(* models as they are, and no time of a last success is invented.          *)
(*                                                                         *)
(*   available   the models that a reader finds of each provider           *)
(*   verdict     what a reader is told of the provider's discovery         *)
(*   past        the times of its successes; 0 stands for none             *)
(*   connection  the save whose connection is stored                       *)
(*   phase       how far each job's effects have come                      *)
(***************************************************************************)
EXTENDS Naturals

CONSTANTS Model, Stamp, Provider, Discovery, Save, About, NoJob

VARIABLES available, verdict, past, connection, phase

tables == <<available, verdict, past>>
cvars == <<tables, connection, phase>>

Catalogue == (SUBSET Model) \ {{}}

Init ==
    /\ available = [p \in Provider |-> {}]
    /\ verdict = [p \in Provider |->
                    [state |-> "none", last |-> 0, error |-> "none", of |-> NoJob]]
    /\ past = [p \in Provider |-> {0}]
    /\ connection = NoJob
    /\ phase = [j \in Discovery \cup Save |-> "before"]

Show(j) ==
    \E models \in Catalogue : available' = [available EXCEPT ![About[j]] = models]

Judge(j, state, last, error) ==
    verdict' = [verdict EXCEPT ![About[j]] =
                  [state |-> state, last |-> last, error |-> error, of |-> j]]

(* A provider is no longer known to be as it is shown; the time of its     *)
(* last success is one that it had.                                        *)
Doubt(j, error) ==
    /\ \E last \in past[About[j]] : Judge(j, "stale", last, error)
    /\ UNCHANGED past

(* The models of one answer, and that they are verified.                   *)
Announce(j) ==
    /\ Show(j)
    /\ \E last \in Stamp :
          /\ Judge(j, "available", last, "none")
          /\ past' = [past EXCEPT ![About[j]] = @ \cup {last}]

(* A failure.                                                              *)
Report(j) == Doubt(j, "failed") /\ UNCHANGED available

(* Configured models, in place of those there are.                         *)
Configure(j) == Show(j) /\ Doubt(j, "not_verified")

Enter(j, next) == phase' = [phase EXCEPT ![j] = next]

(* A save stores its connection, with a catalogue or without one.          *)
Store(j) ==
    /\ phase[j] = "before" /\ Enter(j, "stored")
    /\ connection' = j
    /\ Configure(j) \/ UNCHANGED tables

(* A job ends: with a verdict, a save's after its connection, or without.  *)
Conclude(j) ==
    /\ phase[j] # "over" /\ Enter(j, "over")
    /\ UNCHANGED connection
    /\ \/ /\ j \in Save => phase[j] = "stored"
          /\ Announce(j) \/ Report(j)
       \/ UNCHANGED tables

(* Nothing happens but by a job's progress.                                *)
Next ==
    /\ phase' # phase
    /\ \/ \E j \in Save : Store(j)
       \/ \E j \in Discovery \cup Save : Conclude(j)

Spec == Init /\ [][Next]_cvars

=============================================================================
