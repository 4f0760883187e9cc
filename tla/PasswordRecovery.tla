-------------------------- MODULE PasswordRecovery --------------------------
(***************************************************************************)
(* What a forgotten password's recovery promises.  The operator at the     *)
(* desktop hands out tickets, each good for one attempt.  An attempt that  *)
(* changes the password closes every session in the same step, and a       *)
(* session is only ever opened with the password of that moment.  The      *)
(* Supervisor may stop at any time, a change in its hands or not, and      *)
(* takes the sessions and the tickets with it.                             *)
(*                                                                         *)
(*   verifier  the password asked for, and the ticket that changed it      *)
(*   open      the sessions that let a request in                          *)
(*   ticket    "unissued", "waiting" for its attempt, or "spent"           *)
(***************************************************************************)
CONSTANTS Password, Session, Ticket

VARIABLES verifier, open, ticket

rvars == <<verifier, open, ticket>>

Init ==
    /\ verifier \in [password : Password, by : {"setup"}]
    /\ open = {}
    /\ ticket = [c \in Ticket |-> "unissued"]

Waiting == {c \in Ticket : ticket[c] = "waiting"}
Spend(lost) == ticket' = [c \in Ticket |-> IF c \in lost THEN "spent" ELSE ticket[c]]

(* One session more; another may have to make room for it.                 *)
Enter(s) ==
    /\ \E kept \in {open} \cup {open \ {o} : o \in open} :
          open' = kept \cup {[token |-> s, by |-> verifier]}
    /\ UNCHANGED <<verifier, ticket>>

Close ==
    /\ \E o \in open : open' = open \ {o}
    /\ UNCHANGED <<verifier, ticket>>

Issue(c) ==
    /\ ticket[c] = "unissued"
    /\ ticket' = [ticket EXCEPT ![c] = "waiting"]
    /\ UNCHANGED <<verifier, open>>

(* Its time is over, or its attempt failed.                                *)
Waste(c) ==
    /\ c \in Waiting /\ Spend({c})
    /\ UNCHANGED <<verifier, open>>

Change(c, password) ==
    /\ c \in Waiting /\ (Spend({c}) \/ Spend(Waiting))
    /\ verifier' = [password |-> password, by |-> c]
    /\ open' = {}

Stop ==
    /\ Spend(Waiting) /\ open' = {}
    /\ UNCHANGED verifier

Next ==
    \/ \E s \in Session : Enter(s)
    \/ \E c \in Ticket : Issue(c) \/ Waste(c) \/ \E password \in Password : Change(c, password)
    \/ Close \/ Stop

Spec == Init /\ [][Next]_rvars

=============================================================================
