----------------------------- MODULE AdminAccess -----------------------------
(***************************************************************************)
(* The administrator's password, sessions and recovery challenges in the   *)
(* Supervisor (control/auth.py, control/password_recovery.py), and its     *)
(* death and restart (control/runtime_app.py).                             *)
(*                                                                         *)
(* login, complete and authorize run on the event loop without an await,   *)
(* so that each is one step; start awaits the desktop's dialog, which      *)
(* makes it two.  A verifier is named by the password it verifies and by   *)
(* the challenge that set it.  All sessions live equally long, and so do   *)
(* all challenges: they expire in the order they were issued, at any time. *)
(* The module has no Next: DashboardPage sends the requests.               *)
(***************************************************************************)
EXTENDS Naturals, SequencesExt

CONSTANTS
    Password,
    Session,        \* bound: session tokens that are known somewhere at once
    Challenge,      \* bound: recovery tokens that can be issued
    MaxSessions, MaxChallenges

ASSUME LimitAssumption == MaxSessions \in Nat \ {0} /\ MaxChallenges \in Nat \ {0}

VARIABLES
    stored,         \* the verifier in admin_security_state
    memory,         \* AdminSessionManager's verifier
    sessions,       \* _sessions, oldest first, with the verifier that opened each
    challenges,     \* _challenges, oldest first
    dialog,         \* _confirmation_gate is held
    up,             \* the Supervisor runs
    issued,         \* history: every challenge ever issued
    tried           \* history: challenges that complete has found

adminVars ==
    <<stored, memory, sessions, challenges, dialog, up, issued, tried>>

None == "none"
Verifier == [password : Password, by : Challenge \cup {"setup"}]
Members(s) == {s[n] : n \in DOMAIN s}

AdminInit ==
    /\ stored \in [password : Password, by : {"setup"}]
    /\ memory = stored
    /\ sessions = <<>> /\ challenges = <<>>
    /\ dialog = FALSE
    /\ up = TRUE
    /\ issued = {}
    /\ tried = {}

Authorized(cookie) == \E s \in Members(sessions) : s.token = cookie

(* Mutant: one session more than the limit.                                *)
MutKept == IF Len(sessions) <= MaxSessions THEN sessions ELSE Tail(sessions)

(* At the limit the oldest session is evicted.                             *)
Kept == IF Len(sessions) < MaxSessions THEN sessions ELSE Tail(sessions)

Login(password, s) ==
    /\ memory.password = password
    /\ s \in Session /\ ~Authorized(s)
    /\ sessions' = Append(Kept, [token |-> s, by |-> memory])
    /\ UNCHANGED <<stored, memory, challenges, dialog, up, issued, tried>>

LoginFails(password) == memory.password # password /\ UNCHANGED adminVars

Logout(cookie) ==
    /\ IF Authorized(cookie)
       THEN \E n \in DOMAIN sessions :
               sessions[n].token = cookie /\ sessions' = RemoveAt(sessions, n)
       ELSE UNCHANGED sessions
    /\ UNCHANGED <<stored, memory, challenges, dialog, up, issued, tried>>

(* The oldest session's, or challenge's, time is over.                     *)
ExpireSession ==
    /\ sessions # <<>>
    /\ sessions' = Tail(sessions)
    /\ UNCHANGED <<stored, memory, challenges, dialog, up, issued, tried>>

ExpireChallenge ==
    /\ challenges # <<>>
    /\ challenges' = Tail(challenges)
    /\ UNCHANGED <<stored, memory, sessions, dialog, up, issued, tried>>

-----------------------------------------------------------------------------
(* start: one dialog at a time, then a challenge unless there are enough.  *)

OpenDialog ==
    /\ ~dialog
    /\ dialog' = TRUE
    /\ UNCHANGED <<stored, memory, sessions, challenges, up, issued, tried>>

Confirm(c) ==
    /\ c \in Challenge \ issued /\ Len(challenges) < MaxChallenges
    /\ challenges' = Append(challenges, c)
    /\ issued' = issued \cup {c}
    /\ dialog' = FALSE
    /\ UNCHANGED <<stored, memory, sessions, up, tried>>

(* The operator declines, the dialog raises, or there are enough           *)
(* challenges.                                                             *)
NotConfirmed ==
    /\ dialog' = FALSE
    /\ UNCHANGED <<stored, memory, sessions, challenges, up, issued, tried>>

-----------------------------------------------------------------------------
(* complete: the challenge is consumed before the password is hashed and   *)
(* stored, so that a failure cannot be tried again.                        *)

Replaced(c, password) == [password |-> password, by |-> c]

Without(c) == RemoveAt(challenges, CHOOSE n \in DOMAIN challenges : challenges[n] = c)

(* Mutant: the challenge is consumed once the password is stored.          *)
MutConsumed(c, done) == IF done THEN Without(c) ELSE challenges

Consumed(c, done) == Without(c)

Complete(c, password) ==
    /\ c \in Members(challenges)
    /\ stored' = Replaced(c, password)
    /\ memory' = stored'
    /\ sessions' = <<>>
    /\ challenges' = Consumed(c, TRUE)
    /\ tried' = tried \cup {c}
    /\ UNCHANGED <<dialog, up, issued>>

CompleteRaises(c) ==
    /\ c \in Members(challenges)
    /\ challenges' = Consumed(c, FALSE)
    /\ tried' = tried \cup {c}
    /\ UNCHANGED <<stored, memory, sessions, dialog, up, issued>>

(* The process dies between the commit and the verifier in memory.         *)
CompleteDies(c, password) ==
    /\ c \in Members(challenges)
    /\ stored' = Replaced(c, password)
    /\ up' = FALSE
    /\ tried' = tried \cup {c}
    /\ UNCHANGED <<memory, sessions, challenges, dialog, issued>>

(* A password that is too short is refused before the challenge is looked  *)
(* up, which stays.                                                        *)
CompleteRefused(c, short) ==
    /\ short \/ c \notin Members(challenges)
    /\ UNCHANGED adminVars

-----------------------------------------------------------------------------
Die ==
    /\ up
    /\ up' = FALSE
    /\ UNCHANGED <<stored, memory, sessions, challenges, dialog, issued, tried>>

(* Mutant: the stored verifier is not read again.                          *)
MutRestart ==
    /\ ~up
    /\ up' = TRUE
    /\ sessions' = <<>> /\ challenges' = <<>> /\ dialog' = FALSE
    /\ UNCHANGED <<stored, memory, issued, tried>>

(* create_runtime_app: the stored verifier comes first; sessions and       *)
(* challenges were in memory only.                                         *)
Restart ==
    /\ ~up
    /\ up' = TRUE
    /\ memory' = stored
    /\ sessions' = <<>> /\ challenges' = <<>> /\ dialog' = FALSE
    /\ UNCHANGED <<stored, issued, tried>>

-----------------------------------------------------------------------------
AdminTypeOK ==
    /\ stored \in Verifier /\ memory \in Verifier
    /\ sessions \in Seq([token : Session, by : Verifier]) /\ Len(sessions) <= MaxSessions
    /\ challenges \in Seq(Challenge) /\ Len(challenges) <= MaxChallenges
    /\ dialog \in BOOLEAN /\ up \in BOOLEAN
    /\ tried \subseteq issued /\ issued \subseteq Challenge

(* "password replacement cannot leave a session authenticated with a stale *)
(* verifier": whatever restarts and recoveries came before, the password   *)
(* asked for is the stored one and every session was opened with it.       *)
SessionsKnowThePassword ==
    up => /\ memory = stored
          /\ \A s \in Members(sessions) : s.by = stored

(* The password changes only through a challenge that was confirmed on the *)
(* desktop, has not expired and was never tried before, not even in vain   *)
(* (PasswordRecoveryManager.complete).                                     *)
OneTryPerConfirmation ==
    [][stored' # stored =>
          stored'.by \in Members(challenges) /\ stored'.by \notin tried]_adminVars

(* What the Supervisor's state stands for while it runs; nothing else of   *)
(* it than the stored verifier outlives it.                                *)
Open == IF up THEN Members(sessions) ELSE {}
Stage(c) ==
    IF c \notin issued THEN "unissued"
    ELSE IF up /\ c \in Members(challenges) \ tried THEN "waiting" ELSE "spent"

Recovery == INSTANCE PasswordRecovery WITH
    verifier <- stored,
    open <- Open,
    ticket <- [c \in Challenge |-> Stage(c)],
    Ticket <- Challenge

(* A password changes at the cost of one confirmation, each good for one   *)
(* attempt, and in the same step as every session is closed; a session is  *)
(* only opened with the password of that moment, whatever dies or is tried *)
(* in between (PasswordRecoveryManager, AdminSessionManager).              *)
RefinesPasswordRecovery == Recovery!Spec
=============================================================================
