---------------------------- MODULE DashboardPage ----------------------------
(***************************************************************************)
(* The dashboard's page (control/dashboard.py) over the administrator's    *)
(* routes (control/app.py) and AdminAccess: signing in, recovering the     *)
(* password, creating and deleting Gateway keys, generating client         *)
(* configurations, leaving.  A handler of the page runs to its await, the  *)
(* Supervisor answers some time later, and the handler goes on whenever    *)
(* the answer arrives, whatever the page has done meanwhile.               *)
(*                                                                         *)
(* A handler under way is a slot.  The pages are tabs of one browser, with *)
(* one cookie.  A key is named by its id, its secret and its prefix.       *)
(***************************************************************************)
EXTENDS AdminAccess

CONSTANTS
    Page,
    Key,        \* bound: Gateway keys that can be created
    Slot,       \* bound: handlers under way at once
    MaxDirect   \* bound: of these, in use at once without a password

ASSUME SlotAssumption == MaxDirect \in Nat

VARIABLES
    direct,     \* the dashboard runs without a password
    page,
    cookie,
    active,     \* Gateway keys that are created and not revoked
    created,
    slot,
    late        \* history: pages that left while a key was on its way to them

vars == <<adminVars, direct, page, cookie, active, created, slot, late>>
pageVars == <<direct, page, cookie, active, created, late>>

Blank ==
    [signedIn |-> FALSE, enabled |-> FALSE, shown |-> {"login"}, token |-> None,
     key |-> None, keyId |-> None, typed |-> None, result |-> {},
     config |-> None, configKey |-> None, marked |-> FALSE, prefix |-> None]

Opened ==
    IF direct THEN [Blank EXCEPT !.signedIn = TRUE, !.enabled = TRUE, !.shown = {}]
              ELSE Blank

Free ==
    [kind |-> "none", page |-> None, cookie |-> None, password |-> None,
     arg |-> None, at |-> "none", ok |-> "none", answer |-> None]

Init ==
    /\ AdminInit
    /\ direct \in BOOLEAN
    /\ page = [p \in Page |-> Opened]
    /\ cookie = None
    /\ active = {} /\ created = {}
    /\ slot = [i \in Slot |-> Free]
    /\ late = {}

ClearGatewayKey(r) ==
    [r EXCEPT !.key = None, !.keyId = None, !.typed = None, !.result = {}]
ClearConfig(r) ==
    [r EXCEPT !.config = None, !.configKey = None, !.marked = FALSE, !.prefix = None]

(* Mutant: the configuration stays.                                        *)
MutLeaveSignedIn(r) ==
    [ClearGatewayKey(r) EXCEPT !.token = None, !.enabled = FALSE]

LeaveSignedIn(r) ==
    [ClearConfig(ClearGatewayKey(r)) EXCEPT !.token = None, !.enabled = FALSE]

ShowLogin(r) ==
    [r EXCEPT !.signedIn = FALSE, !.shown = @ \cup {"login"}]

OnItsWay(p) ==
    \E i \in Slot : slot[i].page = p /\ slot[i].kind \in {"create", "opencode"}
Leaving(p) == late' = IF OnItsWay(p) THEN late \cup {p} ELSE late

-----------------------------------------------------------------------------
(* The handlers, up to their await.                                        *)

(* Routes behind require_control_access; only they look at the cookie.     *)
Controlled == {"load", "create", "delete", "opencode", "cline", "logout", "shutdown"}

Send(i, p, kind, password, arg, now) ==
    /\ slot[i].kind = "none"
    /\ direct => Cardinality({j \in Slot : slot[j].kind # "none"}) < MaxDirect
    /\ slot' = [slot EXCEPT ![i] =
         [Free EXCEPT !.kind = kind, !.page = p, !.at = "sent",
                      !.cookie = IF kind \in Controlled THEN cookie ELSE None,
                      !.password = password, !.arg = arg]]
    /\ page' = [page EXCEPT ![p] = now]
    /\ UNCHANGED <<adminVars, direct, cookie, active, created>>

Usable(p) == page[p].signedIn /\ page[p].enabled
Form(p, form) == ~page[p].signedIn /\ form \in page[p].shown

SubmitLogin(i, p) ==
    /\ Form(p, "login")
    /\ \E password \in Password : Send(i, p, "login", password, None, page[p])
    /\ UNCHANGED late

StartRecovery(i, p) ==
    /\ Form(p, "login")
    /\ Send(i, p, "challenge", None, None, page[p])
    /\ UNCHANGED late

SubmitRecovery(i, p) ==
    /\ Form(p, "recovery") /\ page[p].token # None
    /\ \E password \in Password \cup {"short"} :
          Send(i, p, "complete", password, page[p].token, page[p])
    /\ UNCHANGED late

CancelRecovery(p) ==
    /\ Form(p, "recovery")
    /\ page' = [page EXCEPT ![p].token = None, ![p].shown = {"login"}]
    /\ UNCHANGED <<adminVars, direct, cookie, active, created, slot, late>>

LoadDashboard(i, p) ==
    /\ Usable(p)
    /\ Send(i, p, "load", None, None, page[p])
    /\ UNCHANGED late

SubmitKey(i, p) ==
    /\ Usable(p)
    /\ Send(i, p, "create", None, None, ClearGatewayKey(page[p]))
    /\ UNCHANGED late

(* The list the key is deleted from may be an old one.                     *)
DeleteKey(i, p, k) ==
    /\ Usable(p) /\ k \in created
    /\ Send(i, p, "delete", None, k, page[p])
    /\ UNCHANGED late

TypeKey(p, k) ==
    /\ Usable(p) /\ k \in active
    /\ page' = [page EXCEPT ![p].typed = k]
    /\ UNCHANGED <<adminVars, direct, cookie, active, created, slot, late>>

ShowOpenCode(i, p) ==
    /\ Usable(p)
    /\ LET secret == IF page[p].typed # None THEN page[p].typed ELSE page[p].key IN
       /\ secret # None
       /\ Send(i, p, "opencode", None, secret, ClearConfig(ClearGatewayKey(page[p])))
    /\ UNCHANGED late

ShowCline(i, p) ==
    /\ Usable(p)
    /\ Send(i, p, "cline", None, None, ClearConfig([page[p] EXCEPT !.typed = None]))
    /\ UNCHANGED late

(* The logout button is hidden in direct mode.                             *)
Leave(i, p, kind) ==
    /\ Usable(p) /\ kind = "logout" => ~direct
    /\ Send(i, p, kind, None, None, LeaveSignedIn(page[p]))
    /\ Leaving(p)

(* The tab is closed and the page opened again.  A dialog stays open, and  *)
(* nobody waits for its answer.                                            *)
Reload(p) ==
    /\ page' = [page EXCEPT ![p] = Opened]
    /\ slot' = [i \in Slot |->
          IF slot[i].page # p THEN slot[i]
          ELSE IF slot[i].at = "asking" THEN [slot[i] EXCEPT !.page = None]
          ELSE Free]
    /\ late' = late \ {p}
    /\ UNCHANGED <<adminVars, direct, cookie, active, created>>

-----------------------------------------------------------------------------
(* The Supervisor's routes.                                                *)

Answer(i, ok, answer) ==
    slot' = [slot EXCEPT ![i].at = "answered", ![i].ok = ok, ![i].answer = answer,
                         ![i].password = None, ![i].cookie = None,
                         ![i].arg = IF ok = "yes" THEN @ ELSE None]

Received(i, kind) == up /\ slot[i].kind = kind /\ slot[i].at = "sent"

(* A session token that neither the browser nor a request knows.           *)
NewToken ==
    Session \ ({cookie} \cup {slot[i].cookie : i \in Slot} \cup {slot[i].answer : i \in Slot})

ServeLogin(i) ==
    /\ Received(i, "login")
    /\ \/ \E s \in NewToken : Login(slot[i].password, s) /\ Answer(i, "yes", s)
       \/ LoginFails(slot[i].password) /\ Answer(i, "no", None)
    /\ UNCHANGED pageVars

ServeChallenge(i) ==
    /\ Received(i, "challenge")
    /\ \/ OpenDialog /\ slot' = [slot EXCEPT ![i].at = "asking"]
       \/ dialog /\ Answer(i, "no", None) /\ UNCHANGED adminVars
    /\ UNCHANGED pageVars

DialogCloses(i) ==
    /\ up /\ slot[i].at = "asking"
    /\ \/ \E c \in Challenge : Confirm(c) /\ Answer(i, "yes", c)
       \/ NotConfirmed /\ Answer(i, "no", None)
    /\ UNCHANGED pageVars

ServeComplete(i) ==
    /\ Received(i, "complete")
    /\ LET c == slot[i].arg
           short == slot[i].password = "short" IN
       \/ ~short /\ Complete(c, slot[i].password) /\ Answer(i, "yes", None)
       \/ ~short /\ CompleteRaises(c) /\ Answer(i, "no", None)
       \/ ~short /\ CompleteDies(c, slot[i].password)
                  /\ slot' = [slot EXCEPT ![i] = Free]
       \/ CompleteRefused(c, short) /\ Answer(i, "no", None)
    /\ UNCHANGED pageVars

Allowed(i) == direct \/ Authorized(slot[i].cookie)

(* require_control_access; without a password the boundary alone decides.  *)
Forbid(i) ==
    /\ \E kind \in Controlled : Received(i, kind)
    /\ ~Allowed(i)
    /\ Answer(i, IF slot[i].kind = "load" THEN "forbidden" ELSE "no", None)
    /\ UNCHANGED <<adminVars, pageVars>>

Effect(i) ==
    \/ /\ slot[i].kind = "create"
       /\ \E k \in Key \ created :
             /\ active' = active \cup {k} /\ created' = created \cup {k}
             /\ Answer(i, "yes", k)
    \/ /\ slot[i].kind = "delete" /\ slot[i].arg \in active
       /\ active' = active \ {slot[i].arg}
       /\ Answer(i, "yes", None)
       /\ UNCHANGED created
    \/ /\ slot[i].kind = "delete" /\ slot[i].arg \notin active
       /\ Answer(i, "no", None)
       /\ UNCHANGED <<active, created>>
    \/ /\ slot[i].kind \in {"create", "opencode", "cline"}
       /\ Answer(i, "no", None)
       /\ UNCHANGED <<active, created>>
    \/ /\ slot[i].kind \in {"load", "opencode", "cline", "logout", "shutdown"}
       /\ Answer(i, "yes", None)
       /\ UNCHANGED <<active, created>>

ServeControlled(i) ==
    /\ \E kind \in Controlled : Received(i, kind)
    /\ Allowed(i)
    /\ IF slot[i].kind = "logout" THEN Logout(slot[i].cookie) ELSE UNCHANGED adminVars
    /\ Effect(i)
    /\ UNCHANGED <<direct, page, cookie, late>>

-----------------------------------------------------------------------------
(* The handlers, from their await on.                                      *)

Continue(i, kind, now) ==
    /\ slot[i].kind = kind /\ slot[i].at = "answered" /\ slot[i].page # None
    /\ slot' = [slot EXCEPT ![i] = Free]
    /\ page' = [page EXCEPT ![slot[i].page] = now]
    /\ UNCHANGED <<adminVars, direct, active, created>>

(* A successful login goes on to load the dashboard with the new cookie.   *)
LoginAnswered(i) ==
    /\ slot[i].kind = "login" /\ slot[i].at = "answered"
    /\ IF slot[i].ok = "yes"
       THEN /\ cookie' = slot[i].answer
            /\ page' = [page EXCEPT ![slot[i].page] =
                          [@ EXCEPT !.signedIn = TRUE, !.enabled = TRUE, !.shown = {}]]
            /\ slot' = [slot EXCEPT ![i] =
                 [Free EXCEPT !.kind = "load", !.page = slot[i].page,
                              !.cookie = cookie', !.at = "sent"]]
       ELSE slot' = [slot EXCEPT ![i] = Free] /\ UNCHANGED <<page, cookie>>
    /\ UNCHANGED <<adminVars, direct, active, created, late>>

ChallengeAnswered(i) ==
    /\ LET r == page[slot[i].page] IN
       Continue(i, "challenge",
          IF slot[i].ok # "yes" THEN r
          ELSE [r EXCEPT !.token = slot[i].answer,
                         !.shown = (@ \ {"login"}) \cup {"recovery"}])
    /\ UNCHANGED <<cookie, late>>

CompleteAnswered(i) ==
    /\ LET r == page[slot[i].page] IN
       Continue(i, "complete",
          [r EXCEPT !.token = None, !.shown = (@ \ {"recovery"}) \cup {"login"}])
    /\ cookie' = IF slot[i].ok = "yes" THEN None ELSE cookie
    /\ UNCHANGED late

(* A 403 of any of the dashboard's requests ends the signed-in view.       *)
LoadAnswered(i) ==
    /\ LET p == slot[i].page
           left == slot[i].ok = "forbidden" /\ ~direct IN
       /\ Continue(i, "load", IF left THEN ShowLogin(LeaveSignedIn(page[p])) ELSE page[p])
       /\ IF left THEN Leaving(p) ELSE UNCHANGED late
    /\ UNCHANGED cookie

CreateAnswered(i) ==
    /\ LET r == page[slot[i].page] IN
       Continue(i, "create",
          IF slot[i].ok # "yes" THEN r
          ELSE [r EXCEPT !.key = slot[i].answer, !.keyId = slot[i].answer,
                         !.result = @ \cup {slot[i].answer}])
    /\ UNCHANGED <<cookie, late>>

DeleteAnswered(i) ==
    /\ LET r == page[slot[i].page]
           k == slot[i].arg
           cleared == IF r.keyId = k THEN ClearGatewayKey(r) ELSE r IN
       Continue(i, "delete",
          IF slot[i].ok # "yes" THEN r
          ELSE IF cleared.prefix = k THEN ClearConfig(cleared) ELSE cleared)
    /\ UNCHANGED <<cookie, late>>

(* Mutant: what is said of the configuration is set before the request.    *)
MutGenerated(r, kind, secret) ==
    IF kind = "opencode" THEN [r EXCEPT !.config = kind, !.configKey = secret]
    ELSE [r EXCEPT !.config = kind, !.configKey = None, !.marked = FALSE]

(* A configuration without a key does not take the mark off.               *)
Generated(r, kind, secret) ==
    IF kind = "opencode"
    THEN [r EXCEPT !.config = kind, !.configKey = secret, !.marked = TRUE, !.prefix = secret]
    ELSE [r EXCEPT !.config = kind, !.configKey = None]

ConfigAnswered(i) ==
    /\ LET r == page[slot[i].page] IN
       \E kind \in {"opencode", "cline"} :
          Continue(i, kind,
             IF slot[i].ok = "yes" THEN Generated(r, kind, slot[i].arg) ELSE r)
    /\ UNCHANGED <<cookie, late>>

LogoutAnswered(i) ==
    /\ LET r == page[slot[i].page] IN
       Continue(i, "logout", IF slot[i].ok = "yes" THEN ShowLogin(r) ELSE r)
    /\ cookie' = IF slot[i].ok = "yes" THEN None ELSE cookie
    /\ UNCHANGED late

ShutdownAnswered(i) ==
    /\ Continue(i, "shutdown", page[slot[i].page])
    /\ UNCHANGED <<cookie, late>>

Abandoned(i) ==
    /\ slot[i].at = "answered" /\ slot[i].page = None
    /\ slot' = [slot EXCEPT ![i] = Free]
    /\ UNCHANGED <<adminVars, pageVars>>

(* fetch rejects: no handler then touches the state that is modelled here. *)
Rejected(i) ==
    /\ ~up /\ slot[i].kind # "none"
    /\ slot' = [slot EXCEPT ![i] = Free]
    /\ UNCHANGED <<adminVars, pageVars>>

-----------------------------------------------------------------------------
Handle(i, p) ==
    \/ SubmitLogin(i, p) \/ StartRecovery(i, p) \/ SubmitRecovery(i, p)
    \/ LoadDashboard(i, p) \/ SubmitKey(i, p)
    \/ ShowOpenCode(i, p) \/ ShowCline(i, p)
    \/ \E k \in Key : DeleteKey(i, p, k)
    \/ \E kind \in {"logout", "shutdown"} : Leave(i, p, kind)

Serve(i) ==
    \/ ServeLogin(i) \/ ServeChallenge(i) \/ DialogCloses(i) \/ ServeComplete(i)
    \/ Forbid(i) \/ ServeControlled(i)

GoOn(i) ==
    \/ LoginAnswered(i) \/ ChallengeAnswered(i) \/ CompleteAnswered(i)
    \/ LoadAnswered(i) \/ CreateAnswered(i) \/ DeleteAnswered(i)
    \/ ConfigAnswered(i) \/ LogoutAnswered(i) \/ ShutdownAnswered(i)
    \/ Abandoned(i) \/ Rejected(i)

Next ==
    \/ \E p \in Page :
          \/ CancelRecovery(p) \/ Reload(p)
          \/ \E k \in Key : TypeKey(p, k)
          \/ \E i \in Slot : Handle(i, p)
    \/ \E i \in Slot : Serve(i) \/ GoOn(i)
    \/ (ExpireSession \/ ExpireChallenge \/ Die) /\ UNCHANGED <<pageVars, slot>>
    \/ /\ Restart
       /\ slot' = [i \in Slot |-> IF slot[i].at = "asking" THEN Free ELSE slot[i]]
       /\ UNCHANGED pageVars

Spec == Init /\ [][Next]_vars

-----------------------------------------------------------------------------
TypeOK ==
    /\ AdminTypeOK
    /\ direct \in BOOLEAN
    /\ \A p \in Page :
          /\ page[p].signedIn \in BOOLEAN /\ page[p].enabled \in BOOLEAN
          /\ page[p].shown \subseteq {"login", "recovery"}
          /\ page[p].token \in Challenge \cup {None}
          /\ {page[p].key, page[p].keyId, page[p].typed, page[p].configKey,
              page[p].prefix} \subseteq Key \cup {None}
          /\ page[p].result \subseteq Key
    /\ cookie \in Session \cup {None}
    /\ active \subseteq created /\ created \subseteq Key
    /\ late \subseteq Page

(* The page knows every key it holds: the one on display can be found by   *)
(* its id and the one in a configuration by its prefix when it is deleted, *)
(* and a configuration with a key is announced as one, however the         *)
(* handlers overlap (currentConfigContainsKey, currentConfigKeyPrefix).    *)
KeysAreTracked ==
    \A p \in Page :
       /\ page[p].keyId = page[p].key
       /\ page[p].configKey # None =>
             page[p].marked /\ page[p].prefix = page[p].configKey

(* A page that has been left holds no Gateway key, unless one was on its   *)
(* way to it just then (leaveSignedIn, and the message that the complete   *)
(* key has been cleared from the page).                                    *)
LeavingForgets ==
    \A p \in Page \ late : ~page[p].enabled =>
       /\ page[p].key = None /\ page[p].typed = None /\ page[p].configKey = None
       /\ page[p].result = {}
=============================================================================
