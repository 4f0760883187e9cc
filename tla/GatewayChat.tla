----------------------------- MODULE GatewayChat -----------------------------
(***************************************************************************)
(* POST /v1/chat/completions in the Gateway process (gateway/app.py with   *)
(* gateway/authentication.py): authenticating the caller, resolving the    *)
(* model, opening the Sidecar or a custom provider, relaying its answer    *)
(* and accounting for it once.                                             *)
(*                                                                         *)
(* A step runs to the handler's next await.  authenticate is the exception *)
(* that blocks the event loop between two database statements: no request  *)
(* moves meanwhile, but the Supervisor, another process on the same        *)
(* database, may revoke the key.                                           *)
(*                                                                         *)
(* An answer is its events: data, data that reports the tokens used, or    *)
(* the line that says [DONE].                                              *)
(***************************************************************************)
EXTENDS Naturals, Sequences

CONSTANTS
    Request,     \* requests of clients that hold the same key
    MaxLines,    \* bound: events an upstream sends in one answer
    MaxChanges   \* bound: changes of catalogue and provider by the Supervisor

ASSUME BoundAssumption == MaxLines \in Nat /\ MaxChanges \in Nat

VARIABLES
    req,         \* the handler's locals and its response, by request
    active,      \* gateway_api_keys.active of the key
    available,   \* whether the registry resolves the model as available
    configured,  \* whether the custom provider is stored
    changes

vars == <<req, active, available, configured, changes>>

Location ==
    {"new", "verify", "body", "resolve", "refresh", "load", "post",
     "post_close", "open", "open_close", "miss", "head", "pull", "push",
     "close", "close_plane", "done"}
Event == {"data", "usage", "done"}
Whole == {"data", "usage"}

(* How each data plane fails: with the HTTP status of an error response, 0 *)
(* if there is none, and the code it names.  A Sidecar that rejects its    *)
(* credential or cannot be understood fails as one that is unavailable     *)
(* does, under a code of its own; a custom provider's code is the category *)
(* its adapter chose.                                                      *)
NoError == [status |-> 0, code |-> "none"]
SidecarFailure ==
    [status : {0}, code : {"sidecar_unavailable"}] \cup
    [status : {404, 429, 500}, code : {"none", "quota_exhausted"}]
ProviderFailure ==
    [status : {0}, code : {"provider_unavailable"}] \cup
    [status : {429}, code : {"provider_rate_limited"}]
UpstreamError == {NoError} \cup SidecarFailure \cup ProviderFailure

(* What a caller may be told (a malformed request is told by its type, an  *)
(* error of any other kind by its code), and what may be recorded.         *)
ErrorCode ==
    {"invalid_request", "model_not_found", "provider_unavailable", "provider_error",
     "sidecar_unavailable", "quota_exhausted", "provider_rate_limited"}
Category ==
    {"none", "stream_incomplete", "client_disconnected", "rate_limit_exceeded"} \cup ErrorCode

Answer == {"none", "ok", "unauthorized", "exception", "sse"} \cup ErrorCode
Usage ==
    [status : {"succeeded", "failed", "aborted"}, tokens : BOOLEAN, category : Category]

Locals ==
    [pc : Location, granted : BOOLEAN, stream : BOOLEAN, custom : BOOLEAN,
     gone : BOOLEAN, upstream : {"none", "open", "closed"},
     plane : {"none", "open", "closed"}, lines : 0..MaxLines,
     sent : SUBSET Event, tokens : BOOLEAN, started : BOOLEAN, pulling : BOOLEAN,
     sawDone : BOOLEAN, ended : BOOLEAN, failed : BOOLEAN, error : UpstreamError,
     answer : Answer, usage : Seq(Usage)]

Fresh ==
    [pc |-> "new", granted |-> FALSE, stream |-> FALSE, custom |-> FALSE,
     gone |-> FALSE, upstream |-> "none", plane |-> "none", lines |-> 0,
     sent |-> {}, tokens |-> FALSE, started |-> FALSE, pulling |-> FALSE,
     sawDone |-> FALSE, ended |-> FALSE, failed |-> FALSE, error |-> NoError,
     answer |-> "none", usage |-> <<>>]

Init ==
    /\ req = [r \in Request |-> Fresh]
    /\ active = TRUE
    /\ available \in BOOLEAN
    /\ configured \in BOOLEAN
    /\ changes = 0

supervisor == <<active, available, configured, changes>>

(* The event loop is free and r stands at pc.                              *)
At(r, pc) ==
    /\ req[r].pc = pc
    /\ \A q \in Request \ {r} : req[q].pc # "verify"

(* Mutant: status and error category change places.                        *)
MutRecorded(r, status, category, tokens) ==
    Append(req[r].usage, [status |-> category, category |-> status, tokens |-> tokens])

(* finish_usage: what is handed to the recorder.                           *)
Recorded(r, status, category, tokens) ==
    Append(req[r].usage, [status |-> status, category |-> category, tokens |-> tokens])

(* The handler answers without relaying, or with an error it accounts for. *)
Reply(r, answer, usage) ==
    req' = [req EXCEPT ![r].pc = "done", ![r].answer = answer, ![r].usage = usage]
Failures(r) == IF req[r].custom THEN ProviderFailure ELSE SidecarFailure

(* _usage_error_category and _sidecar_error: what is recorded of a Sidecar *)
(* failure, and what the caller is told of it.                             *)
UsageErrorCategory(error) ==
    IF error.code # "none" THEN error.code
    ELSE IF error.status = 429 THEN "rate_limit_exceeded" ELSE "provider_error"
SidecarErrorCode(error) == IF error.code # "none" THEN error.code ELSE "provider_error"

(* The handler fails on error: it records and then tells.                  *)
FailOn(r, error, category, code) ==
    req' = [req EXCEPT ![r].pc = "done", ![r].error = error, ![r].answer = code,
                       ![r].usage = Recorded(r, "failed", category, FALSE)]

(* A failure that the handler itself names.                                *)
Fail(r, code) == FailOn(r, NoError, code, code)

SidecarFail(r, error) ==
    FailOn(r, error, UsageErrorCategory(error), SidecarErrorCode(error))

(* A custom provider's failure is recorded and told under its category,    *)
(* once the provider's client is closed.                                   *)
ProviderFail(r, error) ==
    req' = [req EXCEPT ![r].pc = "done", ![r].plane = "closed", ![r].answer = error.code,
                       ![r].usage = Recorded(r, "failed", error.code, FALSE)]

Goto(r, pc) == req' = [req EXCEPT ![r].pc = pc]

-----------------------------------------------------------------------------
(* authenticate: select the active row, verify, mark it used if it is      *)
(* still active.                                                           *)

AuthRead(r) ==
    /\ At(r, "new")
    /\ IF active THEN Goto(r, "verify")
                 ELSE Reply(r, "unauthorized", <<>>)
    /\ UNCHANGED supervisor

(* Mutant: the row read before the verification is trusted.                *)
MutAuthUpdate(r) ==
    /\ At(r, "verify")
    /\ \/ req' = [req EXCEPT ![r].pc = "body", ![r].granted = TRUE]
       \/ Reply(r, "unauthorized", <<>>)
    /\ UNCHANGED supervisor

AuthUpdate(r) ==
    /\ At(r, "verify")
    /\ \/ active /\ req' = [req EXCEPT ![r].pc = "body", ![r].granted = TRUE]
       \/ Reply(r, "unauthorized", <<>>)
    /\ UNCHANGED supervisor

-----------------------------------------------------------------------------
(* The request body, the model and the provider.                           *)

Body(r) ==
    /\ At(r, "body")
    /\ \/ \E stream, custom \in BOOLEAN :
            req' = [req EXCEPT ![r].pc = "resolve", ![r].stream = stream,
                               ![r].custom = custom]
       \/ Fail(r, "invalid_request")
    /\ UNCHANGED supervisor

(* A client that leaves while its body is read ends the handler with       *)
(* Starlette's ClientDisconnect, which it does not catch.                  *)
BodyLost(r) ==
    /\ At(r, "body")
    /\ req[r].gone
    /\ Reply(r, "exception", <<>>)
    /\ UNCHANGED supervisor

Resolved(r) ==
    IF req[r].custom THEN "load" ELSE IF req[r].stream THEN "open" ELSE "post"

Resolve(r) ==
    /\ At(r, "resolve")
    /\ Goto(r, IF available THEN Resolved(r) ELSE "refresh")
    /\ UNCHANGED supervisor

(* One refresh, whose failure is ignored, and a second look.               *)
Refresh(r) ==
    /\ At(r, "refresh")
    /\ available' \in BOOLEAN
    /\ \/ available' /\ Goto(r, Resolved(r))
       \/ ~available' /\ Fail(r, "model_not_found")
    /\ UNCHANGED <<active, configured, changes>>

Load(r) ==
    /\ At(r, "load")
    /\ IF configured
         THEN req' = [req EXCEPT ![r].plane = "open",
                                 ![r].pc = IF req[r].stream THEN "open" ELSE "post"]
         ELSE Fail(r, "provider_unavailable")
    /\ UNCHANGED supervisor

-----------------------------------------------------------------------------
(* An answer in one piece.                                                 *)

(* The answer may report the tokens used.                                  *)
PostOk(r) ==
    /\ At(r, "post")
    /\ \E event \in Whole :
         req' = [req EXCEPT
                   ![r].answer = "ok", ![r].sent = {event}, ![r].tokens = event = "usage",
                   ![r].pc = IF req[r].custom THEN "post_close" ELSE "done",
                   ![r].usage = IF req[r].custom THEN @
                                ELSE Recorded(r, "succeeded", "none", event = "usage")]
    /\ UNCHANGED supervisor

(* The data plane raises: only the Sidecar's 404 is taken to mean that the *)
(* model is missing, and first refreshes the catalogue.                    *)
Raised(r, closing) ==
    \E error \in Failures(r) :
       \/ /\ req[r].custom
          /\ req' = [req EXCEPT ![r].pc = closing, ![r].error = error]
       \/ ~req[r].custom /\ error.status = 404 /\ Goto(r, "miss")
       \/ ~req[r].custom /\ error.status # 404 /\ SidecarFail(r, error)

PostError(r) ==
    /\ At(r, "post")
    /\ Raised(r, "post_close")
    /\ UNCHANGED supervisor

(* A custom provider's client is closed before the usage is recorded.      *)
PostClose(r) ==
    /\ At(r, "post_close")
    /\ \/ /\ req[r].answer = "ok"
          /\ req' = [req EXCEPT ![r].pc = "done", ![r].plane = "closed",
                                ![r].usage = Recorded(r, "succeeded", "none", req[r].tokens)]
       \/ req[r].answer # "ok" /\ ProviderFail(r, req[r].error)
    /\ UNCHANGED supervisor

Miss(r) ==
    /\ At(r, "miss")
    /\ available' \in BOOLEAN
    /\ Fail(r, "model_not_found")
    /\ UNCHANGED <<active, configured, changes>>

-----------------------------------------------------------------------------
(* An answer in events: opening it.                                        *)

Open(r) ==
    /\ At(r, "open")
    /\ req' = [req EXCEPT ![r].pc = "head", ![r].upstream = "open",
                          ![r].answer = "sse"]
    /\ UNCHANGED supervisor

OpenError(r) ==
    /\ At(r, "open")
    /\ Raised(r, "open_close")
    /\ UNCHANGED supervisor

(* An error response whose body breaks while it is read: the response is   *)
(* closed, and httpx's own error, which the handler does not catch, leaves *)
(* the usage unrecorded and a custom provider's client open.               *)
OpenBreaks(r) ==
    /\ At(r, "open")
    /\ req' = [req EXCEPT ![r].pc = "done", ![r].upstream = "closed",
                          ![r].answer = "exception"]
    /\ UNCHANGED supervisor

(* Mutant: a stream that could not be opened leaves its client open.       *)
MutOpenClose(r) ==
    /\ At(r, "open_close")
    /\ FailOn(r, req[r].error, req[r].error.code, req[r].error.code)
    /\ UNCHANGED supervisor

OpenClose(r) ==
    /\ At(r, "open_close")
    /\ ProviderFail(r, req[r].error)
    /\ UNCHANGED supervisor

-----------------------------------------------------------------------------
(* Relaying: the response sends its head, then pulls an event and pushes   *)
(* it, in turn.  A client that leaves cancels the response where it waits. *)

SendHead(r) ==
    /\ At(r, "head")
    /\ Goto(r, "pull")
    /\ UNCHANGED supervisor

(* What __anext__ notes of an event.                                       *)
PullLine(r) ==
    /\ At(r, "pull")
    /\ req[r].lines < MaxLines
    /\ \E event \in Event :
         req' = [req EXCEPT ![r].pc = "push", ![r].started = TRUE, ![r].lines = @ + 1,
                            ![r].sent = @ \cup {event},
                            ![r].tokens = @ \/ event = "usage",
                            ![r].sawDone = @ \/ event = "done"]
    /\ UNCHANGED supervisor

Push(r) ==
    /\ At(r, "push")
    /\ Goto(r, "pull")
    /\ UNCHANGED supervisor

(* Mutant: an upstream that breaks is not closed.                          *)
MutPullEnd(r) ==
    /\ At(r, "pull")
    /\ \E broken \in BOOLEAN :
         req' = [req EXCEPT ![r].pc = IF broken THEN "done" ELSE "close",
                            ![r].started = TRUE, ![r].pulling = TRUE,
                            ![r].ended = ~broken, ![r].failed = broken]
    /\ UNCHANGED supervisor

(* The upstream ends or breaks: __anext__ itself closes the stream.        *)
PullEnd(r) ==
    /\ At(r, "pull")
    /\ \E broken \in BOOLEAN :
         req' = [req EXCEPT ![r].pc = "close", ![r].started = TRUE,
                            ![r].pulling = TRUE,
                            ![r].ended = ~broken, ![r].failed = broken]
    /\ UNCHANGED supervisor

(* The client left: an awaited pull is cancelled inside __anext__; else    *)
(* the response closes its body iterator, which for a custom provider is   *)
(* a generator that may not have run yet.                                  *)
Cancelled(r) ==
    /\ req[r].gone
    /\ \/ /\ At(r, "pull")
          /\ req' = [req EXCEPT ![r].pc = "close", ![r].started = TRUE,
                                ![r].pulling = TRUE]
       \/ /\ At(r, "head") \/ At(r, "push")
          /\ Goto(r, IF req[r].custom /\ ~req[r].started THEN "done" ELSE "close")
    /\ UNCHANGED supervisor

(* Mutant: how the stream ended is asked before whether it was complete.   *)
MutFinished(r) ==
    IF req[r].failed \/ req[r].ended
      THEN Recorded(r, "failed", "stream_incomplete", req[r].tokens)
    ELSE IF req[r].sawDone THEN Recorded(r, "succeeded", "none", req[r].tokens)
    ELSE Recorded(r, "aborted", "client_disconnected", req[r].tokens)

(* _finish_once.                                                           *)
Finished(r) ==
    IF req[r].sawDone THEN Recorded(r, "succeeded", "none", req[r].tokens)
    ELSE IF req[r].failed \/ req[r].ended
      THEN Recorded(r, "failed", "stream_incomplete", req[r].tokens)
    ELSE Recorded(r, "aborted", "client_disconnected", req[r].tokens)

(* Mutant: without _closed, a stream that closed itself is closed again.   *)
MutCloseStream(r) ==
    /\ At(r, "close")
    /\ req' = [req EXCEPT
                 ![r].upstream = "closed", ![r].pulling = FALSE,
                 ![r].usage = Finished(r),
                 ![r].pc = IF req[r].pulling THEN "close"
                           ELSE IF req[r].custom THEN "close_plane" ELSE "done"]
    /\ UNCHANGED supervisor

(* _ClosingSSEStream.aclose, and the generator's finally clause around it: *)
(* closing the upstream may raise, and then, unless the iteration was      *)
(* already failing, the provider's client is not closed.                   *)
CloseStream(r) ==
    /\ At(r, "close")
    /\ \E raises \in BOOLEAN :
         req' = [req EXCEPT
                   ![r].upstream = "closed",
                   ![r].usage = Finished(r),
                   ![r].pc = IF req[r].custom /\ (req[r].pulling \/ ~raises)
                             THEN "close_plane" ELSE "done"]
    /\ UNCHANGED supervisor

ClosePlane(r) ==
    /\ At(r, "close_plane")
    /\ req' = [req EXCEPT ![r].plane = "closed", ![r].pc = "done"]
    /\ UNCHANGED supervisor

-----------------------------------------------------------------------------
(* The clients, and the Supervisor's writes to the shared database.        *)

ClientLeaves(r) ==
    /\ ~req[r].gone /\ req[r].pc # "done"
    /\ req' = [req EXCEPT ![r].gone = TRUE]
    /\ UNCHANGED supervisor

Revoke ==
    /\ active
    /\ active' = FALSE
    /\ UNCHANGED <<req, available, configured, changes>>

Change ==
    /\ changes < MaxChanges
    /\ changes' = changes + 1
    /\ \/ available' = ~available /\ UNCHANGED configured
       \/ configured' = ~configured /\ UNCHANGED available
    /\ UNCHANGED <<req, active>>

-----------------------------------------------------------------------------
Handle(r) ==
    \/ AuthRead(r) \/ AuthUpdate(r)
    \/ Body(r) \/ BodyLost(r) \/ Resolve(r) \/ Refresh(r) \/ Load(r)
    \/ PostOk(r) \/ PostError(r) \/ PostClose(r) \/ Miss(r)
    \/ Open(r) \/ OpenError(r) \/ OpenBreaks(r) \/ OpenClose(r)
    \/ SendHead(r) \/ PullLine(r) \/ Push(r) \/ PullEnd(r) \/ Cancelled(r)
    \/ CloseStream(r) \/ ClosePlane(r)

Next ==
    \/ \E r \in Request : Handle(r) \/ ClientLeaves(r)
    \/ Revoke \/ Change

Spec == Init /\ [][Next]_vars

(* The event loop resumes every request; upstreams answer or time out.     *)
FairSpec == Spec /\ \A r \in Request : WF_vars(Handle(r))

-----------------------------------------------------------------------------
(* Properties.                                                             *)

(* Every variable keeps its type.                                          *)
TypeOK ==
    /\ req \in [Request -> Locals]
    /\ active \in BOOLEAN /\ available \in BOOLEAN /\ configured \in BOOLEAN
    /\ changes \in 0..MaxChanges

(* Once a key is revoked, no request that is still being authenticated is  *)
(* let in, though its row was read while the key was active.               *)
RevokedKeyLetsNobodyIn ==
    [][~active => \A r \in Request : req'[r].granted = req[r].granted]_vars

(* A custom provider's generator that was closed before it ever ran.       *)
NeverIterated(r) ==
    req[r].custom /\ req[r].answer = "sse" /\ ~req[r].started

(* A request is accounted for once when it is over, however it ended, and  *)
(* an unauthenticated one is not: whichever of finish_usage's call sites,  *)
(* stream closings and cancellations came first.  Only an exception that   *)
(* leaves the handler, and NeverIterated, go unrecorded.                   *)
AccountedOnce ==
    \A r \in Request :
        /\ Len(req[r].usage) <= 1
        /\ ~req[r].granted => req[r].usage = <<>>
        /\ /\ req[r].pc = "done" /\ req[r].granted
           /\ req[r].answer # "exception" /\ ~NeverIterated(r)
           => Len(req[r].usage) = 1

(* What is accounted is what happened: "succeeded" if the whole answer or  *)
(* its [DONE] came, "aborted" only if the client left an unfinished        *)
(* stream, "failed" otherwise; and with tokens just when the upstream      *)
(* reported them, though the rest of the answer was lost.  A failure is    *)
(* recorded under the code that the caller was told, but for a rate limit  *)
(* of the Sidecar's that names no code: it is recorded as what it is and   *)
(* told as the provider's error, with the HTTP status 429.                 *)
Unnamed(error) == error.status = 429 /\ error.code = "none"
Truthful(r, usage) ==
    /\ usage.tokens <=> "usage" \in req[r].sent
    /\ req[r].answer \in ErrorCode =>
         \/ usage.category = req[r].answer /\ ~Unnamed(req[r].error)
         \/ /\ usage.category = "rate_limit_exceeded" /\ Unnamed(req[r].error)
            /\ req[r].answer = "provider_error" /\ ~req[r].custom
    /\ usage.status = "succeeded" <=> req[r].answer = "ok" \/ "done" \in req[r].sent
    /\ usage.status = "aborted" =>
         req[r].gone /\ req[r].answer = "sse" /\ ~req[r].ended /\ ~req[r].failed

TruthfulStatus ==
    \A r \in Request : \A i \in 1..Len(req[r].usage) : Truthful(r, req[r].usage[i])

(* When a request is over nothing it opened stays open: the upstream       *)
(* response, nor the custom provider's client of an answer not streamed.   *)
Released ==
    \A r \in Request : req[r].pc = "done" =>
        /\ req[r].upstream # "open" \/ NeverIterated(r)
        /\ req[r].answer \in {"ok"} \cup ErrorCode => req[r].plane # "open"

(* Every Sidecar stream that was opened is closed in the end.              *)
StreamsClose ==
    \A r \in Request :
        req[r].upstream = "open" /\ ~req[r].custom ~> req[r].upstream = "closed"

(* What the docstring of _ClosingSSEStream says: "Close the upstream even  *)
(* if downstream cancels before the first event."                          *)
ClosedBeforeFirstEvent ==
    \A r \in Request : req[r].pc = "done" => req[r].upstream # "open"

=============================================================================
